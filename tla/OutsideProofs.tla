--------------------------- MODULE OutsideProofs ----------------------------
(***************************************************************************)
(* Proofs about what the agent meets outside its own process: tool         *)
(* servers, language servers, the browser, the bots and their login, and   *)
(* sandboxed commands.                                                     *)
(***************************************************************************)
EXTENDS MCOutside, SequenceTheorems, TLAPS

-----------------------------------------------------------------------------
(* MCP servers.  A request has an id of its own; what waits for it in its  *)
(* channel is the answer to that id or a failure, and then its entry of    *)
(* the map is gone.                                                        *)

CallerRecords ==
    [at : {"idle", "begun", "inserted", "waiting", "expiring", "returned", "abandoned"},
     id : Nat, got : SUBSET Nat]

McpTyped ==
    /\ link \in {"initializing", "ready", "failed"}
    /\ caller \in [Requests -> CallerRecords]
    /\ next_id \in Nat \ {0} /\ pending \subseteq Nat /\ sent \subseteq Nat
    /\ replies \subseteq sent
    /\ closed \in BOOLEAN /\ (closed <=> reader # "reading")

McpIds ==
    /\ \A c \in Requests : caller[c].id < next_id
    /\ \A c \in Requests : caller[c].at \in {"begun", "inserted", "waiting", "expiring", "abandoned"} =>
            caller[c].id # 0
    /\ \A c \in Requests : caller[c].at = "idle" => caller[c].id = 0
    /\ \A c, d \in Requests : caller[c].id # 0 /\ caller[c].id = caller[d].id => c = d

McpGot ==
    \A c \in Requests :
        /\ caller[c].got \in {{}, Failure, {caller[c].id}}
        /\ caller[c].at \in {"idle", "begun"} => caller[c].got = {}
        /\ caller[c].at = "returned" => caller[c].got # {}
        /\ caller[c].got # {} => caller[c].id \notin pending

Owns(c, i) ==
    caller[c].id = i /\ caller[c].at \in {"inserted", "waiting", "expiring", "abandoned"}

McpPending == \A i \in pending : i # 0 /\ \E c \in Requests : Owns(c, i)

McpInv == McpTyped /\ McpIds /\ McpGot /\ McpPending

(* One request moves.                                                      *)
McpMoves(c, r) ==
    /\ caller' = [caller EXCEPT ![c] = r] /\ r \in CallerRecords
    /\ link' = link /\ next_id' \in Nat /\ next_id <= next_id' /\ sent' \subseteq Nat
    /\ replies' = replies /\ sent \subseteq sent' /\ closed' = closed /\ reader' = reader
    /\ r.id < next_id' /\ (r.id = caller[c].id \/ (r.id = next_id /\ caller[c].id = 0))
    /\ r.at \in {"begun", "inserted", "waiting", "expiring", "abandoned"} => r.id # 0
    /\ r.at # "idle"
    /\ r.got \in {{}, Failure, {r.id}} /\ (r.got # {} => r.id \notin pending')
    /\ r.at = "begun" => r.got = {}
    /\ r.at = "returned" => r.got # {}
    /\ pending' \subseteq pending \cup ({r.id} \ {0})
    /\ r.id \in pending' => r.at \in {"inserted", "waiting", "expiring", "abandoned"}

LEMMA McpMovesKeeps ==
    ASSUME McpInv, NEW c \in Requests, NEW r, McpMoves(c, r)
    PROVE  McpInv'
<1>1. /\ caller \in [Requests -> CallerRecords] /\ r \in CallerRecords
      /\ caller'[c] = r /\ \A d \in Requests : d # c => caller'[d] = caller[d]
      /\ caller' \in [Requests -> CallerRecords]
  BY DEF McpInv, McpTyped, McpMoves
<1>2. /\ next_id \in Nat \ {0} /\ next_id' \in Nat /\ r.id \in Nat
      /\ \A d \in Requests : caller[d].id \in Nat /\ caller[d].id < next_id
      /\ pending \subseteq Nat
  BY <1>1 DEF McpInv, McpTyped, McpIds, McpMoves, CallerRecords
<1>3. McpTyped'
  BY <1>1, <1>2 DEF McpInv, McpTyped, McpMoves
<1>4. \A d \in Requests : d # c /\ r.id # 0 => caller[d].id # r.id
  <2> SUFFICES ASSUME NEW d \in Requests, d # c, r.id # 0, caller[d].id = r.id PROVE FALSE
    OBVIOUS
  <2>1. CASE r.id = caller[c].id
    BY <2>1 DEF McpInv, McpIds
  <2>2. CASE r.id = next_id
    BY <1>2, <2>2
  <2> QED BY <2>1, <2>2 DEF McpMoves
<1>5. McpIds'
  <2>1. \A d \in Requests : caller'[d].id < next_id'
    <3> SUFFICES ASSUME NEW d \in Requests PROVE caller'[d].id < next_id'
      OBVIOUS
    <3>1. CASE d = c
      BY <1>1, <3>1 DEF McpMoves
    <3>2. CASE d # c
      BY <1>1, <1>2, <3>2 DEF McpMoves
    <3> QED BY <3>1, <3>2
  <2>2. \A d \in Requests :
            /\ caller'[d].at \in {"begun", "inserted", "waiting", "expiring", "abandoned"} =>
                    caller'[d].id # 0
            /\ caller'[d].at = "idle" => caller'[d].id = 0
    BY <1>1 DEF McpInv, McpIds, McpMoves
  <2>3. \A d, e \in Requests : caller'[d].id # 0 /\ caller'[d].id = caller'[e].id => d = e
    BY <1>1, <1>4 DEF McpInv, McpIds
  <2> QED BY <2>1, <2>2, <2>3 DEF McpIds
<1>6. McpGot'
  <2> SUFFICES ASSUME NEW d \in Requests
               PROVE  /\ caller'[d].got \in {{}, Failure, {caller'[d].id}}
                      /\ caller'[d].at \in {"idle", "begun"} => caller'[d].got = {}
                      /\ caller'[d].at = "returned" => caller'[d].got # {}
                      /\ caller'[d].got # {} => caller'[d].id \notin pending'
    BY DEF McpGot
  <2>1. CASE d = c
    BY <1>1, <2>1 DEF McpMoves
  <2>2. CASE d # c
    <3>1. caller'[d] = caller[d]
      BY <1>1, <2>2
    <3>2. caller[d].id \in pending' => caller[d].id \in pending
      BY <1>4, <2>2 DEF McpMoves
    <3> QED BY <3>1, <3>2 DEF McpInv, McpGot
  <2> QED BY <2>1, <2>2
<1>7. McpPending'
  <2> SUFFICES ASSUME NEW i \in pending'
               PROVE  i # 0 /\ \E d \in Requests : Owns(d, i)'
    BY DEF McpPending
  <2>1. CASE i = r.id
    <3>1. i # 0
      BY <2>1 DEF McpMoves, McpInv, McpPending
    <3>2. Owns(c, i)'
      BY <1>1, <2>1 DEF Owns, McpMoves
    <3> QED BY <3>1, <3>2
  <2>2. CASE i # r.id
    <3>1. i \in pending
      BY <2>2 DEF McpMoves
    <3>2. PICK d \in Requests : Owns(d, i) /\ i # 0
      BY <3>1 DEF McpInv, McpPending
    <3>3. d # c
      BY <2>2, <3>2 DEF Owns, McpMoves
    <3>4. Owns(d, i)'
      BY <1>1, <3>2, <3>3 DEF Owns
    <3> QED BY <3>2, <3>4
  <2> QED BY <2>1, <2>2
<1> QED BY <1>3, <1>5, <1>6, <1>7 DEF McpInv

LEMMA BeginCallKeeps ==
    ASSUME McpInv, NEW c \in Requests, BeginCall(c)
    PROVE  McpInv'
<1>1. /\ caller[c] \in CallerRecords /\ caller[c].at = "idle" /\ caller[c].id = 0 /\ caller[c].got = {}
      /\ next_id \in Nat \ {0} /\ pending \subseteq Nat /\ sent \subseteq Nat /\ 0 \notin pending
  BY DEF BeginCall, McpInv, McpTyped, McpIds, McpGot, McpPending
<1>2. CASE closed
  <2>1. PICK r : r = [caller[c] EXCEPT !.at = "returned", !.got = Failure]
    OBVIOUS
  <2>2. r \in CallerRecords /\ r.at = "returned" /\ r.id = 0 /\ r.got = Failure
    BY <1>1, <2>1 DEF CallerRecords, Failure
  <2>3. /\ caller' = [caller EXCEPT ![c] = r] /\ next_id' = next_id /\ pending' = pending
        /\ link' = link /\ sent' = sent /\ replies' = replies /\ closed' = closed /\ reader' = reader
    BY <1>2, <2>1 DEF BeginCall
  <2>4. McpMoves(c, r)
    BY <1>1, <2>2, <2>3 DEF McpMoves, Failure
  <2> QED BY <2>4, McpMovesKeeps
<1>3. CASE ~closed
  <2>1. PICK r : r = [caller[c] EXCEPT !.at = "begun", !.id = next_id]
    OBVIOUS
  <2>2. r \in CallerRecords /\ r.at = "begun" /\ r.id = next_id /\ r.got = {}
    BY <1>1, <2>1 DEF CallerRecords
  <2>3. /\ caller' = [caller EXCEPT ![c] = r] /\ next_id' = next_id + 1 /\ pending' = pending
        /\ link' = link /\ sent' = sent /\ replies' = replies /\ closed' = closed /\ reader' = reader
    BY <1>3, <2>1 DEF BeginCall
  <2>4. next_id \notin pending
    BY DEF McpInv, McpPending, McpIds, McpTyped, Owns
  <2>5. McpMoves(c, r)
    BY <1>1, <2>2, <2>3, <2>4 DEF McpMoves
  <2> QED BY <2>5, McpMovesKeeps
<1> QED BY <1>2, <1>3

LEMMA McpOneKeeps ==
    ASSUME McpInv, NEW c \in Requests,
           Insert(c) \/ Send(c) \/ Receive(c) \/ TimeOut(c) \/ Expire(c) \/ GiveUp(c)
    PROVE  McpInv'
<1>0. /\ caller \in [Requests -> CallerRecords] /\ caller[c] \in CallerRecords /\ caller[c].id \in Nat
      /\ next_id \in Nat \ {0} /\ pending \subseteq Nat /\ sent \subseteq Nat
      /\ caller[c].id < next_id /\ caller[c].got \in {{}, Failure, {caller[c].id}}
      /\ caller[c].at = "begun" => caller[c].got = {}
      /\ caller[c].got # {} => caller[c].id \notin pending
      /\ caller[c].at \in {"begun", "inserted", "waiting", "expiring", "abandoned"} => caller[c].id # 0
  BY DEF McpInv, McpTyped, McpIds, McpGot, CallerRecords
<1>1. CASE Insert(c)
  <2>1. PICK r : r = [caller[c] EXCEPT !.at = "inserted"]
    OBVIOUS
  <2>2. r \in CallerRecords /\ r.at = "inserted" /\ r.id = caller[c].id /\ r.got = caller[c].got
    BY <1>0, <2>1 DEF CallerRecords
  <2>3. /\ caller' = [caller EXCEPT ![c] = r] /\ next_id' = next_id /\ pending' = pending \cup {caller[c].id}
        /\ link' = link /\ sent' = sent /\ replies' = replies /\ closed' = closed /\ reader' = reader
        /\ caller[c].at = "begun"
    BY <1>0, <1>1, <2>1 DEF Insert
  <2>4. McpMoves(c, r)
    BY <1>0, <2>2, <2>3 DEF McpMoves
  <2> QED BY <2>4, McpMovesKeeps
<1>2. CASE Send(c) /\ writer
  <2>1. PICK r : r = [caller[c] EXCEPT !.at = "waiting"]
    OBVIOUS
  <2>2. r \in CallerRecords /\ r.at = "waiting" /\ r.id = caller[c].id /\ r.got = caller[c].got
    BY <1>0, <2>1 DEF CallerRecords
  <2>3. /\ caller' = [caller EXCEPT ![c] = r] /\ next_id' = next_id /\ pending' = pending
        /\ link' = link /\ sent' = sent \cup {caller[c].id} /\ replies' = replies
        /\ closed' = closed /\ reader' = reader /\ caller[c].at = "inserted"
    BY <1>0, <1>2, <2>1 DEF Send
  <2>s. sent \subseteq sent' /\ sent' \subseteq Nat
    BY <1>0, <2>3
  <2>i. r.id # 0 /\ r.id < next_id /\ r.got \in {{}, Failure, {r.id}} /\ (r.got # {} => r.id \notin pending)
    BY <1>0, <2>2, <2>3
  <2>4. McpMoves(c, r)
    BY <1>0, <2>2, <2>3, <2>s, <2>i DEF McpMoves
  <2> QED BY <2>4, McpMovesKeeps
<1>3. CASE (Send(c) /\ ~writer) \/ Expire(c)
  <2>1. PICK r : r = [caller[c] EXCEPT !.at = "returned", !.got = Failure]
    OBVIOUS
  <2>f. Failure \in SUBSET Nat
    BY DEF Failure
  <2>2. r \in CallerRecords /\ r.at = "returned" /\ r.id = caller[c].id /\ r.got = Failure
    BY <1>0, <2>1, <2>f DEF CallerRecords
  <2>3. /\ caller' = [caller EXCEPT ![c] = r] /\ next_id' = next_id /\ pending' = pending \ {caller[c].id}
        /\ link' = link /\ sent' = sent /\ replies' = replies /\ closed' = closed /\ reader' = reader
    BY <1>0, <1>3, <2>1 DEF Send, Expire, TimedOut
  <2>4. McpMoves(c, r)
    BY <1>0, <2>2, <2>3 DEF McpMoves, Failure
  <2> QED BY <2>4, McpMovesKeeps
<1>4. CASE Receive(c)
  <2>1. PICK r : r = [caller[c] EXCEPT !.at = "returned"]
    OBVIOUS
  <2>2. r \in CallerRecords /\ r.at = "returned" /\ r.id = caller[c].id /\ r.got = caller[c].got
    BY <1>0, <2>1 DEF CallerRecords
  <2>3. /\ caller' = [caller EXCEPT ![c] = r] /\ next_id' = next_id /\ pending' = pending
        /\ link' = link /\ sent' = sent /\ replies' = replies /\ closed' = closed /\ reader' = reader
        /\ caller[c].at = "waiting" /\ caller[c].got # {}
    BY <1>0, <1>4, <2>1 DEF Receive, Delivered
  <2>4. McpMoves(c, r)
    BY <1>0, <2>2, <2>3 DEF McpMoves
  <2> QED BY <2>4, McpMovesKeeps
<1>5. CASE TimeOut(c) \/ GiveUp(c)
  <2>1. PICK at \in {"expiring", "abandoned"} : caller' = [caller EXCEPT ![c].at = at]
    BY <1>5 DEF TimeOut, GiveUp
  <2>2. PICK r : r = [caller[c] EXCEPT !.at = at]
    OBVIOUS
  <2>3. r \in CallerRecords /\ r.at = at /\ r.id = caller[c].id /\ r.got = caller[c].got
    BY <1>0, <2>1, <2>2 DEF CallerRecords
  <2>4. /\ caller' = [caller EXCEPT ![c] = r] /\ next_id' = next_id /\ pending' = pending
        /\ link' = link /\ sent' = sent /\ replies' = replies /\ closed' = closed /\ reader' = reader
        /\ caller[c].at = "waiting"
    BY <1>0, <1>5, <2>1, <2>2 DEF TimeOut, GiveUp, Elapsed
  <2>i. r.id # 0 /\ r.id < next_id /\ r.got \in {{}, Failure, {r.id}} /\ (r.got # {} => r.id \notin pending)
    BY <1>0, <2>3, <2>4
  <2>a. r.at \in {"expiring", "abandoned"} /\ r.at \notin {"idle", "begun", "returned"}
    BY <2>1, <2>3
  <2>p. /\ pending' \subseteq pending \cup ({r.id} \ {0}) /\ sent' \subseteq Nat /\ sent \subseteq sent'
        /\ next_id' \in Nat /\ next_id <= next_id'
    BY <1>0, <2>4
  <2>5. McpMoves(c, r)
    BY <2>3, <2>4, <2>i, <2>a, <2>p DEF McpMoves
  <2> QED BY <2>5, McpMovesKeeps
<1> QED BY <1>1, <1>2, <1>3, <1>4, <1>5

(* Requests are given what waits in their channels: an answer or a failure.*)
McpGives(D, i) ==
    /\ D \subseteq Requests
    /\ \A c \in D : caller[c].at \in {"inserted", "waiting"} /\ caller[c].id \notin pending'
    /\ caller' = [c \in Requests |-> IF c \in D THEN [caller[c] EXCEPT !.got = {i}] ELSE caller[c]]
    /\ {i} = Failure \/ \A c \in D : caller[c].id = i
    /\ i \in Nat /\ pending' \subseteq pending

LEMMA McpGivesKeeps ==
    ASSUME McpInv, NEW D, NEW i, McpGives(D, i), next_id' = next_id, McpTyped'
    PROVE  McpInv'
<1>1. ASSUME NEW c \in Requests
      PROVE  /\ caller'[c].at = caller[c].at /\ caller'[c].id = caller[c].id
             /\ c \in D => caller'[c].got = {i}
             /\ c \notin D => caller'[c].got = caller[c].got
  <2>1. caller[c] \in CallerRecords
    BY DEF McpInv, McpTyped
  <2>2. CASE c \in D
    <3>1. caller'[c] = [caller[c] EXCEPT !.got = {i}]
      BY <2>2 DEF McpGives
    <3> QED BY <2>1, <2>2, <3>1 DEF CallerRecords
  <2>3. CASE c \notin D
    BY <2>3 DEF McpGives
  <2> QED BY <2>2, <2>3
<1>2. McpIds'
  BY <1>1 DEF McpInv, McpIds
<1>3. McpGot'
  <2> SUFFICES ASSUME NEW d \in Requests
               PROVE  /\ caller'[d].got \in {{}, Failure, {caller'[d].id}}
                      /\ caller'[d].at \in {"idle", "begun"} => caller'[d].got = {}
                      /\ caller'[d].at = "returned" => caller'[d].got # {}
                      /\ caller'[d].got # {} => caller'[d].id \notin pending'
    BY DEF McpGot
  <2>1. CASE d \in D
    BY <1>1, <2>1 DEF McpGives
  <2>2. CASE d \notin D
    BY <1>1, <2>2 DEF McpInv, McpGot, McpGives
  <2> QED BY <2>1, <2>2
<1>4. McpPending'
  BY <1>1 DEF McpInv, McpPending, McpGives, Owns
<1> QED BY <1>2, <1>3, <1>4 DEF McpInv

LEMMA McpGivesType ==
    ASSUME McpInv, NEW D, NEW i, McpGives(D, i)
    PROVE  caller' \in [Requests -> CallerRecords]
<1>1. ASSUME NEW c \in Requests
      PROVE  (IF c \in D THEN [caller[c] EXCEPT !.got = {i}] ELSE caller[c]) \in CallerRecords
  <2>1. caller[c] \in CallerRecords /\ {i} \in SUBSET Nat
    BY DEF McpInv, McpTyped, McpGives
  <2> QED BY <2>1 DEF CallerRecords
<1> QED BY <1>1 DEF McpGives

LEMMA ReadKeeps ==
    ASSUME McpInv, NEW i \in Nat, Read(i)
    PROVE  McpInv'
<1>1. /\ replies' = replies \ {i} /\ pending' = pending \ {i} /\ link' = link /\ next_id' = next_id
      /\ sent' = sent /\ closed' = closed /\ reader' = reader
      /\ caller' = [c \in Requests |-> IF i \in pending /\ c \in Addressee(i)
                                       THEN [caller[c] EXCEPT !.got = {i}] ELSE caller[c]]
  BY DEF Read
<1>2. PICK D : D = {c \in Addressee(i) : i \in pending}
  OBVIOUS
<1>3. McpGives(D, i)
  BY <1>1, <1>2 DEF McpGives, Addressee
<1>4. caller' \in [Requests -> CallerRecords]
  BY <1>3, McpGivesType
<1>5. McpTyped'
  BY <1>1, <1>4 DEF McpInv, McpTyped
<1> QED BY <1>1, <1>3, <1>5, McpGivesKeeps

LEMMA DrainKeeps ==
    ASSUME McpInv, pending' = {}, caller' = fail_all_pending, next_id' = next_id, sent' = sent,
           replies' = replies, link' \in {"initializing", "ready", "failed"},
           closed' \in BOOLEAN /\ (closed' <=> reader' # "reading")
    PROVE  McpInv'
<1>1. PICK D : D = {c \in Requests : caller[c].at \in {"inserted", "waiting"} /\ caller[c].id \in pending}
  OBVIOUS
<1>2. McpGives(D, 0)
  <2>1. \A c \in Requests : c \in D <=> caller[c].at \in {"inserted", "waiting"} /\ caller[c].id \in pending
    BY <1>1
  <2>2. caller' = [c \in Requests |-> IF c \in D THEN [caller[c] EXCEPT !.got = {0}] ELSE caller[c]]
    BY <2>1 DEF fail_all_pending, Failure
  <2> QED BY <1>1, <2>1, <2>2 DEF McpGives, Failure
<1>3. caller' \in [Requests -> CallerRecords]
  BY <1>2, McpGivesType
<1>4. McpTyped'
  BY <1>3 DEF McpInv, McpTyped
<1> QED BY <1>2, <1>4, McpGivesKeeps

(* Steps that leave the requests and the map alone.                        *)
LEMMA McpSameKeeps ==
    ASSUME McpInv, caller' = caller, next_id' = next_id, pending' = pending, sent' = sent,
           link' \in {"initializing", "ready", "failed"}, replies' \subseteq sent,
           closed' \in BOOLEAN /\ (closed' <=> reader' # "reading")
    PROVE  McpInv'
<1>1. McpTyped'
  BY DEF McpInv, McpTyped
<1>2. McpIds' /\ McpGot' /\ McpPending'
  BY DEF McpInv, McpIds, McpGot, McpPending, Owns
<1> QED BY <1>1, <1>2 DEF McpInv

LEMMA McpInitInv == McpInit => McpInv
<1> SUFFICES ASSUME McpInit PROVE McpInv
  OBVIOUS
<1>1. caller = [c \in Requests |-> [at |-> "idle", id |-> 0, got |-> {}]]
  BY DEF McpInit
<1>2. McpTyped
  <2>1. [at |-> "idle", id |-> 0, got |-> {}] \in CallerRecords
    BY DEF CallerRecords
  <2>2. caller \in [Requests -> CallerRecords]
    BY <1>1, <2>1
  <2>3. /\ link = "initializing" /\ next_id = 1 /\ pending = {} /\ sent = {} /\ replies = {}
        /\ closed = FALSE /\ reader = "reading"
    BY DEF McpInit
  <2>4. closed \in BOOLEAN /\ (closed <=> reader # "reading")
    BY <2>3, Zenon
  <2>5. pending \subseteq Nat /\ sent \subseteq Nat /\ replies \subseteq sent /\ next_id \in Nat \ {0}
    BY <2>3
  <2> QED BY <2>2, <2>3, <2>4, <2>5, Zenon DEF McpTyped
<1>3. next_id = 1 /\ pending = {}
      /\ \A c \in Requests : caller[c].at = "idle" /\ caller[c].id = 0 /\ caller[c].got = {}
  BY <1>1 DEF McpInit
<1>4. McpIds
  BY <1>3 DEF McpIds
<1>5. McpGot /\ McpPending
  BY <1>3 DEF McpGot, McpPending
<1> QED BY <1>2, <1>4, <1>5 DEF McpInv

LEMMA McpNextKeeps == McpInv /\ [McpNext]_mcpVars => McpInv'
<1> SUFFICES ASSUME McpInv, [McpNext]_mcpVars PROVE McpInv'
  OBVIOUS
<1>0. /\ link \in {"initializing", "ready", "failed"} /\ replies \subseteq sent
      /\ closed \in BOOLEAN /\ (closed <=> reader # "reading") /\ next_id \in Nat
  BY DEF McpInv, McpTyped
<1>1. ASSUME NEW c \in Requests, Insert(c) \/ Send(c) \/ Receive(c) \/ TimeOut(c) \/ Expire(c) \/ GiveUp(c)
      PROVE  McpInv'
  BY <1>1, McpOneKeeps
<1>2. ASSUME NEW c \in Requests, BeginCall(c) PROVE McpInv'
  BY <1>2, BeginCallKeeps
<1>3. ASSUME NEW i \in 1..next_id, Read(i) PROVE McpInv'
  <2>1. i \in Nat
    BY <1>0
  <2> QED BY <1>3, <2>1, ReadKeeps
<1>4. CASE Close
  BY <1>0, <1>4, McpSameKeeps DEF Close
<1>5. CASE Drain
  BY <1>0, <1>5, DrainKeeps DEF Drain
<1>6. ASSUME NEW refused \in BOOLEAN, Connect(refused) PROVE McpInv'
  <2>1. CASE refused \/ caller[Handshake].got = Failure
    BY <1>0, <1>6, <2>1, DrainKeeps DEF Connect
  <2>2. CASE ~(refused \/ caller[Handshake].got = Failure)
    BY <1>0, <1>6, <2>2, McpSameKeeps DEF Connect
  <2> QED BY <2>1, <2>2
<1>7. ASSUME NEW i \in 1..next_id, Reply(i) PROVE McpInv'
  BY <1>0, <1>7, McpSameKeeps DEF Reply
<1>8. CASE ServerDies \/ WriterEnds \/ UNCHANGED mcpVars
  BY <1>0, <1>8, McpSameKeeps DEF ServerDies, WriterEnds, mcpVars
<1> QED BY <1>1, <1>2, <1>3, <1>4, <1>5, <1>6, <1>7, <1>8 DEF McpNext, McpStep

LEMMA McpInvKept == McpInv => McpTypeOK /\ OwnAnswer /\ PendingOwned
<1> SUFFICES ASSUME McpInv PROVE McpTypeOK /\ OwnAnswer /\ PendingOwned
  OBVIOUS
<1>1. pending \subseteq 1..next_id
  <2> SUFFICES ASSUME NEW i \in pending PROVE i \in 1..next_id
    OBVIOUS
  <2>1. PICK c \in Requests : caller[c].id = i /\ i # 0
    BY DEF McpInv, McpPending, Owns
  <2>2. caller[c].id \in Nat /\ caller[c].id < next_id /\ next_id \in Nat
    BY DEF McpInv, McpTyped, McpIds, CallerRecords
  <2> QED BY <2>1, <2>2
<1>2. McpTypeOK
  <2>1. closed = (reader # "reading")
    BY DEF McpInv, McpTyped
  <2>2. \A c \in Requests : caller[c] \in CallerRecords
    BY DEF McpInv, McpTyped
  <2> QED BY <1>1, <2>1, <2>2 DEF McpInv, McpTyped, McpTypeOK, CallerRecords
<1>3. OwnAnswer
  BY DEF McpInv, McpGot, OwnAnswer
<1>4. PendingOwned
  BY DEF McpInv, McpPending, PendingOwned, Owns
<1> QED BY <1>2, <1>3, <1>4

-----------------------------------------------------------------------------
(* The language server.  Whoever is past the lock holds it; the pipe holds *)
(* halves of messages in turn and ends with a body, and a thread that has  *)
(* read a header has its body in front of it.  A text is a file and the    *)
(* operation that read it.                                                 *)

Docs == (LspFiles \cup {None}) \X Nat

ThreadRecords ==
    [pc : {"idle", "lock", "open", "initialize", "request", "publish"},
     op : {None, "navigate", "diagnostics"}, doc : Docs, id : Nat, body : BOOLEAN, blocked : BOOLEAN,
     budget : Nat, got : Nat, about : Docs]

HandleRecords == [present : BOOLEAN, initialized : BOOLEAN, pull : BOOLEAN, next_id : Nat]

ServerRecords ==
    [spawned : 0..1, alive : BOOLEAN, inits : Nat, pull : BOOLEAN, published : Nat, held : 0..2]

Sendings ==
    [method : {"initialize", "didOpen", "navigate", "diagnostics", None}, id : Nat, doc : Docs]

Headers == {[half |-> "header"]}

Bodies ==
    {b \in [half : {"body"}, method : {"response", "publishDiagnostics"}, id : Nat, error : BOOLEAN,
           doc : Docs] :
        b.method = "publishDiagnostics" => b.id = 0}

Halves(s) ==
    /\ s \in Seq(Headers \cup Bodies)
    /\ s # <<>> => s[Len(s)].half = "body"
    /\ \A i \in 1..(Len(s) - 1) : s[i].half # s[i + 1].half

InFront(s) == s # <<>> /\ s[1].half = "body"

LspTyped ==
    /\ lspLock \in LspThreads \cup {None}
    /\ thread \in [LspThreads -> ThreadRecords]
    /\ handle \in HandleRecords /\ server \in ServerRecords
    /\ handle.present \/ server.spawned = 0
    /\ inbox \in Seq(Sendings) /\ operations \in Nat

LspHeld == \A t \in LspThreads : thread[t].pc \notin {"idle", "lock"} => lspLock = t

LspPipe == Halves(outbox) /\ \A t \in LspThreads : Reading(t) /\ thread[t].body => InFront(outbox)

LspInv == LspTyped /\ LspHeld /\ LspPipe /\ AnswersMatch

LEMMA BodyFacts ==
    ASSUME NEW m \in Headers \cup Bodies
    PROVE  /\ m.half \in {"header", "body"}
           /\ m.half = "body" => m \in Bodies
           /\ m \in Bodies => /\ m.half = "body" /\ m.id \in Nat /\ m.error \in BOOLEAN /\ m.doc \in Docs
                              /\ m.method = "publishDiagnostics" => m.id = 0
<1>1. CASE m \in Headers
  <2>1. m.half = "header"
    BY <1>1 DEF Headers
  <2>2. m \notin Bodies
    BY <2>1 DEF Bodies
  <2> QED BY <2>1, <2>2
<1>2. CASE m \in Bodies
  BY <1>2 DEF Bodies
<1> QED BY <1>1, <1>2

LEMMA HalvesTail ==
    ASSUME NEW s, Halves(s), s # <<>>
    PROVE  /\ Halves(Tail(s)) /\ Head(s) = s[1] /\ Head(s) \in Headers \cup Bodies
           /\ Head(s).half = "header" => InFront(Tail(s))
<1>1. /\ s \in Seq(Headers \cup Bodies) /\ Len(s) \in Nat /\ Len(s) > 0 /\ Head(s) = s[1]
      /\ Tail(s) \in Seq(Headers \cup Bodies) /\ Len(Tail(s)) = Len(s) - 1
      /\ \A i \in 1..(Len(s) - 1) : Tail(s)[i] = s[i + 1]
      /\ s[1] \in Headers \cup Bodies
  BY DEF Halves
<1>2. Tail(s) # <<>> => Len(s) > 1 /\ Tail(s)[Len(Tail(s))] = s[Len(s)]
  <2> SUFFICES ASSUME Tail(s) # <<>> PROVE Len(s) > 1 /\ Tail(s)[Len(Tail(s))] = s[Len(s)]
    OBVIOUS
  <2>1. Len(Tail(s)) # 0
    BY <1>1, EmptySeq
  <2>2. Len(s) > 1 /\ Len(s) - 1 \in 1..(Len(s) - 1) /\ (Len(s) - 1) + 1 = Len(s)
    BY <1>1, <2>1
  <2> QED BY <1>1, <2>2
<1>3. Halves(Tail(s))
  <2>1. Tail(s) # <<>> => Tail(s)[Len(Tail(s))].half = "body"
    BY <1>1, <1>2 DEF Halves
  <2>2. ASSUME NEW i \in 1..(Len(Tail(s)) - 1) PROVE Tail(s)[i].half # Tail(s)[i + 1].half
    <3>1. i \in 1..(Len(s) - 1) /\ i + 1 \in 1..(Len(s) - 1)
      BY <1>1
    <3>2. Tail(s)[i] = s[i + 1] /\ Tail(s)[i + 1] = s[(i + 1) + 1]
      BY <1>1, <3>1
    <3>3. s[i + 1].half # s[(i + 1) + 1].half
      BY <3>1 DEF Halves
    <3> QED BY <3>2, <3>3
  <2> QED BY <1>1, <2>1, <2>2 DEF Halves
<1>4. ASSUME Head(s).half = "header" PROVE InFront(Tail(s))
  <2>1. Len(s) # 1
    BY <1>1, <1>4 DEF Halves
  <2>2. 1 \in 1..(Len(s) - 1) /\ s[1].half # s[1 + 1].half /\ Tail(s)[1] = s[1 + 1]
    BY <1>1, <2>1 DEF Halves
  <2>3. s[1 + 1] \in Headers \cup Bodies /\ s[1 + 1].half # "header"
    BY <1>1, <1>4, <2>1, <2>2
  <2>4. s[1 + 1].half = "body"
    BY <2>3, BodyFacts
  <2>5. Tail(s) # <<>>
    <3>1. PICK u : u = Tail(s)
      OBVIOUS
    <3>2. Len(u) # 0
      BY <1>1, <2>1, <3>1
    <3>3. u # <<>>
      BY <3>2
    <3> QED BY <3>1, <3>3
  <2> QED BY <2>2, <2>4, <2>5 DEF InFront
<1> QED BY <1>1, <1>3, <1>4

LEMMA HalvesMore ==
    ASSUME NEW s, Halves(s), NEW method \in {"response", "publishDiagnostics"}, NEW id \in Nat,
           NEW error \in BOOLEAN, NEW doc \in Docs, method = "publishDiagnostics" => id = 0
    PROVE  /\ Halves(s \o Message(method, id, error, doc))
           /\ InFront(s) => InFront(s \o Message(method, id, error, doc))
<1>1. PICK h : h = [half |-> "header"]
  OBVIOUS
<1>2. PICK b : b = [half |-> "body", method |-> method, id |-> id, error |-> error, doc |-> doc]
  OBVIOUS
<1>3. Message(method, id, error, doc) = <<h, b>> /\ h.half = "header" /\ b.half = "body"
  BY <1>1, <1>2 DEF Message
<1>4. h \in Headers /\ b \in Bodies
  BY <1>1, <1>2 DEF Headers, Bodies
<1>5. PICK u : u = s \o <<h, b>>
  OBVIOUS
<1>6. /\ s \in Seq(Headers \cup Bodies) /\ Len(s) \in Nat /\ u \in Seq(Headers \cup Bodies)
      /\ Len(u) = Len(s) + 2 /\ u[Len(s) + 1] = h /\ u[Len(s) + 2] = b
      /\ \A i \in 1..Len(s) : u[i] = s[i]
  BY <1>4, <1>5 DEF Halves
<1>7. \A i \in 1..(Len(u) - 1) : u[i].half # u[i + 1].half
  <2> SUFFICES ASSUME NEW i \in 1..(Len(u) - 1) PROVE u[i].half # u[i + 1].half
    OBVIOUS
  <2>1. CASE i = Len(s) + 1
    <3>1. u[i] = h /\ u[i + 1] = b
      BY <1>6, <2>1
    <3> QED BY <1>3, <3>1
  <2>2. CASE i = Len(s)
    <3>1. u[i] = s[Len(s)] /\ u[i + 1] = h /\ s # <<>>
      BY <1>6, <2>2
    <3> QED BY <1>3, <3>1 DEF Halves
  <2>3. CASE i < Len(s)
    <3>1. i \in 1..(Len(s) - 1) /\ u[i] = s[i] /\ u[i + 1] = s[i + 1]
      BY <1>6, <2>3
    <3> QED BY <3>1 DEF Halves
  <2> QED BY <1>6, <2>1, <2>2, <2>3
<1>8. Halves(u)
  BY <1>3, <1>6, <1>7 DEF Halves
<1>9. InFront(s) => InFront(u)
  <2> SUFFICES ASSUME InFront(s) PROVE InFront(u)
    OBVIOUS
  <2>1. Len(s) > 0 /\ u # <<>> /\ u[1] = s[1]
    BY <1>6 DEF InFront
  <2> QED BY <2>1 DEF InFront
<1> QED BY <1>3, <1>5, <1>8, <1>9

(* A thread moves.                                                         *)
LspMoves(t, r) ==
    /\ thread' = [thread EXCEPT ![t] = r] /\ r \in ThreadRecords
    /\ \/ lspLock' = lspLock /\ r.pc \in {"idle", "lock"} /\ outbox' = outbox
          /\ thread[t].pc \in {"idle", "lock"}
       \/ lspLock \in {None, t} /\ lspLock' \in {None, t} /\ (r.pc \notin {"idle", "lock"} => lspLock' = t)
    /\ handle' \in HandleRecords /\ server' \in ServerRecords
    /\ handle'.present \/ server'.spawned = 0
    /\ inbox' \in Seq(Sendings) /\ Halves(outbox')
    /\ r.pc \in {"initialize", "request", "publish"} /\ r.body => InFront(outbox')
    /\ r.pc = "idle" /\ r.got # 0 => r.got = r.id
    /\ r.pc = "idle" /\ r.about # NoDoc => r.about[1] = r.doc[1]
    /\ operations' \in Nat

LEMMA LspMovesKeeps ==
    ASSUME LspInv, NEW t \in LspThreads, NEW r, LspMoves(t, r)
    PROVE  LspInv'
<1>1. /\ thread \in [LspThreads -> ThreadRecords] /\ thread' \in [LspThreads -> ThreadRecords]
      /\ thread'[t] = r /\ \A u \in LspThreads : u # t => thread'[u] = thread[u]
  BY DEF LspInv, LspTyped, LspMoves
<1>2. LspTyped'
  <2>1. lspLock' \in LspThreads \cup {None}
    BY DEF LspInv, LspTyped, LspMoves
  <2> QED BY <1>1, <2>1 DEF LspTyped, LspMoves
<1>3. \A u \in LspThreads : u # t /\ thread[u].pc \notin {"idle", "lock"} =>
            lspLock = u /\ lspLock' = lspLock /\ outbox' = outbox
  BY LspAssumption DEF LspInv, LspHeld, LspMoves
<1>4. LspHeld'
  <2> SUFFICES ASSUME NEW u \in LspThreads, thread'[u].pc \notin {"idle", "lock"} PROVE lspLock' = u
    BY DEF LspHeld
  <2>1. CASE u = t
    BY <1>1, <2>1 DEF LspMoves
  <2>2. CASE u # t
    BY <1>1, <1>3, <2>2
  <2> QED BY <2>1, <2>2
<1>5. LspPipe'
  <2> SUFFICES ASSUME NEW u \in LspThreads, thread'[u].pc \in {"initialize", "request", "publish"},
                      thread'[u].body
               PROVE  InFront(outbox')
    BY DEF LspPipe, LspMoves, Reading
  <2>1. CASE u = t
    BY <1>1, <2>1 DEF LspMoves
  <2>2. CASE u # t
    <3>1. thread'[u] = thread[u] /\ Reading(u) /\ thread[u].body
      BY <1>1, <2>2 DEF Reading
    <3>2. InFront(outbox) /\ outbox' = outbox
      BY <1>3, <2>2, <3>1 DEF LspInv, LspPipe, Reading
    <3> QED BY <3>2
  <2> QED BY <2>1, <2>2
<1>6. AnswersMatch'
  <2> SUFFICES ASSUME NEW u \in LspThreads, thread'[u].pc = "idle"
               PROVE  /\ thread'[u].got # 0 => thread'[u].got = thread'[u].id
                      /\ thread'[u].about # NoDoc => thread'[u].about[1] = thread'[u].doc[1]
    BY DEF AnswersMatch, NoDoc, None
  <2>1. CASE u = t
    BY <1>1, <2>1 DEF LspMoves
  <2>2. CASE u # t
    BY <1>1, <2>2 DEF LspInv, AnswersMatch
  <2> QED BY <2>1, <2>2
<1> QED BY <1>2, <1>4, <1>5, <1>6 DEF LspInv

(* What every step of a thread starts from.                                *)
LspFrom(t) ==
    /\ thread \in [LspThreads -> ThreadRecords] /\ thread[t] \in ThreadRecords /\ Idle \in ThreadRecords
    /\ Idle.pc = "idle" /\ Idle.got = 0 /\ Idle.body = FALSE /\ Idle.about = NoDoc
    /\ handle \in HandleRecords /\ server \in ServerRecords
    /\ handle.present \/ server.spawned = 0
    /\ inbox \in Seq(Sendings) /\ Halves(outbox) /\ operations \in Nat
    /\ thread[t].doc \in Docs /\ NoDoc \in Docs
    /\ thread[t].pc \notin {"idle", "lock"} => lspLock = t
    /\ Reading(t) /\ thread[t].body => InFront(outbox)

LEMMA LspFromInv ==
    ASSUME LspInv, NEW t \in LspThreads
    PROVE  LspFrom(t)
<1>0. NoDoc \in Docs
  BY DEF NoDoc, Docs
<1>1. /\ Idle \in ThreadRecords /\ Idle.pc = "idle" /\ Idle.got = 0 /\ Idle.body = FALSE
      /\ Idle.about = NoDoc
  BY <1>0 DEF Idle, ThreadRecords, None
<1>2. thread[t] \in ThreadRecords
  BY DEF LspInv, LspTyped
<1>3. thread[t].doc \in Docs
  BY <1>2 DEF ThreadRecords
<1> QED BY <1>0, <1>1, <1>2, <1>3 DEF LspInv, LspTyped, LspHeld, LspPipe, LspFrom

(* A thread that holds the lock gives it back, or one that does not ends.  *)
LEMMA LspFails ==
    ASSUME LspInv, NEW t \in LspThreads, Fail(t), lspLock \in {None, t}, inbox' = inbox,
           handle' \in HandleRecords, handle'.present \/ server.spawned = 0,
           server' = server, Halves(outbox'), operations' = operations
    PROVE  LspInv'
<1>1. LspFrom(t)
  BY LspFromInv
<1>2. LspMoves(t, Idle)
  BY <1>1 DEF LspMoves, LspFrom, Fail
<1> QED BY <1>2, LspMovesKeeps

(* The first request, or the initialize that is tried again.               *)
LEMMA LspAsks ==
    ASSUME LspInv, NEW t \in LspThreads, NEW id \in Nat, NEW up \in BOOLEAN,
           Ask(t, id, up, "initialize", "initialize"), lspLock = None, thread[t].pc = "lock",
           handle' \in HandleRecords, handle'.present, server' \in ServerRecords, outbox' = outbox,
           operations' = operations
    PROVE  LspInv'
<1>1. LspFrom(t)
  BY LspFromInv
<1>2. CASE ~up
  <2>1. LspMoves(t, Idle)
    BY <1>1, <1>2 DEF LspMoves, LspFrom, Fail, Ask
  <2> QED BY <2>1, LspMovesKeeps
<1>3. CASE up
  <2>1. PICK r : r = [thread[t] EXCEPT !.pc = "initialize", !.id = id, !.body = FALSE]
    OBVIOUS
  <2>2. r \in ThreadRecords /\ r.pc = "initialize" /\ ~r.body
    BY <1>1, <2>1 DEF ThreadRecords, LspFrom
  <2>3. thread' = [thread EXCEPT ![t] = r] /\ lspLock' = t
        /\ inbox' = Append(inbox, [method |-> "initialize", id |-> id, doc |-> thread[t].doc])
    BY <1>1, <1>3, <2>1 DEF Ask, LspFrom
  <2>4. [method |-> "initialize", id |-> id, doc |-> thread[t].doc] \in Sendings
    BY <1>1 DEF Sendings, LspFrom
  <2>5. inbox' \in Seq(Sendings)
    BY <1>1, <2>3, <2>4 DEF LspFrom
  <2>6. LspMoves(t, r)
    BY <1>1, <2>2, <2>3, <2>5 DEF LspMoves, LspFrom
  <2> QED BY <2>6, LspMovesKeeps
<1> QED BY <1>2, <1>3

LEMMA LspBeginKeeps ==
    ASSUME LspInv, NEW t \in LspThreads, NEW op \in {"navigate", "diagnostics"}, NEW f \in LspFiles,
           Begin(t, op, f)
    PROVE  LspInv'
<1>1. LspFrom(t)
  BY LspFromInv
<1>d. PICK d : d = <<f, operations + 1>>
  OBVIOUS
<1>2. PICK r : r = [Idle EXCEPT !.pc = "lock", !.op = op, !.doc = d]
  OBVIOUS
<1>e. d \in Docs
  BY <1>1, <1>d DEF Docs, LspFrom
<1>3. r \in ThreadRecords /\ r.pc = "lock"
  BY <1>1, <1>2, <1>e DEF ThreadRecords, LspFrom
<1>4. thread' = [thread EXCEPT ![t] = r] /\ operations' \in Nat
  BY <1>1, <1>d, <1>2 DEF Begin, LspFrom
<1>5. LspMoves(t, r)
  BY <1>1, <1>3, <1>4 DEF LspMoves, LspFrom, Begin
<1> QED BY <1>5, LspMovesKeeps

LEMMA LspSpawnKeeps ==
    ASSUME LspInv, NEW t \in LspThreads, spawn_server(t)
    PROVE  LspInv'
<1>1. LspFrom(t) /\ thread[t].pc = "lock" /\ lspLock = None /\ ~handle.present /\ outbox' = outbox
      /\ operations' = operations
  BY LspFromInv DEF spawn_server
<1>2. CASE thread' = [thread EXCEPT ![t] = Idle] /\ UNCHANGED <<server, handle, lspLock, inbox>>
  <2>1. LspMoves(t, Idle)
    BY <1>1, <1>2 DEF LspMoves, LspFrom
  <2> QED BY <2>1, LspMovesKeeps
<1>3. ASSUME NEW pull \in BOOLEAN,
             server' = [server EXCEPT !.spawned = @ + 1, !.alive = TRUE, !.pull = pull],
             handle' = [present |-> TRUE, initialized |-> FALSE, pull |-> FALSE, next_id |-> 2],
             Ask(t, 1, TRUE, "initialize", "initialize")
      PROVE  LspInv'
  <2>1. server.spawned = 0 /\ server \in ServerRecords
    BY <1>1 DEF LspFrom
  <2>s. PICK n \in 0..1 : n = server.spawned + 1
    BY <2>1
  <2>e. server' = [server EXCEPT !.spawned = n, !.alive = TRUE, !.pull = pull]
    BY <1>3, <2>s
  <2>2. server' \in ServerRecords
    BY <2>1, <2>e DEF ServerRecords
  <2>3. handle' \in HandleRecords /\ handle'.present
    BY <1>3 DEF HandleRecords
  <2> QED BY <1>1, <1>3, <2>2, <2>3, LspAsks
<1> QED BY <1>2, <1>3 DEF spawn_server

LEMMA LspAcquireKeeps ==
    ASSUME LspInv, NEW t \in LspThreads, Acquire(t)
    PROVE  LspInv'
<1>1. /\ LspFrom(t) /\ thread[t].pc = "lock" /\ lspLock = None /\ handle.present
      /\ outbox' = outbox /\ server' = server /\ operations' = operations
  BY LspFromInv DEF Acquire
<1>2. CASE handle.initialized
  <2>1. PICK r : r = [thread[t] EXCEPT !.pc = "open"]
    OBVIOUS
  <2>2. r \in ThreadRecords /\ r.pc = "open"
    BY <1>1, <2>1 DEF ThreadRecords, LspFrom
  <2>3. thread' = [thread EXCEPT ![t] = r] /\ lspLock' = t /\ handle' = handle /\ inbox' = inbox
    BY <1>1, <1>2, <2>1 DEF Acquire, LspFrom
  <2>4. LspMoves(t, r)
    BY <1>1, <2>2, <2>3 DEF LspMoves, LspFrom
  <2> QED BY <2>4, LspMovesKeeps
<1>3. CASE ~handle.initialized
  <2>1. /\ handle' = [handle EXCEPT !.next_id = @ + 1]
        /\ Ask(t, handle.next_id, server.alive, "initialize", "initialize")
    BY <1>3 DEF Acquire
  <2>2. handle' \in HandleRecords /\ handle'.present /\ handle.next_id \in Nat
    BY <1>1, <2>1 DEF HandleRecords, LspFrom
  <2>3. server.alive \in BOOLEAN /\ server' \in ServerRecords
    BY <1>1 DEF ServerRecords, LspFrom
  <2> QED BY <1>1, <2>1, <2>2, <2>3, LspAsks
<1> QED BY <1>2, <1>3

LEMMA LspOpenKeeps ==
    ASSUME LspInv, NEW t \in LspThreads, did_open(t)
    PROVE  LspInv'
<1>1. /\ LspFrom(t) /\ thread[t].pc = "open" /\ lspLock = t /\ outbox' = outbox /\ server' = server
      /\ [method |-> "didOpen", id |-> 0, doc |-> thread[t].doc] \in Sendings
      /\ operations' = operations
  BY LspFromInv DEF did_open, LspFrom, Sendings
<1>2. CASE ~server.alive
  BY <1>1, <1>2, LspFails DEF did_open, LspFrom
<1>3. CASE server.alive /\ thread[t].op = "diagnostics" /\ ~handle.pull
  <2>1. PICK r : r = [thread[t] EXCEPT !.pc = "publish", !.budget = MessageBudget, !.body = FALSE]
    OBVIOUS
  <2>2. r \in ThreadRecords /\ r.pc = "publish" /\ ~r.body
    BY <1>1, <2>1, LspAssumption DEF ThreadRecords, LspFrom
  <2>3. /\ thread' = [thread EXCEPT ![t] = r] /\ lspLock' = lspLock /\ handle' = handle
        /\ inbox' = Append(inbox, [method |-> "didOpen", id |-> 0, doc |-> thread[t].doc])
    BY <1>1, <1>3, <2>1 DEF did_open, LspFrom
  <2>4. inbox' \in Seq(Sendings)
    BY <1>1, <2>3 DEF LspFrom
  <2>5. LspMoves(t, r)
    BY <1>1, <2>2, <2>3, <2>4 DEF LspMoves, LspFrom
  <2> QED BY <2>5, LspMovesKeeps
<1>4. CASE server.alive /\ ~(thread[t].op = "diagnostics" /\ ~handle.pull)
  <2>0. handle \in HandleRecords /\ handle.next_id \in Nat /\ thread[t] \in ThreadRecords
        /\ thread[t].op \in {None, "navigate", "diagnostics"}
    BY <1>1 DEF HandleRecords, ThreadRecords, LspFrom
  <2>1. PICK r : r = [thread[t] EXCEPT !.pc = "request", !.id = handle.next_id, !.body = FALSE]
    OBVIOUS
  <2>2. r \in ThreadRecords /\ r.pc = "request" /\ ~r.body
    BY <2>0, <2>1 DEF ThreadRecords
  <2>3. /\ thread' = [thread EXCEPT ![t] = r] /\ lspLock' = lspLock
        /\ handle' = [handle EXCEPT !.next_id = @ + 1]
        /\ inbox' = inbox \o <<[method |-> "didOpen", id |-> 0, doc |-> thread[t].doc],
                               [method |-> thread[t].op, id |-> handle.next_id, doc |-> thread[t].doc]>>
    BY <1>1, <1>4, <2>1 DEF did_open, LspFrom
  <2>4. [method |-> thread[t].op, id |-> handle.next_id, doc |-> thread[t].doc] \in Sendings
    BY <1>1, <2>0 DEF Sendings, LspFrom
  <2>5. inbox' \in Seq(Sendings)
    BY <1>1, <2>3, <2>4 DEF LspFrom
  <2>n. PICK n \in Nat : n = handle.next_id + 1
    BY <2>0
  <2>e. handle' = [handle EXCEPT !.next_id = n]
    BY <2>3, <2>n
  <2>6. handle' \in HandleRecords /\ handle'.present = handle.present
    BY <2>0, <2>e DEF HandleRecords
  <2>7. LspMoves(t, r)
    BY <1>1, <2>2, <2>3, <2>5, <2>6 DEF LspMoves, LspFrom
  <2> QED BY <2>7, LspMovesKeeps
<1> QED BY <1>2, <1>3, <1>4

LEMMA LspHeaderKeeps ==
    ASSUME LspInv, NEW t \in LspThreads, ReadHeader(t)
    PROVE  LspInv'
<1>1. /\ LspFrom(t) /\ lspLock = t /\ outbox # <<>> /\ server' = server /\ handle' = handle
      /\ inbox' = inbox /\ thread[t].pc \in {"initialize", "request", "publish"} /\ ~thread[t].body
      /\ Readable(t) /\ operations' = operations
  BY LspFromInv DEF ReadHeader, LspFrom, Reading, Readable
<1>h. Head(outbox).half \in {"header", "body"} /\ (LeftOver(t) <=> Head(outbox).half # "header")
  BY <1>1, HalvesTail, BodyFacts DEF LeftOver, LspFrom
<1>2. Halves(Tail(outbox)) /\ (Head(outbox).half = "header" => InFront(Tail(outbox)))
  BY <1>1, HalvesTail DEF LspFrom
<1>3. CASE Head(outbox).half = "header"
  <2>1. PICK r : r = [thread[t] EXCEPT !.body = TRUE, !.blocked = FALSE]
    OBVIOUS
  <2>2. r \in ThreadRecords /\ r.pc = thread[t].pc
    BY <1>1, <2>1 DEF ThreadRecords, LspFrom
  <2>3. thread' = [thread EXCEPT ![t] = r] /\ lspLock' = lspLock /\ outbox' = Tail(outbox)
    BY <1>1, <1>h, <1>3, <2>1 DEF ReadHeader, LspFrom
  <2>4. Halves(outbox') /\ InFront(outbox')
    BY <1>2, <1>3, <2>3
  <2>5. LspMoves(t, r)
    BY <1>1, <2>2, <2>3, <2>4 DEF LspMoves, LspFrom
  <2> QED BY <2>5, LspMovesKeeps
<1>4. CASE Head(outbox).half # "header"
  <2>0. server.held \in Nat /\ Len(outbox) \in Nat
    BY <1>1 DEF LspFrom, ServerRecords, Halves
  <2>1. Len(outbox) >= 2 /\ outbox' = Tail(Tail(outbox)) /\ Fail(t)
    BY <1>1, <1>h, <1>4, <2>0 DEF ReadHeader, Readable
  <2>2. PICK u : u = Tail(outbox)
    OBVIOUS
  <2>3. Len(u) = Len(outbox) - 1 /\ Len(outbox) \in Nat
    BY <1>1, <2>2 DEF LspFrom, Halves
  <2>4. u # <<>>
    <3>1. Len(u) # 0
      BY <2>1, <2>3
    <3> QED BY <3>1
  <2>5. Halves(outbox')
    BY <1>2, <2>1, <2>2, <2>4, HalvesTail
  <2> QED BY <1>1, <2>1, <2>5, LspFails DEF LspFrom
<1> QED BY <1>3, <1>4

LEMMA LspBodyKeeps ==
    ASSUME LspInv, NEW t \in LspThreads, ReadBody(t)
    PROVE  LspInv'
<1>1. /\ LspFrom(t) /\ lspLock = t /\ outbox # <<>> /\ server' = server /\ inbox' = inbox
      /\ thread[t].pc \in {"initialize", "request", "publish"} /\ InFront(outbox)
      /\ thread[t] \in ThreadRecords /\ handle \in HandleRecords /\ outbox' = Tail(outbox)
      /\ operations' = operations
  BY LspFromInv DEF ReadBody, LspFrom, Reading, Readable
<1>2. Halves(outbox') /\ Head(outbox) = outbox[1] /\ Head(outbox) \in Headers \cup Bodies
  BY <1>1, HalvesTail DEF LspFrom
<1>3. PICK m : m = Head(outbox)
  OBVIOUS
<1>4. /\ m \in Bodies /\ m.id \in Nat /\ m.error \in BOOLEAN /\ m.doc \in Docs
      /\ m.method = "publishDiagnostics" => m.id = 0
  BY <1>1, <1>2, <1>3, BodyFacts DEF InFront
<1>5. ASSUME NEW b \in Nat,
             thread' = [thread EXCEPT ![t].body = FALSE, ![t].blocked = FALSE, ![t].budget = b],
             lspLock' = lspLock, handle' = handle
      PROVE  LspInv'
  <2>1. PICK r : r = [thread[t] EXCEPT !.body = FALSE, !.blocked = FALSE, !.budget = b]
    OBVIOUS
  <2>2. r \in ThreadRecords /\ r.pc = thread[t].pc /\ ~r.body
    BY <1>1, <2>1 DEF ThreadRecords
  <2>3. thread' = [thread EXCEPT ![t] = r]
    BY <1>1, <1>5, <2>1 DEF LspFrom
  <2>4. LspMoves(t, r)
    BY <1>1, <1>2, <1>5, <2>2, <2>3 DEF LspMoves, LspFrom
  <2> QED BY <2>4, LspMovesKeeps
<1>6. ASSUME Fail(t), handle' = handle PROVE LspInv'
  <2>1. handle' \in HandleRecords /\ (handle'.present \/ server.spawned = 0)
    BY <1>1, <1>6 DEF LspFrom
  <2> QED BY <1>1, <1>2, <1>6, <2>1, LspFails
<1>7. ASSUME NEW id \in Nat, NEW about \in Docs, Return(t, id, about), handle' = handle,
             id # 0 => id = thread[t].id, about # NoDoc => about[1] = thread[t].doc[1]
      PROVE  LspInv'
  <2>1. PICK r : r = [Idle EXCEPT !.op = thread[t].op, !.doc = thread[t].doc, !.id = thread[t].id,
                                  !.got = id, !.about = about]
    OBVIOUS
  <2>2. /\ r \in ThreadRecords /\ r.pc = "idle" /\ r.id = thread[t].id /\ r.got = id
        /\ r.doc = thread[t].doc /\ r.about = about
    BY <1>1, <2>1 DEF ThreadRecords, LspFrom
  <2>3. thread' = [thread EXCEPT ![t] = r] /\ lspLock' = None
    BY <1>7, <2>1 DEF Return
  <2>4. LspMoves(t, r)
    BY <1>1, <1>2, <1>7, <2>2, <2>3 DEF LspMoves, LspFrom
  <2> QED BY <2>4, LspMovesKeeps
<1>8. CASE thread[t].pc = "publish" /\ Published(t, m)
  <2>1. Return(t, 0, m.doc) /\ handle' = handle
    BY <1>3, <1>8 DEF ReadBody
  <2>2. m.doc[1] = thread[t].doc[1]
    BY <1>8 DEF Published
  <2> QED BY <1>4, <1>7, <2>1, <2>2
<1>9. CASE thread[t].pc = "publish" /\ ~Published(t, m)
  <2>1. CASE thread[t].budget > 1
    <3>1. /\ thread' = [thread EXCEPT ![t].body = FALSE, ![t].blocked = FALSE,
                                      ![t].budget = thread[t].budget - 1]
          /\ lspLock' = lspLock /\ handle' = handle
      BY <1>3, <1>9, <2>1 DEF ReadBody
    <3>2. thread[t].budget - 1 \in Nat
      BY <1>1, <2>1 DEF ThreadRecords
    <3> QED BY <1>5, <3>1, <3>2
  <2>2. CASE ~(thread[t].budget > 1)
    <3>1. Fail(t) /\ handle' = handle
      BY <1>3, <1>9, <2>2 DEF ReadBody
    <3> QED BY <1>6, <3>1
  <2> QED BY <2>1, <2>2
<1>10. CASE thread[t].pc # "publish" /\ ~Mine(t, m)
  <2>1. /\ thread' = [thread EXCEPT ![t].body = FALSE, ![t].blocked = FALSE, ![t].budget = 0]
        /\ lspLock' = lspLock /\ handle' = handle
    BY <1>3, <1>10 DEF ReadBody
  <2> QED BY <1>5, <2>1
<1>11. CASE thread[t].pc # "publish" /\ Mine(t, m) /\ m.error
  <2>1. Fail(t) /\ handle' = handle
    BY <1>3, <1>11 DEF ReadBody
  <2> QED BY <1>6, <2>1
<1>12. CASE thread[t].pc = "initialize" /\ Mine(t, m) /\ ~m.error
  <2>1. /\ handle' = [handle EXCEPT !.initialized = TRUE, !.pull = server.pull]
        /\ thread' = [thread EXCEPT ![t].pc = "open", ![t].blocked = FALSE] /\ lspLock' = lspLock
    BY <1>3, <1>12 DEF ReadBody
  <2>2. PICK r : r = [thread[t] EXCEPT !.pc = "open", !.blocked = FALSE]
    OBVIOUS
  <2>3. r \in ThreadRecords /\ r.pc = "open"
    BY <1>1, <2>2 DEF ThreadRecords
  <2>4. thread' = [thread EXCEPT ![t] = r]
    BY <1>1, <2>1, <2>2 DEF LspFrom
  <2>5. server.pull \in BOOLEAN
    BY <1>1 DEF LspFrom, ServerRecords
  <2>6. handle' \in HandleRecords /\ handle'.present = handle.present
    BY <1>1, <2>1, <2>5 DEF HandleRecords
  <2>7. LspMoves(t, r)
    BY <1>1, <1>2, <2>1, <2>3, <2>4, <2>6 DEF LspMoves, LspFrom
  <2> QED BY <2>7, LspMovesKeeps
<1>13. CASE thread[t].pc = "request" /\ Mine(t, m) /\ ~m.error
  <2>1. Return(t, m.id, NoDoc) /\ handle' = handle
    BY <1>3, <1>13 DEF ReadBody
  <2>2. m.id = thread[t].id /\ NoDoc \in Docs
    BY <1>1, <1>13 DEF Mine, LspFrom
  <2> QED BY <1>4, <1>7, <2>1, <2>2
<1> QED BY <1>1, <1>8, <1>9, <1>10, <1>11, <1>12, <1>13

(* The server speaks, or dies: the threads are as they were.               *)
LEMMA LspServerKeeps ==
    ASSUME LspInv, thread' = thread, lspLock' = lspLock, handle' = handle,
           server' \in ServerRecords, server'.spawned = server.spawned, inbox' \in Seq(Sendings),
           Halves(outbox'), InFront(outbox) => InFront(outbox'), operations' = operations
    PROVE  LspInv'
<1>1. LspTyped' /\ LspHeld' /\ AnswersMatch'
  BY DEF LspInv, LspTyped, LspHeld, AnswersMatch, NoDoc
<1>2. LspPipe'
  BY DEF LspInv, LspPipe, Reading
<1> QED BY <1>1, <1>2 DEF LspInv

LEMMA LspServeKeeps ==
    ASSUME LspInv, Serve
    PROVE  LspInv'
<1>1. /\ inbox \in Seq(Sendings) /\ inbox # <<>> /\ inbox' = Tail(inbox) /\ Halves(outbox)
      /\ server \in ServerRecords /\ thread' = thread /\ lspLock' = lspLock /\ handle' = handle
      /\ operations' = operations
  BY DEF Serve, LspInv, LspTyped, LspPipe
<1>2. inbox' \in Seq(Sendings) /\ Head(inbox) \in Sendings
  BY <1>1
<1>3. PICK m : m = Head(inbox)
  OBVIOUS
<1>4. m.id \in Nat /\ m.doc \in Docs /\ server.inits \in Nat /\ server.published \in Nat
  BY <1>1, <1>2, <1>3 DEF Sendings, ServerRecords
<1>5. CASE outbox' = outbox /\ UNCHANGED server
  BY <1>1, <1>2, <1>5, LspServerKeeps
<1>6. ASSUME NEW held \in 0..2, outbox' = outbox \o Message("response", m.id, server.inits > 0, m.doc),
             server' = [server EXCEPT !.inits = @ + 1, !.held = held]
      PROVE  LspInv'
  <2>1. (server.inits > 0) \in BOOLEAN
    BY <1>4
  <2>2. Halves(outbox') /\ (InFront(outbox) => InFront(outbox'))
    BY <1>1, <1>4, <1>6, <2>1, HalvesMore
  <2>3. PICK n \in Nat : n = server.inits + 1
    BY <1>4
  <2>4. server' = [server EXCEPT !.inits = n, !.held = held]
    BY <1>6, <2>3
  <2>5. server' \in ServerRecords /\ server'.spawned = server.spawned
    BY <1>1, <2>4 DEF ServerRecords
  <2> QED BY <1>1, <1>2, <2>2, <2>5, LspServerKeeps
<1>7. ASSUME NEW held \in 0..2, outbox' = outbox \o Message("publishDiagnostics", 0, FALSE, m.doc),
             server' = [server EXCEPT !.published = @ + 1, !.held = held]
      PROVE  LspInv'
  <2>2. Halves(outbox') /\ (InFront(outbox) => InFront(outbox'))
    BY <1>1, <1>4, <1>7, HalvesMore
  <2>3. PICK n \in Nat : n = server.published + 1
    BY <1>4
  <2>4. server' = [server EXCEPT !.published = n, !.held = held]
    BY <1>7, <2>3
  <2>5. server' \in ServerRecords /\ server'.spawned = server.spawned
    BY <1>1, <2>4 DEF ServerRecords
  <2> QED BY <1>1, <1>2, <2>2, <2>5, LspServerKeeps
<1>8. ASSUME NEW held \in 0..2, NEW error \in BOOLEAN,
             outbox' = outbox \o Message("response", m.id, error, m.doc),
             server' = [server EXCEPT !.held = held]
      PROVE  LspInv'
  <2>1. Halves(outbox') /\ (InFront(outbox) => InFront(outbox'))
    BY <1>1, <1>4, <1>8, HalvesMore
  <2>2. server' \in ServerRecords /\ server'.spawned = server.spawned
    BY <1>1, <1>8 DEF ServerRecords
  <2> QED BY <1>1, <1>2, <2>1, <2>2, LspServerKeeps
<1> QED BY <1>3, <1>5, <1>6, <1>7, <1>8 DEF Serve

LEMMA LspNextKeeps == LspInv /\ [LspNext]_lspVars => LspInv'
<1> SUFFICES ASSUME LspInv, [LspNext]_lspVars PROVE LspInv'
  OBVIOUS
<1>1. ASSUME NEW t \in LspThreads, NEW op \in {"navigate", "diagnostics"}, NEW f \in LspFiles, Begin(t, op, f)
      PROVE  LspInv'
  BY <1>1, LspBeginKeeps
<1>2. ASSUME NEW t \in LspThreads,
             spawn_server(t) \/ Acquire(t) \/ did_open(t) \/ ReadHeader(t) \/ ReadBody(t)
      PROVE  LspInv'
  BY <1>2, LspSpawnKeeps, LspAcquireKeeps, LspOpenKeeps, LspHeaderKeeps, LspBodyKeeps
<1>3. ASSUME NEW t \in LspThreads, Closed(t) PROVE LspInv'
  <2>1. LspFrom(t) /\ lspLock = t
    BY <1>3, LspFromInv DEF Closed, Reading, LspFrom
  <2>2. Fail(t) /\ outbox' = <<>> /\ server' = server /\ handle' = handle /\ inbox' = inbox
        /\ operations' = operations
    BY <1>3 DEF Closed
  <2>3. Halves(<<>>)
    BY DEF Halves
  <2> QED BY <2>1, <2>2, <2>3, LspFails DEF LspFrom
<1>4. ASSUME NEW t \in LspThreads, Timeout(t) PROVE LspInv'
  <2>1. LspFrom(t) /\ lspLock = t
    BY <1>4, LspFromInv DEF Timeout, Reading, LspFrom
  <2>2. Fail(t) /\ outbox' = outbox /\ server' = server /\ handle' = handle /\ inbox' = inbox
        /\ operations' = operations
    BY <1>4 DEF Timeout
  <2> QED BY <2>1, <2>2, LspFails DEF LspFrom
<1>5. CASE Serve
  BY <1>5, LspServeKeeps
<1>6. CASE Die
  <2>1. server \in ServerRecords /\ server' = [server EXCEPT !.alive = FALSE]
    BY <1>6 DEF Die, LspInv, LspTyped
  <2>2. server' \in ServerRecords /\ server'.spawned = server.spawned
    BY <2>1 DEF ServerRecords
  <2>3. /\ thread' = thread /\ lspLock' = lspLock /\ handle' = handle /\ inbox' = inbox /\ outbox' = outbox
        /\ inbox \in Seq(Sendings) /\ Halves(outbox) /\ operations' = operations
    BY <1>6 DEF Die, LspInv, LspTyped, LspPipe
  <2> QED BY <2>2, <2>3, LspServerKeeps
<1>7. CASE UNCHANGED lspVars
  <2>1. /\ thread' = thread /\ lspLock' = lspLock /\ handle' = handle /\ inbox' = inbox /\ outbox' = outbox
        /\ inbox \in Seq(Sendings) /\ Halves(outbox) /\ server' = server /\ server \in ServerRecords
        /\ operations' = operations
    BY <1>7 DEF lspVars, LspInv, LspTyped, LspPipe
  <2> QED BY <2>1, LspServerKeeps
<1>8. CASE WriteRest
  <2>1. server \in ServerRecords /\ server.held > 0 /\ server' = [server EXCEPT !.held = @ - 1]
    BY <1>8 DEF WriteRest, LspInv, LspTyped
  <2>n. PICK n \in 0..2 : n = server.held - 1
    BY <2>1 DEF ServerRecords
  <2>e. server' = [server EXCEPT !.held = n]
    BY <2>1, <2>n
  <2>2. server' \in ServerRecords /\ server'.spawned = server.spawned
    BY <2>1, <2>e DEF ServerRecords
  <2>3. /\ thread' = thread /\ lspLock' = lspLock /\ handle' = handle /\ inbox' = inbox /\ outbox' = outbox
        /\ inbox \in Seq(Sendings) /\ Halves(outbox) /\ operations' = operations
    BY <1>8 DEF WriteRest, LspInv, LspTyped, LspPipe
  <2> QED BY <2>2, <2>3, LspServerKeeps
<1>9. ASSUME NEW t \in LspThreads, ReadBlocks(t) PROVE LspInv'
  <2>1. /\ LspFrom(t) /\ lspLock = t /\ lspLock' = lspLock /\ outbox' = outbox /\ server' = server
        /\ handle' = handle /\ inbox' = inbox /\ operations' = operations
        /\ thread[t].pc \in {"initialize", "request", "publish"}
        /\ thread[t].body => InFront(outbox)
    BY <1>9, LspFromInv DEF ReadBlocks, Reading, LspFrom
  <2>2. PICK r : r = [thread[t] EXCEPT !.blocked = TRUE]
    OBVIOUS
  <2>3. r \in ThreadRecords /\ r.pc = thread[t].pc /\ r.body = thread[t].body
    BY <2>1, <2>2 DEF ThreadRecords, LspFrom
  <2>4. thread' = [thread EXCEPT ![t] = r]
    BY <1>9, <2>2 DEF ReadBlocks
  <2>5. LspMoves(t, r)
    BY <2>1, <2>3, <2>4 DEF LspMoves, LspFrom
  <2> QED BY <2>5, LspMovesKeeps
<1> QED BY <1>1, <1>2, <1>3, <1>4, <1>5, <1>6, <1>7, <1>8, <1>9 DEF LspNext, LspStep

LEMMA LspInitInv == LspInit => LspInv
<1> SUFFICES ASSUME LspInit PROVE LspInv
  OBVIOUS
<1>1. thread = [t \in LspThreads |-> Idle] /\ inbox = <<>> /\ outbox = <<>> /\ lspLock = None
  BY DEF LspInit
<1>0. NoDoc \in Docs /\ operations \in Nat
  BY DEF NoDoc, Docs, LspInit
<1>2. Idle \in ThreadRecords /\ Idle.pc = "idle" /\ Idle.got = 0 /\ Idle.about = NoDoc
  BY <1>0 DEF Idle, ThreadRecords, None
<1>3. thread \in [LspThreads -> ThreadRecords] /\ \A t \in LspThreads : thread[t] = Idle
  BY <1>1, <1>2
<1>4. handle \in HandleRecords
  BY DEF LspInit, HandleRecords
<1>5. server \in ServerRecords /\ server.spawned = 0
  BY DEF LspInit, ServerRecords
<1>6. LspTyped
  BY <1>0, <1>1, <1>3, <1>4, <1>5 DEF LspTyped
<1>7. LspHeld /\ AnswersMatch
  BY <1>2, <1>3 DEF LspHeld, AnswersMatch
<1>8. LspPipe
  <2>1. Halves(<<>>)
    BY DEF Halves
  <2> QED BY <1>1, <1>2, <1>3, <2>1 DEF LspPipe, Reading
<1> QED BY <1>6, <1>7, <1>8 DEF LspInv

LEMMA LspInvKept == LspInv => LspTypeOK /\ AnswersMatch
<1> SUFFICES ASSUME LspInv PROVE LspTypeOK /\ AnswersMatch
  OBVIOUS
<1>1. \A t \in LspThreads : thread[t].pc \in {"idle", "lock", "open", "initialize", "request", "publish"}
  BY DEF LspInv, LspTyped, ThreadRecords
<1>2. handle.next_id \in Nat /\ server.spawned \in 0..1
  BY DEF LspInv, LspTyped, HandleRecords, ServerRecords
<1> QED BY <1>1, <1>2 DEF LspInv, LspTyped, LspTypeOK

-----------------------------------------------------------------------------
(* The browser.  Of each tool: the place of the command that changes the   *)
(* page, 0 if it has none.                                                 *)

Tools == {"snapshot", "click", "type", "press", "scroll", "screenshot", "dialog", "execute_js",
          "navigate", "console"}

EffectAt(tool) ==
    IF tool \in {"click", "type"} THEN 6
    ELSE IF tool = "press" THEN 4
    ELSE IF tool = "execute_js" THEN 3
    ELSE IF tool \in {"dialog", "navigate"} THEN 2 ELSE 0

(* What the proofs need to know of a script s with its effect at e.        *)
ScriptLike(s, e, navigates) ==
    /\ Len(s) \in Nat /\ Len(s) > 1 /\ DOMAIN s = 1..Len(s) /\ e \in 0..Len(s)
    /\ \A i \in 1..Len(s) :
          /\ s[i].id \in 0..4
          /\ s[i].what \in Effects <=> i = e
          /\ s[i].what = "href" <=> navigates /\ i = 4
          /\ s[i].what = "listen" => i = Len(s) /\ e = 0
    /\ navigates => e = 2 /\ Len(s) = 6

LEMMA ScriptsOfTwo ==
    /\ ScriptLike(get_snapshot, 0, FALSE)
    /\ ScriptLike(do_scroll, 0, FALSE)
    /\ ScriptLike(capture, 0, FALSE)
    /\ ScriptLike(handle_dialog, 2, FALSE)
<1>1. ScriptLike(get_snapshot, 0, FALSE)
  BY DEF ScriptLike, get_snapshot, Command, Effects
<1>2. ScriptLike(do_scroll, 0, FALSE)
  BY DEF ScriptLike, do_scroll, Command, Effects
<1>3. ScriptLike(capture, 0, FALSE)
  BY DEF ScriptLike, capture, Command, Effects
<1>4. ScriptLike(handle_dialog, 2, FALSE)
  BY DEF ScriptLike, handle_dialog, Command, Effects
<1> QED BY <1>1, <1>2, <1>3, <1>4

LEMMA ScriptsOfMore ==
    /\ ScriptLike(click_element, 6, FALSE)
    /\ ScriptLike(type_text, 6, FALSE)
    /\ ScriptLike(press_key, 4, FALSE)
    /\ ScriptLike(execute_cdp_flow, 3, FALSE)
    /\ ScriptLike(navigate_and_snapshot, 2, TRUE)
    /\ ScriptLike(collect_console, 0, FALSE)
<1>1. ScriptLike(click_element, 6, FALSE)
  BY DEF ScriptLike, click_element, Command, Effects
<1>2. ScriptLike(type_text, 6, FALSE)
  BY DEF ScriptLike, type_text, Command, Effects
<1>3. ScriptLike(press_key, 4, FALSE)
  BY DEF ScriptLike, press_key, Command, Effects
<1>4. ScriptLike(execute_cdp_flow, 3, FALSE)
  BY DEF ScriptLike, execute_cdp_flow, Command, Effects
<1>5. ScriptLike(navigate_and_snapshot, 2, TRUE)
  BY DEF ScriptLike, navigate_and_snapshot, Command, Effects
<1>6. ScriptLike(collect_console, 0, FALSE)
  BY DEF ScriptLike, collect_console, Command, Effects
<1> QED BY <1>1, <1>2, <1>3, <1>4, <1>5, <1>6

LEMMA ScriptFacts ==
    ASSUME NEW tool \in Tools
    PROVE  ScriptLike(Script(tool), EffectAt(tool), tool = "navigate")
<1>1. CASE tool = "snapshot"
  <2>1. Script(tool) = get_snapshot /\ EffectAt(tool) = 0
    BY <1>1 DEF Script, EffectAt
  <2>2. (tool = "navigate") = FALSE
    BY <1>1
  <2> QED BY <2>1, <2>2, ScriptsOfTwo, Zenon
<1>2. CASE tool = "click"
  <2>1. Script(tool) = click_element /\ EffectAt(tool) = 6
    BY <1>2 DEF Script, EffectAt
  <2>2. (tool = "navigate") = FALSE
    BY <1>2
  <2> QED BY <2>1, <2>2, ScriptsOfMore, Zenon
<1>3. CASE tool = "type"
  <2>1. Script(tool) = type_text /\ EffectAt(tool) = 6
    BY <1>3 DEF Script, EffectAt
  <2>2. (tool = "navigate") = FALSE
    BY <1>3
  <2> QED BY <2>1, <2>2, ScriptsOfMore, Zenon
<1>4. CASE tool = "press"
  <2>1. Script(tool) = press_key /\ EffectAt(tool) = 4
    BY <1>4 DEF Script, EffectAt
  <2>2. (tool = "navigate") = FALSE
    BY <1>4
  <2> QED BY <2>1, <2>2, ScriptsOfMore, Zenon
<1>5. CASE tool = "scroll"
  <2>1. Script(tool) = do_scroll /\ EffectAt(tool) = 0
    BY <1>5 DEF Script, EffectAt
  <2>2. (tool = "navigate") = FALSE
    BY <1>5
  <2> QED BY <2>1, <2>2, ScriptsOfTwo, Zenon
<1>6. CASE tool = "screenshot"
  <2>1. Script(tool) = capture /\ EffectAt(tool) = 0
    BY <1>6 DEF Script, EffectAt
  <2>2. (tool = "navigate") = FALSE
    BY <1>6
  <2> QED BY <2>1, <2>2, ScriptsOfTwo, Zenon
<1>7. CASE tool = "dialog"
  <2>1. Script(tool) = handle_dialog /\ EffectAt(tool) = 2
    BY <1>7 DEF Script, EffectAt
  <2>2. (tool = "navigate") = FALSE
    BY <1>7
  <2> QED BY <2>1, <2>2, ScriptsOfTwo, Zenon
<1>8. CASE tool = "execute_js"
  <2>1. Script(tool) = execute_cdp_flow /\ EffectAt(tool) = 3
    BY <1>8 DEF Script, EffectAt
  <2>2. (tool = "navigate") = FALSE
    BY <1>8
  <2> QED BY <2>1, <2>2, ScriptsOfMore, Zenon
<1>9. CASE tool = "navigate"
  <2>1. Script(tool) = navigate_and_snapshot /\ EffectAt(tool) = 2
    BY <1>9 DEF Script, EffectAt
  <2>2. (tool = "navigate") = TRUE
    BY <1>9
  <2> QED BY <2>1, <2>2, ScriptsOfMore, Zenon
<1>10. CASE tool = "console"
  <2>1. Script(tool) = collect_console /\ EffectAt(tool) = 0
    BY <1>10 DEF Script, EffectAt
  <2>2. (tool = "navigate") = FALSE
    BY <1>10
  <2> QED BY <2>1, <2>2, ScriptsOfMore, Zenon
<1> QED BY <1>1, <1>2, <1>3, <1>4, <1>5, <1>6, <1>7, <1>8, <1>9, <1>10 DEF Tools

LEMMA ScriptPlain ==
    ASSUME NEW tool \in Tools
    PROVE  /\ Len(Script(tool)) \in Nat /\ Len(Script(tool)) > 1 /\ EffectAt(tool) \in 0..Len(Script(tool))
           /\ EffectAt(tool) \in Nat /\ 1 \in 1..Len(Script(tool))
           /\ tool = "navigate" => Len(Script(tool)) = 6 /\ EffectAt(tool) = 2
<1>1. /\ Len(Script(tool)) \in Nat /\ Len(Script(tool)) > 1 /\ EffectAt(tool) \in 0..Len(Script(tool))
      /\ tool = "navigate" => Len(Script(tool)) = 6 /\ EffectAt(tool) = 2
  BY ScriptFacts, Zenon DEF ScriptLike
<1> QED BY <1>1

(* A call: not begun, over, or under way.  Under way, but for the last     *)
(* commands of browser_navigate, what is on the connection is about the    *)
(* command that is waited for: that command itself, or one answer to it,   *)
(* and events (which have id 9).                                           *)

QueueEntries == [step : Nat, done : BOOLEAN]
Inbounds == [id : Nat, step : Nat, ok : BOOLEAN]

BrowserCallRecords ==
    [tool : Tools \cup {"none"}, step : Nat, ref : Nat, waiting : BOOLEAN, queue : Seq(QueueEntries),
     inbound : Seq(Inbounds), got : Seq(Nat), acted : {0, 1}, missed : {0, 1}, result : {"none", "ok", "error"}]

(* Changes made of the page, or missed with an answer that passes for one. *)
Did(k) == k.acted + k.missed

Misses == {"click", "type", "execute_js", "navigate"}

DidOK(k) == Did(k) \in {0, 1} /\ (k.missed > 0 => k.tool \in Misses)

OnlyEvents(s) == \A i \in 1..Len(s) : s[i].id = 9

GotInStep(k) ==
    k.tool # "navigate" => (Len(k.got) = IF k.step = 0 THEN 0 ELSE k.step - 1)
                           /\ \A i \in 1..Len(k.got) : k.got[i] = i

Late(k) == k.tool = "navigate" /\ k.step > 4

Outstanding(k) ==
    /\ ~k.waiting => k.queue = <<>> /\ OnlyEvents(k.inbound)
    /\ Len(k.queue) <= 1
    /\ k.queue # <<>> => k.queue[1].step = k.step /\ OnlyEvents(k.inbound)
    /\ \A i \in 1..Len(k.inbound) : k.inbound[i].id # 9 => k.inbound[i].step = k.step
    /\ \A i, j \in 1..Len(k.inbound) : k.inbound[i].id # 9 /\ k.inbound[j].id # 9 => i = j

LateQueue(k) == \A i \in 1..Len(k.queue) : k.queue[i].step \in 4..6

Acts(k) ==
    LET e == EffectAt(k.tool)
    IN  /\ e = 0 \/ k.step < e \/ (k.step = e /\ ~k.waiting) => Did(k) = 0
        /\ e # 0 /\ k.step > e => Did(k) = 1
        /\ k.step = e /\ k.queue # <<>> => (k.queue[1].done <=> Did(k) = 1)
        /\ k.step = e => \A i \in 1..Len(k.inbound) : k.inbound[i].id # 9 /\ k.inbound[i].ok => Did(k) = 1

NotBegun(k) == k = NoCall

Over(k) ==
    /\ k \in BrowserCallRecords /\ k.result \in {"ok", "error"}
    /\ k.queue = <<>> /\ k.inbound = <<>> /\ ~k.waiting
    /\ k.result = "ok" => k.tool \in Tools /\ Did(k) = (IF EffectAt(k.tool) = 0 THEN 0 ELSE 1)
    /\ DidOK(k) /\ GotInStep(k)

(* Waiting for its connection.                                             *)
Connecting(k) ==
    /\ k \in BrowserCallRecords /\ k.result = "none" /\ k.tool \in Tools /\ k.step = 0
    /\ k.queue = <<>> /\ k.inbound = <<>> /\ k.got = <<>> /\ ~k.waiting /\ k.acted = 0 /\ k.missed = 0

UnderWay(k) ==
    /\ k \in BrowserCallRecords /\ k.result = "none" /\ k.tool \in Tools
    /\ k.step \in 1..Len(Script(k.tool))
    /\ IF Late(k) THEN LateQueue(k) ELSE Outstanding(k)
    /\ Acts(k) /\ DidOK(k) /\ GotInStep(k)

CallOK(k) == NotBegun(k) \/ Connecting(k) \/ Over(k) \/ UnderWay(k)

BrowserInv ==
    /\ page \in [open : BOOLEAN, loaded : 1..MaxPages, dialog : BOOLEAN]
    /\ DOMAIN cdp = BrowserCalls /\ cdp = [c \in BrowserCalls |-> cdp[c]]
    /\ \A c \in BrowserCalls : CallOK(cdp[c])

LEMMA ReturnedOver ==
    ASSUME NEW k, UnderWay(k)
    PROVE  Over(Returned(k, "error"))
<1>1. PICK r : r = Returned(k, "error")
  OBVIOUS
<1>2. /\ r \in BrowserCallRecords /\ r.tool = k.tool /\ r.step = k.step /\ r.got = k.got /\ DidOK(r)
      /\ r.result = "error" /\ r.queue = <<>> /\ r.inbound = <<>> /\ ~r.waiting
  <2>1. <<>> \in Seq(QueueEntries) /\ <<>> \in Seq(Inbounds)
    OBVIOUS
  <2>2. k \in BrowserCallRecords /\ DidOK(k)
    BY DEF UnderWay
  <2>3. r = [k EXCEPT !.result = "error", !.waiting = FALSE, !.queue = <<>>, !.inbound = <<>>]
    BY <1>1 DEF Returned
  <2> QED BY <2>1, <2>2, <2>3 DEF BrowserCallRecords, DidOK, Did
<1>3. GotInStep(r)
  BY <1>2 DEF UnderWay, GotInStep
<1> QED BY <1>1, <1>2, <1>3 DEF Over

(* The next command: nothing is left of this one, but late in a navigation.*)
LEMMA AdvancedOK ==
    ASSUME NEW k, UnderWay(k), NEW a \in Nat, k.tool # "navigate" => a = k.step,
           \/ k.tool = "navigate" /\ k.step > 3
           \/ k.step = Len(Script(k.tool))
           \/ k.queue = <<>> /\ OnlyEvents(k.inbound),
           k.step = EffectAt(k.tool) => Did(k) = 1
    PROVE  CallOK(Advanced(k, a))
<1>0. PICK e : e = EffectAt(k.tool)
  OBVIOUS
<1>1. /\ k \in BrowserCallRecords /\ k.tool \in Tools /\ k.step \in Nat /\ k.got \in Seq(Nat)
      /\ Len(k.got) \in Nat /\ Did(k) \in {0, 1} /\ k.step > 0 /\ k.result = "none"
      /\ k.queue \in Seq(QueueEntries) /\ k.inbound \in Seq(Inbounds) /\ DidOK(k)
  BY DEF UnderWay, BrowserCallRecords, DidOK
<1>2. ScriptLike(Script(k.tool), e, k.tool = "navigate")
  BY <1>0, <1>1, ScriptFacts
<1>3. PICK n : n = [k EXCEPT !.step = @ + 1, !.waiting = FALSE, !.got = Append(@, a)]
  OBVIOUS
<1>4. /\ n \in BrowserCallRecords /\ n.tool = k.tool /\ n.step = k.step + 1 /\ n.queue = k.queue
      /\ n.inbound = k.inbound /\ Did(n) = Did(k) /\ n.result = "none" /\ n.got = Append(k.got, a)
      /\ ~n.waiting /\ DidOK(n)
  <2>1. PICK g : g = Append(k.got, a)
    OBVIOUS
  <2>2. PICK m : m = k.step + 1
    OBVIOUS
  <2>3. g \in Seq(Nat) /\ m \in Nat
    BY <1>1, <2>1, <2>2
  <2>4. n = [k EXCEPT !.step = m, !.waiting = FALSE, !.got = g]
    BY <1>3, <2>1, <2>2
  <2> QED BY <1>1, <2>1, <2>2, <2>3, <2>4 DEF BrowserCallRecords, DidOK, Did
<1>5. GotInStep(n)
  <2> SUFFICES ASSUME k.tool # "navigate"
               PROVE  Len(n.got) = k.step /\ \A i \in 1..Len(n.got) : n.got[i] = i
    BY <1>1, <1>4 DEF GotInStep
  <2>1. Len(k.got) = k.step - 1 /\ \A i \in 1..Len(k.got) : k.got[i] = i
    BY <1>1 DEF UnderWay, GotInStep
  <2>2. a = k.step
    OBVIOUS
  <2> QED BY <1>1, <1>4, <2>1, <2>2
<1>6. (e = 0 => Did(k) = 0) /\ (e # 0 /\ k.step >= e => Did(k) = 1) /\ (k.step < e => Did(k) = 0)
  <2>1. e \in Nat
    BY <1>2 DEF ScriptLike
  <2> QED BY <1>0, <1>1, <2>1 DEF UnderWay, Acts
<1>7. CASE k.step = Len(Script(k.tool))
  <2>1. PICK r : r = Returned(n, "ok")
    OBVIOUS
  <2>2. Advanced(k, a) = r
    BY <1>3, <1>7, <2>1 DEF Advanced
  <2>3. /\ r \in BrowserCallRecords /\ r.tool = n.tool /\ r.step = n.step /\ r.got = n.got
        /\ r.result = "ok" /\ r.queue = <<>> /\ r.inbound = <<>> /\ ~r.waiting /\ Did(r) = Did(n) /\ DidOK(r)
    <3>1. <<>> \in Seq(QueueEntries) /\ <<>> \in Seq(Inbounds)
      OBVIOUS
    <3>2. r = [n EXCEPT !.result = "ok", !.waiting = FALSE, !.queue = <<>>, !.inbound = <<>>]
      BY <2>1 DEF Returned
    <3> QED BY <1>4, <3>1, <3>2 DEF BrowserCallRecords, DidOK, Did
  <2>4. Did(r) = (IF e = 0 THEN 0 ELSE 1)
    BY <1>2, <1>4, <1>6, <1>7, <2>3 DEF ScriptLike
  <2>5. GotInStep(r)
    BY <1>5, <2>3 DEF GotInStep
  <2> QED BY <1>0, <1>1, <1>4, <2>2, <2>3, <2>4, <2>5 DEF CallOK, Over
<1>8. CASE k.step # Len(Script(k.tool))
  <2>1. Advanced(k, a) = n
    BY <1>3, <1>8 DEF Advanced
  <2>2. n.step \in 1..Len(Script(n.tool))
    BY <1>1, <1>2, <1>4, <1>8 DEF UnderWay, ScriptLike
  <2>3. CASE Late(n)
    <3>1. LateQueue(n)
      <4>1. CASE Late(k)
        BY <1>4, <4>1 DEF UnderWay, LateQueue
      <4>2. CASE ~Late(k)
        <5>1. k.tool = "navigate" /\ k.step = 4 /\ Outstanding(k)
          BY <1>1, <1>4, <2>3, <4>2 DEF Late, UnderWay
        <5>2. ASSUME NEW i \in 1..Len(k.queue) PROVE k.queue[i].step = 4
          <6>1. Len(k.queue) <= 1 /\ Len(k.queue) \in Nat
            BY <1>1, <5>1 DEF Outstanding
          <6>2. i = 1 /\ k.queue # <<>>
            BY <1>1, <6>1
          <6> QED BY <5>1, <6>2 DEF Outstanding
        <5> QED BY <1>4, <5>2 DEF LateQueue
      <4> QED BY <4>1, <4>2
    <3>2. Acts(n)
      <4>1. e = 2
        BY <1>0, <1>4, <2>3 DEF Late, EffectAt
      <4>2. n.step > 4 /\ n.step \in Nat
        BY <1>1, <1>4, <2>3 DEF Late
      <4>3. Did(n) = 1
        BY <1>1, <1>4, <1>6, <4>1, <4>2
      <4> QED BY <1>0, <1>4, <4>1, <4>2, <4>3 DEF Acts
    <3> QED BY <1>1, <1>4, <1>5, <2>1, <2>2, <2>3, <3>1, <3>2 DEF CallOK, UnderWay
  <2>4. CASE ~Late(n)
    <3>1. k.queue = <<>> /\ OnlyEvents(k.inbound)
      BY <1>1, <1>4, <1>8, <2>4 DEF Late
    <3>2. Outstanding(n)
      BY <1>1, <1>4, <3>1 DEF Outstanding, OnlyEvents
    <3>3. Acts(n)
      <4>1. e \in Nat /\ n.step \in Nat /\ EffectAt(n.tool) = e
        BY <1>0, <1>1, <1>2, <1>4 DEF ScriptLike
      <4>2. n.queue = <<>> /\ OnlyEvents(n.inbound)
        BY <1>4, <3>1
      <4>3. (e = 0 \/ n.step <= e => Did(n) = 0) /\ (e # 0 /\ n.step > e => Did(n) = 1)
        BY <1>1, <1>4, <1>6, <4>1
      <4> QED BY <4>1, <4>2, <4>3 DEF Acts, OnlyEvents
    <3> QED BY <1>1, <1>4, <1>5, <2>1, <2>2, <2>4, <3>2, <3>3 DEF CallOK, UnderWay
  <2> QED BY <2>3, <2>4
<1> QED BY <1>7, <1>8

(* One call moves, and the page stays a page.                              *)
LEMMA BrowserMovesKeeps ==
    ASSUME BrowserInv, NEW c \in BrowserCalls, NEW k, CallOK(k), cdp' = [cdp EXCEPT ![c] = k],
           page' \in [open : BOOLEAN, loaded : 1..MaxPages, dialog : BOOLEAN]
    PROVE  BrowserInv'
<1>1. cdp'[c] = k /\ \A d \in BrowserCalls : d # c => cdp'[d] = cdp[d]
  BY DEF BrowserInv
<1>2. \A d \in BrowserCalls : CallOK(cdp'[d])
  BY <1>1 DEF BrowserInv
<1>3. DOMAIN cdp' = BrowserCalls /\ cdp' = [d \in BrowserCalls |-> cdp'[d]]
  BY DEF BrowserInv
<1> QED BY <1>2, <1>3 DEF BrowserInv

LEMMA StartKeeps ==
    ASSUME BrowserInv, NEW c \in BrowserCalls, NEW tool \in Tools, NEW r \in Nat, Start(c, tool, r)
    PROVE  BrowserInv'
<1>0. NoCall \in BrowserCallRecords /\ NoCall.result = "none" /\ NoCall.queue = <<>> /\ NoCall.inbound = <<>>
      /\ ~NoCall.waiting /\ NoCall.acted = 0 /\ NoCall.missed = 0 /\ NoCall.got = <<>> /\ NoCall.step = 0
  <2>1. <<>> \in Seq(QueueEntries) /\ <<>> \in Seq(Inbounds) /\ <<>> \in Seq(Nat)
    OBVIOUS
  <2> QED BY <2>1 DEF NoCall, BrowserCallRecords
<1>1. CASE page.open
  <2>1. PICK k : k = [NoCall EXCEPT !.tool = tool, !.ref = r]
    OBVIOUS
  <2>2. Connecting(k)
    BY <1>0, <2>1 DEF BrowserCallRecords, Connecting
  <2>3. cdp' = [cdp EXCEPT ![c] = k] /\ page' = page
    BY <1>1, <2>1 DEF Start
  <2> QED BY <2>2, <2>3, BrowserMovesKeeps DEF BrowserInv, CallOK
<1>2. CASE ~page.open
  <2>1. PICK k : k = [NoCall EXCEPT !.tool = tool, !.result = "error"]
    OBVIOUS
  <2>2. /\ k \in BrowserCallRecords /\ k.tool = tool /\ k.step = 0 /\ k.result = "error" /\ k.queue = <<>>
        /\ k.inbound = <<>> /\ ~k.waiting /\ k.got = <<>> /\ k.acted = 0 /\ k.missed = 0
    BY <1>0, <2>1 DEF BrowserCallRecords
  <2>3. GotInStep(k) /\ DidOK(k)
    BY <2>2 DEF GotInStep, DidOK, Did
  <2>4. CallOK(k)
    BY <2>2, <2>3 DEF CallOK, Over
  <2>5. cdp' = [cdp EXCEPT ![c] = k] /\ page' = page
    BY <1>2, <2>1 DEF Start
  <2> QED BY <2>4, <2>5, BrowserMovesKeeps DEF BrowserInv
<1> QED BY <1>1, <1>2

LEMMA ConnectKeeps ==
    ASSUME BrowserInv, NEW c \in BrowserCalls, connect_cdp(c)
    PROVE  BrowserInv'
<1>1. PICK k : k = cdp[c]
  OBVIOUS
<1>2. Connecting(k)
  <2>1. k.tool # "none" /\ k.step = 0 /\ k.result = "none" /\ CallOK(k)
    BY <1>1 DEF connect_cdp, BrowserInv
  <2>2. NoCall.tool = "none"
    BY DEF NoCall
  <2>3. ~NotBegun(k) /\ ~Over(k)
    BY <2>1, <2>2 DEF NotBegun, Over
  <2>4. ~UnderWay(k)
    BY <2>1 DEF UnderWay
  <2> QED BY <2>1, <2>3, <2>4 DEF CallOK
<1>3. CASE page.open
  <2>1. PICK n : n = [k EXCEPT !.step = 1]
    OBVIOUS
  <2>2. /\ n \in BrowserCallRecords /\ n.tool = k.tool /\ n.step = 1 /\ n.result = "none" /\ n.queue = <<>>
        /\ n.inbound = <<>> /\ ~n.waiting /\ n.acted = 0 /\ n.missed = 0 /\ n.got = <<>> /\ n.tool \in Tools
    BY <1>2, <2>1 DEF BrowserCallRecords, Connecting
  <2>3. Did(n) = 0 /\ DidOK(n)
    BY <2>2 DEF Did, DidOK
  <2>4. 1 \in 1..Len(Script(n.tool)) /\ EffectAt(n.tool) \in Nat
    BY <2>2, ScriptPlain
  <2>5. Outstanding(n) /\ ~Late(n) /\ GotInStep(n)
    BY <2>2 DEF Outstanding, OnlyEvents, Late, GotInStep
  <2>6. Acts(n)
    <3>1. EffectAt(n.tool) # 0 => EffectAt(n.tool) > 1
      BY DEF EffectAt
    <3> QED BY <2>2, <2>3, <2>4, <3>1 DEF Acts
  <2>7. CallOK(n)
    BY <2>2, <2>3, <2>4, <2>5, <2>6 DEF CallOK, UnderWay
  <2>8. cdp' = [cdp EXCEPT ![c] = n] /\ page' = page
    BY <1>1, <1>3, <2>1 DEF connect_cdp
  <2> QED BY <2>7, <2>8, BrowserMovesKeeps DEF BrowserInv
<1>4. CASE ~page.open
  <2>1. PICK n : n = [k EXCEPT !.result = "error"]
    OBVIOUS
  <2>2. /\ n \in BrowserCallRecords /\ n.step = 0 /\ n.result = "error" /\ n.queue = <<>>
        /\ n.inbound = <<>> /\ ~n.waiting /\ n.got = <<>> /\ n.acted = 0 /\ n.missed = 0
    BY <1>2, <2>1 DEF BrowserCallRecords, Connecting
  <2>3. GotInStep(n) /\ DidOK(n)
    BY <2>2 DEF GotInStep, DidOK, Did
  <2>4. CallOK(n)
    BY <2>2, <2>3 DEF CallOK, Over
  <2>5. cdp' = [cdp EXCEPT ![c] = n] /\ page' = page
    BY <1>1, <1>4, <2>1 DEF connect_cdp
  <2> QED BY <2>4, <2>5, BrowserMovesKeeps DEF BrowserInv
<1> QED BY <1>3, <1>4

(* A call that runs, or has commands at Chrome, is under way.              *)
LEMMA RunningUnderWay ==
    ASSUME BrowserInv, NEW c \in BrowserCalls, Running(c) \/ cdp[c].queue # <<>>
    PROVE  UnderWay(cdp[c])
<1>1. CallOK(cdp[c])
  BY DEF BrowserInv
<1>2. ~NotBegun(cdp[c])
  <2>1. NoCall.step = 0 /\ NoCall.queue = <<>>
    BY DEF NoCall
  <2> QED BY <2>1 DEF NotBegun, Running
<1>3. ~Over(cdp[c]) /\ ~Connecting(cdp[c])
  BY DEF Over, Connecting, Running
<1> QED BY <1>1, <1>2, <1>3 DEF CallOK

(* What a call under way gives.                                            *)
WayFacts(k) ==
    /\ k \in BrowserCallRecords /\ k.tool \in Tools /\ k.step \in Nat /\ k.got \in Seq(Nat)
    /\ Did(k) \in {0, 1} /\ k.step \in 1..Len(Script(k.tool)) /\ k.result = "none"
    /\ k.queue \in Seq(QueueEntries) /\ k.inbound \in Seq(Inbounds) /\ k.waiting \in BOOLEAN
    /\ Len(k.queue) \in Nat /\ Len(k.inbound) \in Nat
    /\ ScriptLike(Script(k.tool), EffectAt(k.tool), k.tool = "navigate") /\ DidOK(k)

LEMMA UnderWayFacts ==
    ASSUME NEW k, UnderWay(k)
    PROVE  WayFacts(k)
<1>1. /\ k \in BrowserCallRecords /\ k.tool \in Tools /\ k.step \in Nat /\ k.got \in Seq(Nat)
      /\ Did(k) \in {0, 1} /\ k.step \in 1..Len(Script(k.tool)) /\ k.result = "none"
      /\ k.queue \in Seq(QueueEntries) /\ k.inbound \in Seq(Inbounds) /\ k.waiting \in BOOLEAN
      /\ DidOK(k)
  BY DEF UnderWay, BrowserCallRecords, DidOK
<1>2. ScriptLike(Script(k.tool), EffectAt(k.tool), k.tool = "navigate")
  BY <1>1, ScriptFacts
<1> QED BY <1>1, <1>2 DEF WayFacts

LEMMA IssueKeeps ==
    ASSUME BrowserInv, NEW c \in BrowserCalls, Issue(c)
    PROVE  BrowserInv'
<1>1. UnderWay(cdp[c])
  BY RunningUnderWay DEF Issue
<1>2. PICK k : k = cdp[c]
  OBVIOUS
<1>3. UnderWay(k) /\ WayFacts(k)
  BY <1>1, <1>2, UnderWayFacts
<1>4. ~k.waiting
  BY <1>2 DEF Issue
<1>5. PICK q : q = [step |-> k.step, done |-> FALSE]
  OBVIOUS
<1>6. q \in QueueEntries /\ q.step = k.step /\ ~q.done
  BY <1>3, <1>5 DEF QueueEntries, WayFacts
<1>7. PICK s : s = Append(k.queue, q)
  OBVIOUS
<1>8. /\ s \in Seq(QueueEntries) /\ Len(s) = Len(k.queue) + 1 /\ s[Len(s)] = q
      /\ \A i \in 1..Len(k.queue) : s[i] = k.queue[i]
  BY <1>3, <1>6, <1>7 DEF WayFacts
<1>9. PICK n : n = [k EXCEPT !.waiting = TRUE, !.queue = s]
  OBVIOUS
<1>10. /\ n \in BrowserCallRecords /\ n.tool = k.tool /\ n.step = k.step /\ n.queue = s /\ n.result = "none"
       /\ n.inbound = k.inbound /\ Did(n) = Did(k) /\ n.got = k.got /\ n.waiting
       /\ DidOK(n)
  BY <1>3, <1>8, <1>9 DEF BrowserCallRecords, WayFacts, DidOK, Did
<1>11. cdp' = [cdp EXCEPT ![c] = n] /\ page' = page
  BY <1>2, <1>5, <1>7, <1>9 DEF Issue, BrowserInv
<1>12. GotInStep(n)
  BY <1>3, <1>10 DEF UnderWay, GotInStep
<1>13. CASE Late(k)
  <2>1. Late(n) /\ LateQueue(k)
    BY <1>3, <1>10, <1>13 DEF Late, UnderWay
  <2>2. LateQueue(n)
    <3> SUFFICES ASSUME NEW i \in 1..Len(s) PROVE s[i].step \in 4..6
      BY <1>10 DEF LateQueue
    <3>1. CASE i = Len(s)
      <4>1. k.step \in 4..6
        <5>1. k.tool = "navigate" /\ k.tool \in Tools /\ k.step > 4 /\ k.step \in 1..Len(Script(k.tool))
          BY <1>3, <1>13 DEF WayFacts, Late
        <5>2. Len(Script(k.tool)) = 6
          BY <5>1, ScriptPlain
        <5>3. PICK st : st = k.step
          OBVIOUS
        <5>4. st \in 1..6 /\ st > 4
          BY <5>1, <5>2, <5>3
        <5>5. st \in 4..6
          BY <5>4
        <5> QED BY <5>3, <5>5
      <4> QED BY <1>6, <1>8, <3>1, <4>1
    <3>2. CASE i # Len(s)
      <4>1. i \in 1..Len(k.queue)
        BY <1>3, <1>8, <3>2 DEF WayFacts
      <4> QED BY <1>8, <2>1, <4>1 DEF LateQueue
    <3> QED BY <3>1, <3>2
  <2>3. Acts(n)
    <3>1. EffectAt(n.tool) = 2 /\ n.step > 4 /\ Did(n) = 1
      BY <1>3, <1>10, <1>13 DEF Late, EffectAt, UnderWay, Acts, WayFacts
    <3> QED BY <1>3, <1>10, <3>1 DEF Acts, WayFacts
  <2>4. UnderWay(n)
    BY <1>3, <1>10, <1>12, <2>1, <2>2, <2>3 DEF UnderWay, WayFacts
  <2> QED BY <1>11, <2>4, BrowserMovesKeeps DEF CallOK, BrowserInv
<1>14. CASE ~Late(k)
  <2>1. ~Late(n) /\ k.queue = <<>> /\ OnlyEvents(k.inbound)
    BY <1>3, <1>4, <1>10, <1>14 DEF Late, UnderWay, Outstanding
  <2>2. Len(s) = 1 /\ s[1] = q
    BY <1>8, <2>1
  <2>3. Outstanding(n)
    BY <1>3, <1>6, <1>10, <2>1, <2>2 DEF Outstanding, OnlyEvents, WayFacts
  <2>4. Acts(n)
    <3>1. EffectAt(k.tool) \in Nat /\ n.step \in Nat /\ k.step \in Nat
      BY <1>3, <1>10 DEF WayFacts, ScriptLike
    <3>2. k.step = EffectAt(k.tool) => Did(k) = 0
      BY <1>3, <1>4 DEF UnderWay, Acts
    <3> QED BY <1>3, <1>6, <1>10, <2>1, <2>2, <3>1, <3>2 DEF Acts, OnlyEvents, UnderWay
  <2>5. UnderWay(n)
    BY <1>3, <1>10, <1>12, <2>1, <2>3, <2>4 DEF UnderWay, WayFacts
  <2> QED BY <1>11, <2>5, BrowserMovesKeeps DEF CallOK, BrowserInv
<1> QED BY <1>13, <1>14

LEMMA NowFacts ==
    ASSUME NEW c, UnderWay(cdp[c])
    PROVE  /\ Now(c).id \in 0..4
           /\ Now(c).what = "href" <=> cdp[c].tool = "navigate" /\ cdp[c].step = 4
           /\ Now(c).what = "listen" => cdp[c].step = Len(Script(cdp[c].tool)) /\ EffectAt(cdp[c].tool) = 0
<1>1. WayFacts(cdp[c])
  BY UnderWayFacts
<1> QED BY <1>1, Zenon DEF WayFacts, ScriptLike, Now

(* What failed is passed over late in a navigation only, else the call is  *)
(* over.                                                                   *)
LEMMA FailingOK ==
    ASSUME NEW c, UnderWay(cdp[c]), NEW r, UnderWay(r), r.tool = cdp[c].tool, r.step = cdp[c].step
    PROVE  CallOK(Failing(c, r))
<1>1. CASE Forgiven(c)
  <2>1. r.tool = "navigate" /\ r.step = 4
    BY <1>1, NowFacts DEF Forgiven
  <2>2. EffectAt(r.tool) = 2 /\ r.step \in Nat
    BY <2>1 DEF EffectAt
  <2>3. CallOK(Advanced(r, r.step))
    BY <2>1, <2>2, AdvancedOK
  <2> QED BY <1>1, <2>3 DEF Failing
<1>2. CASE ~Forgiven(c)
  BY <1>2, ReturnedOver DEF Failing, CallOK
<1> QED BY <1>1, <1>2

(* The rest of what arrived.                                               *)
LEMMA RestUnderWay ==
    ASSUME NEW k, UnderWay(k), k.inbound # <<>>, NEW r, r = [k EXCEPT !.inbound = Tail(@)]
    PROVE  /\ UnderWay(r) /\ r.tool = k.tool /\ r.step = k.step /\ r.queue = k.queue /\ Did(r) = Did(k)
           /\ ~Late(k) /\ Head(k.inbound).id # 9 =>
                 /\ k.queue = <<>> /\ OnlyEvents(Tail(k.inbound)) /\ Head(k.inbound).step = k.step
                 /\ k.step = EffectAt(k.tool) /\ Head(k.inbound).ok => Did(k) = 1
           /\ r.inbound = Tail(k.inbound) /\ Head(k.inbound) \in Inbounds
<1>1. WayFacts(k)
  BY UnderWayFacts
<1>2. PICK s : s = Tail(k.inbound)
  OBVIOUS
<1>3. /\ s \in Seq(Inbounds) /\ Len(s) = Len(k.inbound) - 1 /\ Len(s) \in Nat /\ Head(k.inbound) = k.inbound[1]
      /\ Head(k.inbound) \in Inbounds /\ 1 \in 1..Len(k.inbound)
      /\ \A i \in 1..Len(s) : s[i] = k.inbound[i + 1] /\ i + 1 \in 1..Len(k.inbound)
  BY <1>1, <1>2 DEF WayFacts
<1>4. /\ r \in BrowserCallRecords /\ r.tool = k.tool /\ r.step = k.step /\ r.queue = k.queue /\ r.inbound = s
      /\ Did(r) = Did(k) /\ r.got = k.got /\ r.waiting = k.waiting /\ r.result = "none" /\ DidOK(r)
  <2>1. r = [k EXCEPT !.inbound = s]
    BY <1>2
  <2> QED BY <1>1, <1>3, <2>1 DEF BrowserCallRecords, WayFacts, DidOK, Did
<1>5. GotInStep(r)
  BY <1>4 DEF UnderWay, GotInStep
<1>6. Acts(r)
  <2>1. \A i \in 1..Len(s) : s[i].id # 9 /\ s[i].ok /\ k.step = EffectAt(k.tool) => Did(k) = 1
    BY <1>3 DEF UnderWay, Acts
  <2> QED BY <1>4, <2>1 DEF UnderWay, Acts
<1>7. IF Late(r) THEN LateQueue(r) ELSE Outstanding(r)
  <2>1. CASE Late(k)
    BY <1>4, <2>1 DEF UnderWay, Late, LateQueue
  <2>2. CASE ~Late(k)
    <3>1. Outstanding(k) /\ ~Late(r)
      BY <1>4, <2>2 DEF UnderWay, Late
    <3>2. OnlyEvents(k.inbound) => OnlyEvents(s)
      BY <1>3 DEF OnlyEvents
    <3>3. \A i \in 1..Len(s) : s[i].id # 9 => s[i].step = k.step
      BY <1>3, <3>1 DEF Outstanding
    <3>4. \A i, j \in 1..Len(s) : s[i].id # 9 /\ s[j].id # 9 => i = j
      <4> SUFFICES ASSUME NEW i \in 1..Len(s), NEW j \in 1..Len(s), s[i].id # 9, s[j].id # 9 PROVE i = j
        OBVIOUS
      <4>1. i + 1 = j + 1
        BY <1>3, <3>1 DEF Outstanding
      <4> QED BY <4>1
    <3>5. Outstanding(r)
      BY <1>4, <3>1, <3>2, <3>3, <3>4 DEF Outstanding
    <3> QED BY <3>1, <3>5
  <2> QED BY <2>1, <2>2
<1>8. UnderWay(r)
  BY <1>1, <1>4, <1>5, <1>6, <1>7 DEF UnderWay, WayFacts
<1>9. ASSUME ~Late(k), Head(k.inbound).id # 9
      PROVE  /\ k.queue = <<>> /\ OnlyEvents(s) /\ Head(k.inbound).step = k.step
             /\ k.step = EffectAt(k.tool) /\ Head(k.inbound).ok => Did(k) = 1
  <2>1. Outstanding(k) /\ k.inbound[1].id # 9
    BY <1>3, <1>9 DEF UnderWay
  <2>2. k.queue = <<>> /\ k.inbound[1].step = k.step
    BY <1>3, <2>1 DEF Outstanding, OnlyEvents
  <2>3. OnlyEvents(s)
    <3> SUFFICES ASSUME NEW i \in 1..Len(s), s[i].id # 9 PROVE FALSE
      BY DEF OnlyEvents
    <3>1. i + 1 = 1
      BY <1>3, <2>1 DEF Outstanding
    <3> QED BY <3>1
  <2>4. k.step = EffectAt(k.tool) /\ k.inbound[1].ok => Did(k) = 1
    BY <1>3, <2>1 DEF UnderWay, Acts
  <2> QED BY <1>3, <2>2, <2>3, <2>4
<1> QED BY <1>2, <1>3, <1>4, <1>8, <1>9

LEMMA RecvKeeps ==
    ASSUME BrowserInv, NEW c \in BrowserCalls, Recv(c)
    PROVE  BrowserInv'
<1>1. UnderWay(cdp[c]) /\ cdp[c].inbound # <<>>
  BY RunningUnderWay DEF Recv
<1>2. PICK k : k = cdp[c]
  OBVIOUS
<1>3. PICK m : m = Head(k.inbound)
  OBVIOUS
<1>4. PICK r : r = [k EXCEPT !.inbound = Tail(@)]
  OBVIOUS
<1>5. /\ UnderWay(r) /\ r.tool = k.tool /\ r.step = k.step /\ r.queue = k.queue /\ Did(r) = Did(k)
      /\ ~Late(k) /\ m.id # 9 =>
            /\ k.queue = <<>> /\ OnlyEvents(Tail(k.inbound)) /\ m.step = k.step
            /\ k.step = EffectAt(k.tool) /\ m.ok => Did(k) = 1
      /\ r.inbound = Tail(k.inbound) /\ m \in Inbounds
  BY <1>1, <1>2, <1>3, <1>4, RestUnderWay
<1>6. page' = page /\ page \in [open : BOOLEAN, loaded : 1..MaxPages, dialog : BOOLEAN]
  BY DEF Recv, BrowserInv
<1>7. cdp' = [cdp EXCEPT ![c] = IF ~Matches(c, m) THEN r
                                ELSE IF m.ok THEN Advanced(r, m.step) ELSE Failing(c, r)]
  BY <1>2, <1>3, <1>4 DEF Recv
<1>8. CASE ~Matches(c, m)
  <2>1. cdp' = [cdp EXCEPT ![c] = r]
    BY <1>7, <1>8
  <2> QED BY <1>5, <1>6, <2>1, BrowserMovesKeeps DEF CallOK
<1>9. CASE Matches(c, m) /\ m.ok
  <2>1. m.id # 9
    BY <1>1, <1>9, NowFacts DEF Matches
  <2>2. m.step \in Nat
    BY <1>5 DEF Inbounds
  <2>3. CASE Late(k)
    <3>1. r.tool = "navigate" /\ r.step > 3 /\ r.step # EffectAt(r.tool)
      <4>1. k.tool = "navigate" /\ k.step > 4 /\ k.step \in Nat
        BY <1>1, <1>2, <2>3, UnderWayFacts DEF Late, WayFacts
      <4> QED BY <1>5, <4>1 DEF EffectAt
    <3>2. CallOK(Advanced(r, m.step))
      BY <1>5, <2>2, <3>1, AdvancedOK
    <3>3. cdp' = [cdp EXCEPT ![c] = Advanced(r, m.step)]
      BY <1>7, <1>9
    <3> QED BY <1>6, <3>2, <3>3, BrowserMovesKeeps
  <2>4. CASE ~Late(k)
    <3>1. r.queue = <<>> /\ OnlyEvents(r.inbound) /\ m.step = r.step /\ (r.step = EffectAt(r.tool) => Did(r) = 1)
      BY <1>5, <1>9, <2>1, <2>4
    <3>2. CallOK(Advanced(r, m.step))
      BY <1>5, <2>2, <3>1, AdvancedOK
    <3>3. cdp' = [cdp EXCEPT ![c] = Advanced(r, m.step)]
      BY <1>7, <1>9
    <3> QED BY <1>6, <3>2, <3>3, BrowserMovesKeeps
  <2> QED BY <2>3, <2>4
<1>10. CASE Matches(c, m) /\ ~m.ok
  <2>1. CallOK(Failing(c, r))
    BY <1>1, <1>2, <1>5, FailingOK
  <2>2. cdp' = [cdp EXCEPT ![c] = Failing(c, r)]
    BY <1>7, <1>10
  <2> QED BY <1>6, <2>1, <2>2, BrowserMovesKeeps
<1> QED BY <1>8, <1>9, <1>10

LEMMA TimesOutKeeps ==
    ASSUME BrowserInv, NEW c \in BrowserCalls, TimesOut(c)
    PROVE  BrowserInv'
<1>1. UnderWay(cdp[c])
  BY RunningUnderWay DEF TimesOut
<1>2. CallOK(Failing(c, cdp[c]))
  BY <1>1, FailingOK
<1>3. cdp' = [cdp EXCEPT ![c] = Failing(c, cdp[c])] /\ page' = page
  BY DEF TimesOut
<1> QED BY <1>2, <1>3, BrowserMovesKeeps DEF BrowserInv

LEMMA EndWindowKeeps ==
    ASSUME BrowserInv, NEW c \in BrowserCalls, EndWindow(c)
    PROVE  BrowserInv'
<1>1. UnderWay(cdp[c])
  BY RunningUnderWay DEF EndWindow
<1>2. PICK k : k = cdp[c]
  OBVIOUS
<1>3. k.step = Len(Script(k.tool)) /\ EffectAt(k.tool) = 0
  BY <1>1, <1>2, NowFacts DEF EndWindow
<1>4. k.step \in Nat /\ k.step > 0
  BY <1>1, <1>2 DEF UnderWay, BrowserCallRecords
<1>5. CallOK(Advanced(k, k.step))
  BY <1>1, <1>2, <1>3, <1>4, AdvancedOK
<1>6. cdp' = [cdp EXCEPT ![c] = Advanced(k, k.step)] /\ page' = page
  BY <1>2 DEF EndWindow
<1> QED BY <1>5, <1>6, BrowserMovesKeeps DEF BrowserInv

(* The commands at Chrome are commands of the script; those that may come  *)
(* late do not change the page.                                            *)
LEMMA QueueFacts ==
    ASSUME NEW k, UnderWay(k), k.queue # <<>>
    PROVE  /\ Head(k.queue) = k.queue[1] /\ k.queue[1] \in QueueEntries /\ 1 \in 1..Len(k.queue)
           /\ k.queue[1].step \in 1..Len(Script(k.tool)) /\ k.queue[1].step \in Nat
           /\ Late(k) => /\ k.queue[1].step # EffectAt(k.tool) /\ k.step # EffectAt(k.tool) /\ Did(k) = 1
                         /\ k.step > EffectAt(k.tool) /\ EffectAt(k.tool) = 2 /\ LateQueue(k)
           /\ ~Late(k) => /\ Outstanding(k) /\ k.waiting /\ k.queue[1].step = k.step /\ OnlyEvents(k.inbound)
                          /\ Len(k.queue) = 1 /\ Tail(k.queue) = <<>>
<1>1. WayFacts(k)
  BY UnderWayFacts
<1>2. /\ Head(k.queue) = k.queue[1] /\ k.queue[1] \in QueueEntries /\ 1 \in 1..Len(k.queue)
      /\ Len(Tail(k.queue)) = Len(k.queue) - 1 /\ Tail(k.queue) \in Seq(QueueEntries)
  BY <1>1 DEF WayFacts
<1>3. CASE Late(k)
  <2>1. LateQueue(k) /\ k.tool = "navigate" /\ k.step > 4 /\ k.step \in Nat
    BY <1>1, <1>3 DEF UnderWay, Late, WayFacts
  <2>2. k.queue[1].step \in 4..6
    BY <1>2, <2>1 DEF LateQueue
  <2>3. EffectAt(k.tool) = 2 /\ Len(Script(k.tool)) = 6
    BY <1>1, <2>1, ScriptPlain DEF WayFacts
  <2>4. Did(k) = 1
    BY <2>1, <2>3 DEF UnderWay, Acts
  <2>5. PICK p : p = k.queue[1].step
    OBVIOUS
  <2>6. p \in 1..6 /\ p \in Nat /\ p # 2
    BY <2>2, <2>5
  <2>7. p \in 1..Len(Script(k.tool)) /\ p # EffectAt(k.tool)
    BY <2>3, <2>6, Zenon
  <2>8. k.step # 2 /\ k.step > 2
    BY <2>1
  <2>9. k.step # EffectAt(k.tool) /\ k.step > EffectAt(k.tool)
    BY <2>3, <2>8, Zenon
  <2> QED BY <2>9, <1>2, <1>3, <2>1, <2>3, <2>4, <2>5, <2>6, <2>7, Zenon
<1>4. CASE ~Late(k)
  <2>1. Outstanding(k)
    BY <1>4 DEF UnderWay
  <2>2. k.waiting /\ k.queue[1].step = k.step /\ OnlyEvents(k.inbound) /\ Len(k.queue) <= 1
    BY <2>1 DEF Outstanding
  <2>l. PICK l : l = Len(k.queue)
    OBVIOUS
  <2>m. l \in Nat /\ l <= 1 /\ 1 \in 1..l
    BY <1>1, <1>2, <2>2, <2>l DEF WayFacts
  <2>n. l = 1
    BY <2>m
  <2>3. Len(k.queue) = 1 /\ Len(Tail(k.queue)) = 0
    BY <1>2, <2>l, <2>n
  <2>4. Tail(k.queue) = <<>>
    BY <1>2, <2>3, EmptySeq
  <2> QED BY <1>1, <1>2, <1>4, <2>1, <2>2, <2>3, <2>4 DEF WayFacts
<1> QED BY <1>3, <1>4

(* Chrome answers the first command.                                       *)
LEMMA AnsweredOK ==
    ASSUME NEW k, UnderWay(k), k.queue # <<>>, NEW b \in BOOLEAN, b => k.queue[1].done,
           NEW n, n = [k EXCEPT !.queue = Tail(@), !.inbound = Append(@, Response(k, k.queue[1], b))]
    PROVE  UnderWay(n)
<1>1. WayFacts(k)
  BY UnderWayFacts
<1>2. PICK q : q = k.queue[1]
  OBVIOUS
<1>3. PICK m : m = Response(k, q, b)
  OBVIOUS
<1>4. /\ q \in QueueEntries /\ q.step \in 1..Len(Script(k.tool)) /\ q.step \in Nat
      /\ Late(k) => /\ q.step # EffectAt(k.tool) /\ k.step # EffectAt(k.tool) /\ Did(k) = 1
                    /\ k.step > EffectAt(k.tool) /\ EffectAt(k.tool) = 2 /\ LateQueue(k)
      /\ ~Late(k) => /\ Outstanding(k) /\ k.waiting /\ q.step = k.step /\ OnlyEvents(k.inbound)
                     /\ Len(k.queue) = 1 /\ Tail(k.queue) = <<>>
  BY <1>2, QueueFacts
<1>5. Script(k.tool)[q.step].id \in 0..4
  BY <1>1, <1>4, Zenon DEF WayFacts, ScriptLike
<1>6. m \in Inbounds /\ m.id # 9 /\ m.step = q.step /\ m.ok = b
  <2>1. PICK i \in 0..4 : i = Script(k.tool)[q.step].id
    BY <1>5
  <2>2. m = [id |-> i, step |-> q.step, ok |-> b]
    BY <1>3, <2>1 DEF Response
  <2>3. i \in Nat /\ i # 9
    BY <2>1
  <2> QED BY <1>4, <2>2, <2>3 DEF Inbounds
<1>7. PICK s : s = Tail(k.queue)
  OBVIOUS
<1>8. PICK u : u = Append(k.inbound, m)
  OBVIOUS
<1>9. /\ s \in Seq(QueueEntries) /\ Len(s) = Len(k.queue) - 1 /\ Len(s) \in Nat
      /\ \A i \in 1..Len(s) : s[i] = k.queue[i + 1] /\ i + 1 \in 1..Len(k.queue)
  BY <1>1, <1>7 DEF WayFacts
<1>10. /\ u \in Seq(Inbounds) /\ Len(u) = Len(k.inbound) + 1 /\ u[Len(u)] = m
       /\ \A i \in 1..Len(k.inbound) : u[i] = k.inbound[i]
  BY <1>1, <1>6, <1>8 DEF WayFacts
<1>11. /\ n \in BrowserCallRecords /\ n.tool = k.tool /\ n.step = k.step /\ n.queue = s /\ n.inbound = u
       /\ Did(n) = Did(k) /\ n.got = k.got /\ n.waiting = k.waiting /\ n.result = "none" /\ DidOK(n)
  <2>1. n = [k EXCEPT !.queue = s, !.inbound = u]
    BY <1>2, <1>3, <1>7, <1>8
  <2> QED BY <1>1, <1>9, <1>10, <2>1 DEF BrowserCallRecords, WayFacts, DidOK, Did
<1>12. GotInStep(n)
  BY <1>11 DEF UnderWay, GotInStep
<1>13. CASE Late(k)
  <2>1. Late(n) /\ LateQueue(n)
    BY <1>4, <1>9, <1>11, <1>13 DEF Late, LateQueue
  <2>2. Acts(n)
    <3>1. EffectAt(n.tool) = 2 /\ n.step > 2 /\ Did(n) = 1 /\ n.step \in Nat
      BY <1>1, <1>4, <1>11, <1>13 DEF WayFacts
    <3> QED BY <3>1 DEF Acts
  <2> QED BY <1>1, <1>11, <1>12, <2>1, <2>2 DEF UnderWay, WayFacts
<1>14. CASE ~Late(k)
  <2>1. s = <<>> /\ k.waiting /\ q.step = k.step /\ OnlyEvents(k.inbound) /\ ~Late(n)
    BY <1>4, <1>7, <1>11, <1>14 DEF Late
  <2>2. \A i \in 1..Len(u) : u[i].id # 9 => i = Len(u)
    <3> SUFFICES ASSUME NEW i \in 1..Len(u), i # Len(u) PROVE u[i].id = 9
      OBVIOUS
    <3>1. i \in 1..Len(k.inbound)
      BY <1>1, <1>10 DEF WayFacts
    <3> QED BY <1>10, <2>1, <3>1 DEF OnlyEvents
  <2>3. Outstanding(n)
    BY <1>6, <1>10, <1>11, <2>1, <2>2, SMTT(40) DEF Outstanding
  <2>4. k.step = EffectAt(k.tool) /\ b => Did(k) = 1
    BY <1>2, <1>4 DEF UnderWay, Acts
  <2>5. Acts(n)
    <3>1. EffectAt(n.tool) = 0 \/ n.step < EffectAt(n.tool) \/ (n.step = EffectAt(n.tool) /\ ~n.waiting)
             => Did(n) = 0
      BY <1>11 DEF UnderWay, Acts
    <3>2. EffectAt(n.tool) # 0 /\ n.step > EffectAt(n.tool) => Did(n) = 1
      BY <1>11 DEF UnderWay, Acts
    <3>3. ASSUME n.step = EffectAt(n.tool), NEW i \in 1..Len(u), u[i].id # 9, u[i].ok PROVE Did(n) = 1
      BY <1>6, <1>10, <1>11, <2>2, <2>4, <3>3
    <3> QED BY <1>11, <2>1, <3>1, <3>2, <3>3 DEF Acts
  <2> QED BY <1>1, <1>11, <1>12, <2>1, <2>3, <2>5 DEF UnderWay, WayFacts
<1> QED BY <1>13, <1>14

LEMMA RespondKeeps ==
    ASSUME BrowserInv, NEW c \in BrowserCalls, Respond(c)
    PROVE  BrowserInv'
<1>1. UnderWay(cdp[c]) /\ cdp[c].queue # <<>>
  BY RunningUnderWay DEF Respond
<1>2. PICK k : k = cdp[c]
  OBVIOUS
<1>3. Head(k.queue) = k.queue[1]
  BY <1>1, <1>2, QueueFacts
<1>4. PICK n : n = [k EXCEPT !.queue = Tail(@), !.inbound = Append(@, Response(k, k.queue[1], TRUE))]
  OBVIOUS
<1>5. k.queue[1].done
  BY <1>2, <1>3 DEF Respond
<1>6. UnderWay(n)
  BY <1>1, <1>2, <1>4, <1>5, AnsweredOK
<1>7. cdp' = [cdp EXCEPT ![c] = n] /\ page' = page
  <2>1. cdp' = [cdp EXCEPT ![c].queue = Tail(@), ![c].inbound = Append(@, Response(cdp[c], Head(cdp[c].queue), TRUE))]
    BY DEF Respond
  <2>2. cdp' = [cdp EXCEPT ![c].queue = Tail(@), ![c].inbound = Append(@, Response(k, k.queue[1], TRUE))]
    BY <1>2, <1>3, <2>1
  <2> QED BY <1>2, <1>4, <2>2 DEF Respond, BrowserInv
<1> QED BY <1>6, <1>7, BrowserMovesKeeps DEF CallOK, BrowserInv

(* The scripts with a command that may fail unseen.                        *)
LEMMA ScriptsThatMiss ==
    ASSUME NEW tool \in Tools, NEW i \in 1..Len(Script(tool)),
           Script(tool)[i].what \in {"act", "load", "script"}
    PROVE  tool \in Misses
<1> SUFFICES ASSUME tool \notin Misses PROVE FALSE
  OBVIOUS
<1>1. CASE tool = "snapshot"
  BY <1>1 DEF Script, get_snapshot, Command
<1>2. CASE tool = "press"
  BY <1>2 DEF Script, press_key, Command
<1>3. CASE tool = "scroll"
  BY <1>3 DEF Script, do_scroll, Command
<1>4. CASE tool = "screenshot"
  BY <1>4 DEF Script, capture, Command
<1>5. CASE tool = "dialog"
  BY <1>5 DEF Script, handle_dialog, Command
<1>6. CASE tool = "console"
  BY <1>6 DEF Script, collect_console, Command
<1> QED BY <1>1, <1>2, <1>3, <1>4, <1>5, <1>6 DEF Tools, Misses

(* Chrome carries out the first command of a connection.                   *)
LEMMA DoneOK ==
    ASSUME NEW k, UnderWay(k), k.queue # <<>>, ~k.queue[1].done, NEW what,
           what = Script(k.tool)[k.queue[1].step].what, NEW n, NEW lost \in BOOLEAN,
           lost => what \in Effects /\ what \in {"act", "load", "script"},
           n = [k EXCEPT !.acted = IF what \in Effects /\ ~lost THEN @ + 1 ELSE @,
                         !.missed = IF lost THEN @ + 1 ELSE @,
                         !.queue = [@ EXCEPT ![1].done = TRUE]]
    PROVE  UnderWay(n)
<1>1. WayFacts(k)
  BY UnderWayFacts
<1>2. PICK q : q = k.queue[1]
  OBVIOUS
<1>3. /\ q \in QueueEntries /\ q.step \in 1..Len(Script(k.tool)) /\ q.step \in Nat /\ 1 \in 1..Len(k.queue)
      /\ Late(k) => /\ q.step # EffectAt(k.tool) /\ k.step # EffectAt(k.tool) /\ Did(k) = 1
                    /\ k.step > EffectAt(k.tool) /\ EffectAt(k.tool) = 2 /\ LateQueue(k)
      /\ ~Late(k) => /\ Outstanding(k) /\ k.waiting /\ q.step = k.step /\ OnlyEvents(k.inbound)
                     /\ Len(k.queue) = 1 /\ Tail(k.queue) = <<>>
  BY <1>2, QueueFacts
<1>4. what \in Effects <=> q.step = EffectAt(k.tool)
  BY <1>1, <1>2, <1>3, Zenon DEF WayFacts, ScriptLike
<1>5. PICK p : p = [q EXCEPT !.done = TRUE]
  OBVIOUS
<1>6. p \in QueueEntries /\ p.step = q.step /\ p.done
  BY <1>3, <1>5 DEF QueueEntries
<1>7. PICK s : s = [k.queue EXCEPT ![1] = p]
  OBVIOUS
<1>8. s \in Seq(QueueEntries) /\ Len(s) = Len(k.queue) /\ s[1] = p
      /\ \A i \in 1..Len(s) : i # 1 => s[i] = k.queue[i]
  BY <1>1, <1>3, <1>6, <1>7 DEF WayFacts
<1>9. PICK a : a = IF what \in Effects /\ ~lost THEN k.acted + 1 ELSE k.acted
  OBVIOUS
<1>m. PICK b : b = IF lost THEN k.missed + 1 ELSE k.missed
  OBVIOUS
<1>t. k.acted \in {0, 1} /\ k.missed \in {0, 1} /\ Did(k) = k.acted + k.missed /\ DidOK(k)
  BY <1>1 DEF WayFacts, BrowserCallRecords, Did
<1>10. /\ a \in {0, 1} /\ b \in {0, 1} /\ a + b \in {0, 1}
       /\ (what \in Effects => a + b = 1) /\ (what \notin Effects => a + b = Did(k))
       /\ b > 0 => k.missed > 0 \/ lost
  <2>1. CASE what \notin Effects
    <3>1. a = k.acted /\ b = k.missed
      BY <1>9, <1>m, <2>1
    <3> QED BY <1>t, <2>1, <3>1 DEF DidOK
  <2>2. CASE what \in Effects
    <3>1. q.step = k.step /\ k.step = EffectAt(k.tool)
      BY <1>3, <1>4, <2>2
    <3>2. Did(k) # 1
      BY <1>2, <3>1 DEF UnderWay, Acts
    <3>3. k.acted = 0 /\ k.missed = 0
      BY <1>t, <3>2 DEF DidOK
    <3>4. CASE lost
      BY <1>9, <1>m, <2>2, <3>3, <3>4
    <3>5. CASE ~lost
      BY <1>9, <1>m, <2>2, <3>3, <3>5
    <3> QED BY <3>4, <3>5
  <2> QED BY <2>1, <2>2
<1>11. /\ n \in BrowserCallRecords /\ n.tool = k.tool /\ n.step = k.step /\ n.queue = s /\ n.inbound = k.inbound
       /\ Did(n) = a + b /\ n.got = k.got /\ n.waiting = k.waiting /\ n.result = "none" /\ DidOK(n)
  <2>1. n = [k EXCEPT !.acted = a, !.missed = b, !.queue = s]
    <3>1. s = [k.queue EXCEPT ![1].done = TRUE]
      BY <1>2, <1>5, <1>7
    <3> QED BY <1>9, <1>m, <3>1
  <2>2. /\ n \in BrowserCallRecords /\ n.tool = k.tool /\ n.step = k.step /\ n.queue = s /\ n.inbound = k.inbound
        /\ n.acted = a /\ n.missed = b /\ n.got = k.got /\ n.waiting = k.waiting /\ n.result = "none"
    BY <1>1, <1>8, <1>10, <2>1 DEF BrowserCallRecords, WayFacts
  <2>3. lost => k.tool \in Misses
    <3>1. ASSUME lost PROVE k.tool \in Misses
      BY <1>1, <1>2, <1>3, <3>1, ScriptsThatMiss DEF WayFacts
    <3> QED BY <3>1
  <2>4. n.missed > 0 => n.tool \in Misses
    BY <1>10, <1>t, <2>2, <2>3 DEF DidOK
  <2>5. Did(n) = a + b
    BY <2>2 DEF Did
  <2> QED BY <1>10, <2>2, <2>4, <2>5 DEF DidOK
<1>12. GotInStep(n)
  BY <1>11 DEF UnderWay, GotInStep
<1>13. CASE Late(k)
  <2>1. Late(n)
    BY <1>11, <1>13 DEF Late
  <2>2. LateQueue(n)
    <3> SUFFICES ASSUME NEW i \in 1..Len(s) PROVE s[i].step \in 4..6
      BY <1>11 DEF LateQueue
    <3>1. k.queue[i].step \in 4..6
      BY <1>3, <1>8, <1>13 DEF LateQueue
    <3>2. CASE i = 1
      BY <1>2, <1>6, <1>8, <3>1, <3>2
    <3>3. CASE i # 1
      BY <1>8, <3>1, <3>3
    <3> QED BY <3>2, <3>3
  <2>3. Acts(n)
    <3>1. EffectAt(n.tool) = 2 /\ n.step > 2 /\ Did(n) = 1 /\ n.step \in Nat
      BY <1>1, <1>3, <1>4, <1>10, <1>11, <1>13 DEF WayFacts
    <3> QED BY <3>1 DEF Acts
  <2> QED BY <1>1, <1>11, <1>12, <2>1, <2>2, <2>3 DEF UnderWay, WayFacts
<1>14. CASE ~Late(k)
  <2>1. k.waiting /\ q.step = k.step /\ OnlyEvents(k.inbound) /\ ~Late(n) /\ Len(s) = 1
    BY <1>3, <1>8, <1>11, <1>14 DEF Late
  <2>2. Outstanding(n)
    <3>1. n.waiting /\ Len(n.queue) <= 1 /\ n.queue[1].step = n.step
      <4>0. n.waiting /\ Len(n.queue) = 1
        BY <1>11, <2>1, Zenon
      <4>u. 1 <= 1
        OBVIOUS
      <4>1. n.waiting /\ Len(n.queue) <= 1
        BY <4>0, <4>u, Zenon
      <4>2. s[1].step = q.step
        BY <1>6, <1>8
      <4> QED BY <1>11, <2>1, <4>1, <4>2
    <3>2. OnlyEvents(n.inbound)
      BY <1>11, <2>1
    <3> QED BY <3>1, <3>2 DEF Outstanding, OnlyEvents
  <2>3. EffectAt(k.tool) \in Nat /\ k.step \in Nat /\ Did(k) \in {0, 1}
    BY <1>1, ScriptPlain DEF WayFacts
  <2>4. Acts(n)
    <3>1. CASE what \in Effects
      <4>1. k.step = EffectAt(k.tool) /\ a + b = 1 /\ EffectAt(k.tool) # 0
        <5>1. q.step \in 1..Len(Script(k.tool)) /\ k.step = EffectAt(k.tool) /\ a + b = 1
          BY <1>3, <1>4, <1>10, <2>1, <3>1
        <5> QED BY <1>1, <2>1, <5>1 DEF WayFacts
      <4>2. PICK e \in Nat : e = EffectAt(k.tool) /\ e # 0 /\ n.step = e
        BY <1>11, <2>3, <4>1
      <4>3. EffectAt(n.tool) = e /\ n.waiting /\ Did(n) = 1 /\ n.queue[1].done
        BY <1>6, <1>8, <1>11, <2>1, <4>1, <4>2
      <4> QED BY <4>2, <4>3 DEF Acts
    <3>2. CASE what \notin Effects
      <4>1. k.step # EffectAt(k.tool) /\ a + b = Did(k)
        BY <1>4, <1>10, <2>1, <3>2
      <4>2. /\ EffectAt(k.tool) = 0 \/ k.step < EffectAt(k.tool) => Did(k) = 0
            /\ EffectAt(k.tool) # 0 /\ k.step > EffectAt(k.tool) => Did(k) = 1
        BY DEF UnderWay, Acts
      <4> QED BY <1>11, <4>1, <4>2 DEF Acts
    <3> QED BY <3>1, <3>2
  <2> QED BY <1>1, <1>11, <1>12, <2>1, <2>2, <2>4 DEF UnderWay, WayFacts
<1> QED BY <1>13, <1>14

LEMMA PageKept ==
    ASSUME page \in [open : BOOLEAN, loaded : 1..MaxPages, dialog : BOOLEAN], NEW what, NEW how,
           what = "load" => page.loaded < MaxPages,
           page' = CASE what = "load" -> [page EXCEPT !.loaded = @ + 1, !.dialog = FALSE]
                     [] what = "close" -> [page EXCEPT !.dialog = FALSE]
                     [] OTHER -> [page EXCEPT !.dialog = @ \/ how = "dialog"]
    PROVE  page' \in [open : BOOLEAN, loaded : 1..MaxPages, dialog : BOOLEAN]
<1>0. MaxPages \in Nat
  BY BrowserAssumption
<1>1. CASE what = "load"
  <2>1. page' = [page EXCEPT !.loaded = @ + 1, !.dialog = FALSE]
    BY <1>1
  <2>2. PICK l : l = page.loaded + 1
    OBVIOUS
  <2>3. page.loaded \in 1..MaxPages /\ page.loaded < MaxPages
    BY <1>1
  <2>4. l \in 1..MaxPages
    BY <1>0, <2>2, <2>3
  <2>5. page' = [page EXCEPT !.loaded = l, !.dialog = FALSE]
    BY <2>1, <2>2
  <2> QED BY <2>4, <2>5
<1>2. CASE what = "close"
  BY <1>2
<1>3. CASE what \notin {"load", "close"}
  <2>1. page' = [page EXCEPT !.dialog = @ \/ how = "dialog"]
    BY <1>3
  <2>2. (page.dialog \/ how = "dialog") \in BOOLEAN
    OBVIOUS
  <2> QED BY <2>1, <2>2
<1> QED BY <1>1, <1>2, <1>3

LEMMA PerformKeeps ==
    ASSUME BrowserInv, NEW c \in BrowserCalls, NEW how \in {"quiet", "dialog", "throws", "unseen"}, Perform(c, how)
    PROVE  BrowserInv'
<1>1. UnderWay(cdp[c]) /\ cdp[c].queue # <<>>
  BY RunningUnderWay DEF Perform
<1>2. PICK k : k = cdp[c]
  OBVIOUS
<1>3. Head(k.queue) = k.queue[1] /\ k.queue[1] \in QueueEntries
  BY <1>1, <1>2, QueueFacts
<1>4. PICK what : what = Script(k.tool)[k.queue[1].step].what
  OBVIOUS
<1>5. ~k.queue[1].done /\ (what = "load" => page.loaded < MaxPages)
  BY <1>2, <1>3, <1>4 DEF Perform
<1>6. page \in [open : BOOLEAN, loaded : 1..MaxPages, dialog : BOOLEAN]
  BY DEF BrowserInv
<1>7. CASE Accepted(c, what) /\ how # "throws"
  <2>0. PICK lost \in BOOLEAN : lost <=> how = "unseen"
    OBVIOUS
  <2>1. PICK n : n = [k EXCEPT !.acted = IF what \in Effects /\ ~lost THEN @ + 1 ELSE @,
                               !.missed = IF lost THEN @ + 1 ELSE @,
                               !.queue = [@ EXCEPT ![1].done = TRUE]]
    OBVIOUS
  <2>m. lost => what \in Effects /\ what \in {"act", "load", "script"}
    <3>1. MayBe(what, how)
      BY <1>2, <1>3, <1>4 DEF Perform
    <3> QED BY <2>0, <3>1 DEF MayBe, Effects
  <2>2. UnderWay(n)
    BY <1>1, <1>2, <1>4, <1>5, <2>1, <2>m, DoneOK
  <2>3. page' = CASE what = "load" -> [page EXCEPT !.loaded = @ + 1, !.dialog = FALSE]
                  [] what = "close" -> [page EXCEPT !.dialog = FALSE]
                  [] OTHER -> [page EXCEPT !.dialog = @ \/ how = "dialog"]
    BY <1>2, <1>3, <1>4, <1>7 DEF Perform
  <2>4. page' \in [open : BOOLEAN, loaded : 1..MaxPages, dialog : BOOLEAN]
    BY <1>5, <1>6, <2>3, PageKept
  <2>5. cdp' = [cdp EXCEPT ![c].acted = IF what \in Effects /\ ~lost THEN @ + 1 ELSE @,
                           ![c].missed = IF lost THEN @ + 1 ELSE @,
                           ![c].inbound = @, ![c].queue = [@ EXCEPT ![1].done = TRUE]]
    BY <1>2, <1>3, <1>4, <1>7, <2>0 DEF Perform
  <2>6. cdp' = [cdp EXCEPT ![c] = n]
    <3>1. k \in BrowserCallRecords
      BY <1>1, <1>2 DEF UnderWay
    <3>2. n = [k EXCEPT !.acted = IF what \in Effects /\ ~lost THEN @ + 1 ELSE @,
                        !.missed = IF lost THEN @ + 1 ELSE @,
                        !.inbound = @, !.queue = [@ EXCEPT ![1].done = TRUE]]
      BY <2>1, <3>1 DEF BrowserCallRecords
    <3> QED BY <1>2, <2>5, <3>2 DEF BrowserInv
  <2> QED BY <2>2, <2>4, <2>6, BrowserMovesKeeps DEF CallOK
<1>8. CASE ~(Accepted(c, what) /\ how # "throws")
  <2>1. PICK n : n = [k EXCEPT !.queue = Tail(@), !.inbound = Append(@, Response(k, k.queue[1], FALSE))]
    OBVIOUS
  <2>2. UnderWay(n)
    BY <1>1, <1>2, <2>1, AnsweredOK
  <2>3. page' = page /\ how # "unseen"
    BY <1>2, <1>3, <1>4, <1>8 DEF Perform
  <2>4. cdp' = [cdp EXCEPT ![c].acted = @, ![c].missed = @,
                           ![c].inbound = Append(@, Response(k, k.queue[1], FALSE)), ![c].queue = Tail(@)]
    BY <1>2, <1>3, <1>4, <1>8, <2>3 DEF Perform
  <2>5. cdp' = [cdp EXCEPT ![c] = n]
    <3>1. k \in BrowserCallRecords
      BY <1>1, <1>2 DEF UnderWay
    <3>2. n = [k EXCEPT !.acted = @, !.missed = @, !.inbound = Append(@, Response(k, k.queue[1], FALSE)),
                        !.queue = Tail(@)]
      BY <2>1, <3>1 DEF BrowserCallRecords
    <3> QED BY <1>2, <2>4, <3>2 DEF BrowserInv
  <2> QED BY <1>6, <2>2, <2>3, <2>5, BrowserMovesKeeps DEF CallOK
<1> QED BY <1>7, <1>8

LEMMA PageEventKeeps ==
    ASSUME BrowserInv, NEW c \in BrowserCalls, PageEvent(c)
    PROVE  BrowserInv'
<1>1. UnderWay(cdp[c])
  BY RunningUnderWay DEF PageEvent
<1>2. PICK k : k = cdp[c]
  OBVIOUS
<1>3. UnderWay(k) /\ WayFacts(k) /\ k.waiting
  BY <1>1, <1>2, UnderWayFacts DEF PageEvent
<1>4. PICK m : m = [id |-> 9, step |-> 0, ok |-> TRUE]
  OBVIOUS
<1>5. m \in Inbounds /\ m.id = 9
  BY <1>4 DEF Inbounds
<1>6. PICK u : u = Append(k.inbound, m)
  OBVIOUS
<1>7. /\ u \in Seq(Inbounds) /\ Len(u) = Len(k.inbound) + 1 /\ u[Len(u)] = m
      /\ \A i \in 1..Len(k.inbound) : u[i] = k.inbound[i]
  BY <1>3, <1>5, <1>6 DEF WayFacts
<1>8. PICK n : n = [k EXCEPT !.inbound = u]
  OBVIOUS
<1>9. /\ n \in BrowserCallRecords /\ n.tool = k.tool /\ n.step = k.step /\ n.queue = k.queue /\ n.inbound = u
      /\ Did(n) = Did(k) /\ n.got = k.got /\ n.waiting = k.waiting /\ n.result = "none" /\ DidOK(n)
  BY <1>3, <1>7, <1>8 DEF BrowserCallRecords, WayFacts, DidOK, Did
<1>10. \A i \in 1..Len(u) : u[i].id # 9 => i \in 1..Len(k.inbound) /\ u[i] = k.inbound[i]
  BY <1>3, <1>5, <1>7 DEF WayFacts
<1>11. GotInStep(n) /\ Acts(n)
  <2>1. GotInStep(n)
    BY <1>3, <1>9 DEF UnderWay, GotInStep
  <2>2. \A i \in 1..Len(u) : k.step = EffectAt(k.tool) /\ u[i].id # 9 /\ u[i].ok => Did(k) = 1
    BY <1>3, <1>10 DEF UnderWay, Acts
  <2>3. Acts(n)
    BY <1>3, <1>9, <2>2 DEF UnderWay, Acts
  <2> QED BY <2>1, <2>3
<1>12. IF Late(n) THEN LateQueue(n) ELSE Outstanding(n)
  <2>1. CASE Late(k)
    BY <1>3, <1>9, <2>1 DEF UnderWay, Late, LateQueue
  <2>2. CASE ~Late(k)
    <3>1. Outstanding(k) /\ ~Late(n)
      BY <1>3, <1>9, <2>2 DEF UnderWay, Late
    <3>2. OnlyEvents(k.inbound) => OnlyEvents(u)
      BY <1>10 DEF OnlyEvents
    <3>3. \A i \in 1..Len(u) : u[i].id # 9 => u[i].step = k.step
      BY <1>10, <3>1 DEF Outstanding
    <3>4. \A i, j \in 1..Len(u) : u[i].id # 9 /\ u[j].id # 9 => i = j
      BY <1>10, <3>1 DEF Outstanding
    <3>5. Outstanding(n)
      BY <1>9, <3>1, <3>2, <3>3, <3>4 DEF Outstanding
    <3> QED BY <3>1, <3>5
  <2> QED BY <2>1, <2>2
<1>13. UnderWay(n)
  BY <1>3, <1>9, <1>11, <1>12 DEF UnderWay, WayFacts
<1>14. cdp' = [cdp EXCEPT ![c] = n] /\ page' = page
  BY <1>2, <1>4, <1>6, <1>8 DEF PageEvent, BrowserInv
<1> QED BY <1>13, <1>14, BrowserMovesKeeps DEF CallOK, BrowserInv

LEMMA CloseTabKeeps ==
    ASSUME BrowserInv, CloseTab
    PROVE  BrowserInv'
<1>1. /\ page \in [open : BOOLEAN, loaded : 1..MaxPages, dialog : BOOLEAN]
      /\ page' = [page EXCEPT !.open = FALSE]
      /\ cdp' = [c \in BrowserCalls |-> IF Running(c) THEN Returned(cdp[c], "error") ELSE cdp[c]]
  BY DEF BrowserInv, CloseTab
<1>2. page' \in [open : BOOLEAN, loaded : 1..MaxPages, dialog : BOOLEAN]
  BY <1>1
<1>3. ASSUME NEW c \in BrowserCalls PROVE CallOK(cdp'[c])
  <2>1. CASE Running(c)
    <3>1. Over(Returned(cdp[c], "error"))
      BY <2>1, RunningUnderWay, ReturnedOver
    <3> QED BY <1>1, <2>1, <3>1 DEF CallOK
  <2>2. CASE ~Running(c)
    BY <1>1, <2>2 DEF BrowserInv
  <2> QED BY <2>1, <2>2
<1>4. DOMAIN cdp' = BrowserCalls /\ cdp' = [c \in BrowserCalls |-> cdp'[c]]
  BY <1>1
<1> QED BY <1>2, <1>3, <1>4 DEF BrowserInv

LEMMA BrowserNextKeeps == BrowserInv /\ [BrowserNext]_browserVars => BrowserInv'
<1> SUFFICES ASSUME BrowserInv, [BrowserNext]_browserVars PROVE BrowserInv'
  OBVIOUS
<1>1. ASSUME NEW c \in BrowserCalls, connect_cdp(c) \/ Issue(c) \/ TimesOut(c) \/ EndWindow(c) \/ Recv(c)
      PROVE  BrowserInv'
  BY <1>1, ConnectKeeps, IssueKeeps, TimesOutKeeps, EndWindowKeeps, RecvKeeps
<1>2. ASSUME NEW c \in BrowserCalls,
             \/ browser_snapshot(c) \/ browser_click(c) \/ browser_type(c) \/ browser_press(c)
             \/ browser_scroll(c) \/ browser_screenshot(c) \/ browser_dialog(c) \/ web_execute_js(c)
             \/ browser_navigate(c) \/ browser_console(c)
      PROVE  BrowserInv'
  <2>1. PICK tool \in Tools, r \in Nat : Start(c, tool, r)
    <3>1. 0 \in Nat /\ page.loaded \in Nat
      BY DEF BrowserInv
    <3>2. CASE browser_click(c) \/ browser_type(c)
      <4>1. \A r \in 1..page.loaded : r \in Nat
        BY <3>1
      <4> QED BY <3>2, <4>1 DEF browser_click, browser_type, Tools
    <3>3. CASE ~(browser_click(c) \/ browser_type(c))
      BY <1>2, <3>1, <3>3 DEF browser_snapshot, browser_press, browser_scroll, browser_screenshot,
            browser_dialog, web_execute_js, browser_navigate, browser_console, Tools
    <3> QED BY <3>2, <3>3
  <2> QED BY <2>1, StartKeeps
<1>3. ASSUME NEW c \in BrowserCalls, NEW how \in {"quiet", "dialog", "throws", "unseen"}, Perform(c, how)
      PROVE  BrowserInv'
  BY <1>3, PerformKeeps
<1>4. ASSUME NEW c \in BrowserCalls, Respond(c) \/ PageEvent(c) PROVE BrowserInv'
  BY <1>4, RespondKeeps, PageEventKeeps
<1>5. CASE CloseTab
  BY <1>5, CloseTabKeeps
<1>6. CASE UNCHANGED browserVars
  BY <1>6 DEF browserVars, BrowserInv
<1> QED BY <1>1, <1>2, <1>3, <1>4, <1>5, <1>6 DEF BrowserNext, BrowserFair

LEMMA BrowserInitInv == BrowserInit => BrowserInv
<1> SUFFICES ASSUME BrowserInit PROVE BrowserInv
  OBVIOUS
<1>1. page = [open |-> TRUE, loaded |-> 1, dialog |-> FALSE] /\ cdp = [c \in BrowserCalls |-> NoCall]
  BY DEF BrowserInit
<1>2. 1 \in 1..MaxPages
  BY BrowserAssumption
<1>3. page \in [open : BOOLEAN, loaded : 1..MaxPages, dialog : BOOLEAN]
  BY <1>1, <1>2
<1> QED BY <1>1, <1>3 DEF BrowserInv, CallOK, NotBegun

LEMMA BrowserInvKept == BrowserInv => BrowserTypeOK /\ ActedOnce /\ AnswersInStep
<1> SUFFICES ASSUME BrowserInv PROVE BrowserTypeOK /\ ActedOnce /\ AnswersInStep
  OBVIOUS
<1>1. ASSUME NEW c \in BrowserCalls
      PROVE  /\ cdp[c].result \in {"none", "ok", "error"} /\ cdp[c].acted + cdp[c].missed <= 1
             /\ cdp[c].missed > 0 => cdp[c].tool \in Misses
             /\ cdp[c].tool # "navigate" => \A i \in DOMAIN cdp[c].got : cdp[c].got[i] = i
             /\ cdp[c].result = "ok" =>
                   cdp[c].tool \in Tools
                   /\ cdp[c].acted + cdp[c].missed = (IF EffectAt(cdp[c].tool) = 0 THEN 0 ELSE 1)
  <2>1. CASE cdp[c] = NoCall
    BY <2>1 DEF NoCall
  <2>2. CASE cdp[c] # NoCall
    <3>1. PICK k : k = cdp[c]
      OBVIOUS
    <3>2. Connecting(k) \/ Over(k) \/ UnderWay(k)
      BY <2>2, <3>1 DEF BrowserInv, CallOK, NotBegun
    <3>3. k \in BrowserCallRecords /\ GotInStep(k)
      <4>1. CASE Connecting(k)
        BY <4>1 DEF Connecting, GotInStep
      <4>2. CASE Over(k) \/ UnderWay(k)
        BY <4>2 DEF Over, UnderWay
      <4> QED BY <3>2, <4>1, <4>2
    <3>4. k.result \in {"none", "ok", "error"} /\ DOMAIN k.got = 1..Len(k.got)
      BY <3>3 DEF BrowserCallRecords
    <3>5. k.acted + k.missed <= 1 /\ (k.missed > 0 => k.tool \in Misses)
      <4>1. CASE Connecting(k)
        BY <4>1 DEF Connecting
      <4>2. CASE Over(k) \/ UnderWay(k)
        <5>1. DidOK(k)
          BY <4>2 DEF Over, UnderWay
        <5> QED BY <5>1 DEF DidOK, Did
      <4> QED BY <3>2, <4>1, <4>2
    <3>6. k.result = "ok" => k.tool \in Tools /\ k.acted + k.missed = (IF EffectAt(k.tool) = 0 THEN 0 ELSE 1)
      BY <3>2 DEF Over, UnderWay, Connecting, Did
    <3> QED BY <3>1, <3>3, <3>4, <3>5, <3>6 DEF GotInStep
  <2> QED BY <2>1, <2>2
<1>2. ASSUME NEW c \in BrowserCalls, cdp[c].result = "ok"
      PROVE  cdp[c].acted + cdp[c].missed = Due(cdp[c].tool)
  <2>1. PICK tool \in Tools : tool = cdp[c].tool
    BY <1>1, <1>2
  <2>2. ScriptLike(Script(tool), EffectAt(tool), tool = "navigate")
    BY ScriptFacts
  <2>3. /\ DOMAIN Script(tool) = 1..Len(Script(tool)) /\ EffectAt(tool) \in 0..Len(Script(tool))
        /\ \A i \in 1..Len(Script(tool)) : Script(tool)[i].what \in Effects <=> i = EffectAt(tool)
        /\ Len(Script(tool)) \in Nat
    BY <2>2, Zenon DEF ScriptLike
  <2>4. (\E i \in DOMAIN Script(tool) : Script(tool)[i].what \in Effects) <=> EffectAt(tool) # 0
    <3>1. ASSUME EffectAt(tool) # 0 PROVE EffectAt(tool) \in 1..Len(Script(tool))
      BY <2>3, <3>1
    <3>2. ASSUME NEW i \in 1..Len(Script(tool)) PROVE i # 0
      OBVIOUS
    <3> QED BY <2>3, <3>1, <3>2
  <2>5. Due(tool) = IF EffectAt(tool) = 0 THEN 0 ELSE 1
    BY <2>4 DEF Due
  <2> QED BY <1>1, <1>2, <2>1, <2>5
<1>3. BrowserTypeOK
  BY <1>1 DEF BrowserInv, BrowserTypeOK
<1>4. ActedOnce
  BY <1>1, <1>2 DEF ActedOnce, Misses
<1>5. AnswersInStep
  BY <1>1 DEF AnswersInStep
<1> QED BY <1>3, <1>4, <1>5

-----------------------------------------------------------------------------
(* A step of the composition is a step or a stutter of every part.         *)
LEMMA PartsStep ==
    ASSUME [OutsideNext]_outsideVars
    PROVE  /\ [LspNext]_lspVars /\ [SandboxNext]_sandboxVars /\ [ChannelsNext]_channelVars
           /\ [McpNext]_mcpVars /\ [BrowserNext]_browserVars /\ [LoginNext]_loginVars
<1>1. CASE UNCHANGED outsideVars
  BY <1>1 DEF outsideVars, someVars, otherVars
<1>2. CASE OutsideNext
  BY <1>2, Zenon DEF OutsideNext, someVars, otherVars
<1> QED BY <1>1, <1>2

(* An answer from outside is taken by the call it answers, and what a call *)
(* asked for is not done twice, for any number of threads, callers, calls, *)
(* any tools and any bounds: a result of a language server is that of the  *)
(* request, whatever late answers are left in the pipe; an MCP caller gets *)
(* the answer to its id or a failure; what a browser call is to do         *)
(* reaches the page at most once, exactly once when it reports success     *)
(* (where it may have failed unseen), and the call is answered in step.    *)
THEOREM AnswersAreOwn == OutsideSpec => []OwnAnswers
<1>1. OutsideInit => LspInv /\ McpInv /\ BrowserInv
  BY LspInitInv, McpInitInv, BrowserInitInv DEF OutsideInit
<1>2. LspInv /\ McpInv /\ BrowserInv /\ [OutsideNext]_outsideVars => LspInv' /\ McpInv' /\ BrowserInv'
  BY PartsStep, LspNextKeeps, McpNextKeeps, BrowserNextKeeps
<1>3. LspInv /\ McpInv /\ BrowserInv => OwnAnswers
  BY LspInvKept, McpInvKept, BrowserInvKept DEF OwnAnswers
<1> QED BY <1>1, <1>2, <1>3, PTL DEF OutsideSpec

-----------------------------------------------------------------------------
(* The bots.  What a cursor, in memory, on disk or at the service, has     *)
(* passed was pushed if it was wanted; what a batch will pass was pushed   *)
(* or is still in it, in ascending order with Telegram, whose cursor moves *)
(* within the batch; what was seen in the window was pushed if wanted.     *)

BotRecords ==
    [at : {"poll", "handle", "sleep"}, cursor : Nat, batch : Seq(Nat), next : Nat, seen : SUBSET Nat]

Letters == [wanted : BOOLEAN, id : BOOLEAN]

Passed(c, f, e) == \A m \in 1..Len(f) : f[m].wanted /\ m <= c => m \in e

(* Messages with an id are pushed once and are in the window.              *)
Once(p, f, s) ==
    \A m \in 1..MaxMessages : p[m] # 0 =>
        m \in 1..Len(f) /\ (f[m].id => p[m] = 1 /\ m \in s)

Ascending(b) == \A i, j \in 1..Len(b) : i < j => b[i] < b[j]

Covered(b, f, e) ==
    /\ b.next <= Len(f)
    /\ \A i \in 1..Len(b.batch) : b.batch[i] \in 1..b.next
    /\ \A m \in 1..Len(f) : f[m].wanted /\ m <= b.next => m \in e \/ \E i \in 1..Len(b.batch) : b.batch[i] = m

ChannelTyped ==
    /\ kind \in {"telegram", "wechat"} /\ feed \in Seq(Letters) /\ Len(feed) <= MaxMessages
    /\ forgotten \in Nat /\ forgotten <= Len(feed)
    /\ bot \in BotRecords /\ bot.cursor <= Len(feed) /\ bot.seen \subseteq 1..Len(feed)
    /\ disk \in Nat /\ (disk = TORN \/ disk <= Len(feed))
    /\ pushed \in [1..MaxMessages -> Nat] /\ ever \subseteq 1..MaxMessages

ChannelPassed ==
    /\ Passed(bot.cursor, feed, ever) /\ Passed(forgotten, feed, ever)
    /\ Passed(load_cursor(disk), feed, ever)

ChannelBatch ==
    bot.at = "handle" =>
        Covered(bot, feed, ever) /\ (kind = "telegram" => Ascending(bot.batch))

ChannelSeen ==
    /\ \A m \in bot.seen : feed[m].wanted => m \in ever
    /\ ~aged => Once(pushed, feed, bot.seen)

ChannelInv == ChannelTyped /\ ChannelPassed /\ ChannelBatch /\ ChannelSeen

LEMMA MaxOfTwo ==
    ASSUME NEW a \in Nat, NEW b \in Nat
    PROVE  Max({a, b}) \in {a, b} /\ Max({a, b}) >= a /\ Max({a, b}) >= b
<1>1. \E x \in {a, b} : \A y \in {a, b} : x >= y
  <2>1. CASE a >= b
    BY <2>1
  <2>2. CASE ~(a >= b)
    BY <2>2
  <2> QED BY <2>1, <2>2
<1>2. Max({a, b}) \in {a, b} /\ \A y \in {a, b} : Max({a, b}) >= y
  BY <1>1, Zenon DEF Max
<1> QED BY <1>2

LEMMA MinOfTwo ==
    ASSUME NEW a \in Nat, NEW b \in Nat
    PROVE  Min({a, b}) \in {a, b} /\ Min({a, b}) <= a /\ Min({a, b}) <= b
<1>1. \E x \in {a, b} : \A y \in {a, b} : x <= y
  <2>1. CASE a <= b
    BY <2>1
  <2>2. CASE ~(a <= b)
    BY <2>2
  <2> QED BY <2>1, <2>2
<1>2. Min({a, b}) \in {a, b} /\ \A y \in {a, b} : Min({a, b}) <= y
  BY <1>1, Zenon DEF Min
<1> QED BY <1>2

(* Only the watch, or nothing, changes.                                    *)
LEMMA ChannelSameKeeps ==
    ASSUME ChannelInv, kind' = kind, feed' = feed, forgotten' = forgotten, bot' = bot, disk' = disk,
           pushed' = pushed, ever' = ever, aged' = aged
    PROVE  ChannelInv'
BY DEF ChannelInv, ChannelTyped, ChannelPassed, ChannelBatch, ChannelSeen, Passed, Covered, Ascending,
       load_cursor, TORN, Once

LEMMA SendMessageKeeps ==
    ASSUME ChannelInv, SendMessage
    PROVE  ChannelInv'
<1>1. PICK letter \in Letters : feed' = Append(feed, letter)
  BY DEF SendMessage, Letters
<1>2. /\ kind' = kind /\ forgotten' = forgotten /\ bot' = bot /\ disk' = disk /\ pushed' = pushed
      /\ ever' = ever /\ aged' = aged /\ Len(feed) < MaxMessages
  BY DEF SendMessage, botVars
<1>3. PICK f : f = feed'
  OBVIOUS
<1>4. /\ feed \in Seq(Letters) /\ Len(feed) \in Nat /\ f \in Seq(Letters) /\ Len(f) = Len(feed) + 1
      /\ \A m \in 1..Len(feed) : f[m] = feed[m]
  BY <1>1, <1>3 DEF ChannelInv, ChannelTyped
<1>5. MaxMessages \in Nat /\ bot \in BotRecords /\ bot.cursor \in Nat /\ bot.next \in Nat
      /\ bot.cursor <= Len(feed) /\ forgotten \in Nat /\ forgotten <= Len(feed)
      /\ disk \in Nat /\ bot.seen \subseteq 1..Len(feed)
  BY ChannelsAssumption DEF ChannelInv, ChannelTyped, BotRecords
<1>6. load_cursor(disk) \in Nat /\ load_cursor(disk) <= Len(feed)
  BY <1>4 DEF ChannelInv, ChannelTyped, load_cursor
<1>7. ASSUME NEW c \in Nat, c <= Len(feed), Passed(c, feed, ever) PROVE Passed(c, f, ever)
  <2> SUFFICES ASSUME NEW m \in 1..Len(f), f[m].wanted, m <= c PROVE m \in ever
    BY DEF Passed
  <2>1. m \in 1..Len(feed)
    BY <1>4, <1>7
  <2> QED BY <1>4, <1>7, <2>1 DEF Passed
<1>8. ChannelTyped'
  <2>1. bot.seen \subseteq 1..Len(f) /\ bot.cursor <= Len(f) /\ forgotten <= Len(f)
        /\ (disk = TORN \/ disk <= Len(f)) /\ Len(f) <= MaxMessages
    BY <1>2, <1>4, <1>5 DEF ChannelInv, ChannelTyped
  <2>2. disk' = TORN' \/ disk' <= Len(f)
    BY <1>2, <2>1 DEF TORN
  <2> QED BY <1>2, <1>3, <1>4, <2>1, <2>2 DEF ChannelInv, ChannelTyped
<1>9. ChannelPassed'
  <2>1. Passed(bot.cursor, f, ever) /\ Passed(forgotten, f, ever) /\ Passed(load_cursor(disk), f, ever)
    BY <1>5, <1>6, <1>7 DEF ChannelInv, ChannelPassed
  <2>2. load_cursor(disk)' = load_cursor(disk)
    BY <1>2 DEF load_cursor, TORN
  <2> QED BY <1>2, <1>3, <2>1, <2>2 DEF ChannelPassed, Passed
<1>10. ChannelBatch'
  <2> SUFFICES ASSUME bot.at = "handle" PROVE Covered(bot, f, ever) /\ (kind = "telegram" => Ascending(bot.batch))
    BY <1>2, <1>3 DEF ChannelBatch, Covered, Ascending
  <2>1. Covered(bot, feed, ever) /\ (kind = "telegram" => Ascending(bot.batch))
    BY DEF ChannelInv, ChannelBatch
  <2>2. ASSUME NEW m \in 1..Len(f), f[m].wanted, m <= bot.next
        PROVE  m \in ever \/ \E i \in 1..Len(bot.batch) : bot.batch[i] = m
    <3>1. m \in 1..Len(feed)
      BY <1>4, <1>5, <2>1, <2>2 DEF Covered
    <3> QED BY <1>4, <2>1, <2>2, <3>1 DEF Covered
  <2>3. bot.next <= Len(f)
    BY <1>4, <1>5, <2>1 DEF Covered
  <2> QED BY <2>1, <2>2, <2>3 DEF Covered
<1>11. ChannelSeen'
  <2>1. \A m \in bot.seen : f[m].wanted => m \in ever
    BY <1>4, <1>5 DEF ChannelInv, ChannelSeen
  <2>2. ~aged => Once(pushed, f, bot.seen)
    BY <1>4 DEF ChannelInv, ChannelSeen, Once
  <2> QED BY <1>2, <1>3, <2>1, <2>2 DEF ChannelInv, ChannelSeen, Once
<1> QED BY <1>8, <1>9, <1>10, <1>11 DEF ChannelInv

(* The bot moves; messages stay as they are.                               *)
BotMoves(b, e) ==
    /\ bot' = b /\ ever' = e /\ kind' = kind /\ feed' = feed
    /\ b \in BotRecords /\ b.cursor <= Len(feed) /\ b.seen \subseteq 1..Len(feed)
    /\ e \subseteq 1..MaxMessages /\ ever \subseteq e
    /\ forgotten' \in Nat /\ forgotten' <= Len(feed) /\ Passed(forgotten', feed, e)
    /\ Passed(b.cursor, feed, e)
    /\ disk' \in Nat /\ (disk' = TORN \/ (disk' <= Len(feed) /\ Passed(disk', feed, e)))
    /\ pushed' \in [1..MaxMessages -> Nat]
    /\ b.at = "handle" => Covered(b, feed, e) /\ (kind = "telegram" => Ascending(b.batch))
    /\ \A m \in b.seen : feed[m].wanted => m \in e
    /\ ~aged' => Once(pushed', feed, b.seen)

LEMMA BotMovesKeeps ==
    ASSUME ChannelInv, NEW b, NEW e, BotMoves(b, e)
    PROVE  ChannelInv'
<1>1. TORN' = TORN
  BY DEF TORN
<1>2. ChannelTyped'
  BY <1>1 DEF ChannelInv, ChannelTyped, BotMoves
<1>3. Passed(load_cursor(disk'), feed, e)
  <2>1. CASE disk' = TORN
    <3>1. load_cursor(disk') = 0
      BY <2>1 DEF load_cursor
    <3>2. Passed(0, feed, e)
      BY DEF Passed
    <3> QED BY <3>1, <3>2
  <2>2. CASE disk' # TORN
    <3>1. load_cursor(disk') = disk'
      BY <2>2 DEF load_cursor
    <3> QED BY <2>2, <3>1 DEF BotMoves
  <2> QED BY <2>1, <2>2
<1>4. ChannelPassed'
  <2>1. load_cursor(disk)' = load_cursor(disk')
    BY DEF load_cursor, TORN
  <2> QED BY <1>3, <2>1 DEF ChannelPassed, BotMoves, Passed
<1>5. ChannelBatch'
  BY DEF ChannelBatch, BotMoves, Covered, Ascending
<1>6. ChannelSeen'
  BY DEF ChannelSeen, BotMoves, Once
<1> QED BY <1>2, <1>4, <1>5, <1>6 DEF ChannelInv

(* What the steps of the bot start from.                                   *)
BotFrom ==
    /\ feed \in Seq(Letters) /\ Len(feed) \in Nat /\ Len(feed) <= MaxMessages /\ MaxMessages \in Nat
    /\ forgotten \in Nat /\ forgotten <= Len(feed) /\ Passed(forgotten, feed, ever)
    /\ bot \in BotRecords /\ bot.cursor \in Nat /\ bot.cursor <= Len(feed) /\ bot.seen \subseteq 1..Len(feed)
    /\ bot.next \in Nat /\ bot.batch \in Seq(Nat) /\ Passed(bot.cursor, feed, ever)
    /\ disk \in Nat /\ (disk = TORN \/ (disk <= Len(feed) /\ Passed(disk, feed, ever)))
    /\ pushed \in [1..MaxMessages -> Nat] /\ ever \subseteq 1..MaxMessages
    /\ bot.at = "handle" => Covered(bot, feed, ever) /\ (kind = "telegram" => Ascending(bot.batch))
    /\ \A m \in bot.seen : feed[m].wanted => m \in ever
    /\ ~aged => Once(pushed, feed, bot.seen)
    /\ TORN \in Nat /\ Passed(0, feed, ever)

LEMMA BotFromInv == ChannelInv => BotFrom
<1> SUFFICES ASSUME ChannelInv PROVE BotFrom
  OBVIOUS
<1>1. /\ feed \in Seq(Letters) /\ Len(feed) \in Nat /\ Len(feed) <= MaxMessages /\ MaxMessages \in Nat
      /\ forgotten \in Nat /\ forgotten <= Len(feed) /\ bot \in BotRecords /\ bot.cursor <= Len(feed)
      /\ bot.seen \subseteq 1..Len(feed) /\ disk \in Nat /\ (disk = TORN \/ disk <= Len(feed))
      /\ pushed \in [1..MaxMessages -> Nat] /\ ever \subseteq 1..MaxMessages /\ TORN \in Nat
  BY ChannelsAssumption DEF ChannelInv, ChannelTyped, TORN
<1>2. bot.cursor \in Nat /\ bot.next \in Nat /\ bot.batch \in Seq(Nat)
  BY <1>1 DEF BotRecords
<1>3. disk # TORN => Passed(disk, feed, ever)
  BY DEF ChannelInv, ChannelPassed, load_cursor
<1>4. Passed(0, feed, ever)
  BY DEF Passed
<1>5. Passed(forgotten, feed, ever) /\ Passed(bot.cursor, feed, ever)
  BY DEF ChannelInv, ChannelPassed
<1>6. bot.at = "handle" => Covered(bot, feed, ever) /\ (kind = "telegram" => Ascending(bot.batch))
  BY DEF ChannelInv, ChannelBatch
<1>7. /\ \A m \in bot.seen : feed[m].wanted => m \in ever
      /\ ~aged => Once(pushed, feed, bot.seen)
  BY DEF ChannelInv, ChannelSeen
<1> QED BY <1>1, <1>2, <1>3, <1>4, <1>5, <1>6, <1>7 DEF BotFrom

LEMMA AnswerKeeps ==
    ASSUME ChannelInv, Answer
    PROVE  ChannelInv'
<1>0. BotFrom
  BY BotFromInv
<1> DEFINE from == IF bot.cursor > forgotten THEN bot.cursor ELSE forgotten
<1>1. /\ forgotten' = from
      /\ \E upto \in (from + 1)..Len(feed) :
         \E repeated \in {<<>>} \cup (IF kind = "wechat" THEN {<<m>> : m \in 1..from} ELSE {}) :
             bot' = [bot EXCEPT !.at = "handle", !.next = upto,
                            !.batch = repeated \o [i \in 1..(upto - from) |-> from + i]]
  BY DEF Answer
<1>2. from \in Nat /\ from <= Len(feed) /\ Passed(from, feed, ever)
  BY <1>0 DEF BotFrom
<1> HIDE DEF from
<1>3. PICK upto \in (from + 1)..Len(feed),
           repeated \in {<<>>} \cup (IF kind = "wechat" THEN {<<m>> : m \in 1..from} ELSE {}) :
          bot' = [bot EXCEPT !.at = "handle", !.next = upto,
                         !.batch = repeated \o [i \in 1..(upto - from) |-> from + i]]
  BY <1>1
<1>4. PICK fresh : fresh = [i \in 1..(upto - from) |-> from + i]
  OBVIOUS
<1>5. upto \in Nat /\ upto > from /\ upto <= Len(feed) /\ upto - from \in Nat
  BY <1>0, <1>2 DEF BotFrom
<1>6. fresh \in Seq(Nat) /\ Len(fresh) = upto - from /\ \A i \in 1..(upto - from) : fresh[i] = from + i
  <2>1. \A i \in 1..(upto - from) : from + i \in Nat
    BY <1>2, <1>5
  <2>2. fresh \in [1..(upto - from) -> Nat]
    BY <1>4, <2>1
  <2>3. fresh \in Seq(Nat)
    BY <1>5, <2>2, SeqDef
  <2> QED BY <1>4, <1>5, <2>2, <2>3, LenProperties
<1>7. /\ repeated \in Seq(Nat) /\ Len(repeated) \in Nat
      /\ \A i \in 1..Len(repeated) : repeated[i] \in 1..from
      /\ kind = "telegram" => repeated = <<>>
  <2>1. CASE repeated = <<>>
    BY <2>1
  <2>2. CASE repeated # <<>>
    <3>1. kind = "wechat" /\ \E m \in 1..from : repeated = <<m>>
      BY <2>2
    <3>2. PICK m \in 1..from : repeated = <<m>>
      BY <3>1
    <3> QED BY <1>2, <3>1, <3>2
  <2> QED BY <2>1, <2>2
<1>8. PICK batch : batch = repeated \o fresh
  OBVIOUS
<1>9. /\ batch \in Seq(Nat) /\ Len(batch) = Len(repeated) + (upto - from)
      /\ \A i \in 1..Len(repeated) : batch[i] = repeated[i]
      /\ \A i \in 1..(upto - from) : batch[Len(repeated) + i] = from + i
  <2>1. repeated \in Seq(Nat) /\ fresh \in Seq(Nat)
    BY <1>6, <1>7
  <2>2. /\ batch \in Seq(Nat) /\ Len(batch) = Len(repeated) + Len(fresh)
        /\ \A i \in 1..Len(repeated) : batch[i] = repeated[i]
        /\ \A i \in 1..Len(fresh) : batch[Len(repeated) + i] = fresh[i]
    BY <1>8, <2>1
  <2> QED BY <1>6, <2>2
<1>10. PICK b : b = [bot EXCEPT !.at = "handle", !.next = upto, !.batch = batch]
  OBVIOUS
<1>11. /\ b \in BotRecords /\ b.at = "handle" /\ b.next = upto /\ b.batch = batch /\ b.cursor = bot.cursor
       /\ b.seen = bot.seen
  BY <1>0, <1>5, <1>9, <1>10 DEF BotFrom, BotRecords
<1>12. Covered(b, feed, ever)
  <2>1. ASSUME NEW i \in 1..Len(batch) PROVE batch[i] \in 1..upto
    <3>1. CASE i \in 1..Len(repeated)
      <4>1. PICK m \in 1..from : m = batch[i]
        BY <1>7, <1>9, <3>1
      <4>2. m \in 1..upto
        BY <1>2, <1>5
      <4> QED BY <4>1, <4>2
    <3>2. CASE i \notin 1..Len(repeated)
      <4>1. PICK j : j = i - Len(repeated)
        OBVIOUS
      <4>2. j \in 1..(upto - from) /\ i = Len(repeated) + j
        BY <1>5, <1>7, <1>9, <3>2, <4>1
      <4>3. batch[i] = from + j
        BY <1>9, <4>2
      <4> QED BY <1>2, <1>5, <4>2, <4>3
    <3> QED BY <3>1, <3>2
  <2>2. ASSUME NEW m \in 1..Len(feed), feed[m].wanted, m <= upto
        PROVE  m \in ever \/ \E i \in 1..Len(batch) : batch[i] = m
    <3>1. CASE m <= from
      BY <1>2, <2>2, <3>1 DEF Passed
    <3>2. CASE ~(m <= from)
      <4>1. m - from \in 1..(upto - from) /\ from + (m - from) = m
        BY <1>0, <1>2, <1>5, <2>2, <3>2 DEF BotFrom
      <4>2. batch[Len(repeated) + (m - from)] = m
        BY <1>9, <4>1
      <4>3. Len(repeated) + (m - from) \in 1..Len(batch)
        BY <1>5, <1>7, <1>9, <4>1, SMTT(40)
      <4> QED BY <4>2, <4>3
    <3> QED BY <3>1, <3>2
  <2> QED BY <1>5, <1>11, <2>1, <2>2 DEF Covered
<1>13. kind = "telegram" => Ascending(b.batch)
  <2> SUFFICES ASSUME kind = "telegram", NEW i \in 1..Len(batch), NEW j \in 1..Len(batch), i < j
               PROVE  batch[i] < batch[j]
    BY <1>11 DEF Ascending
  <2>1. Len(repeated) = 0 /\ Len(batch) = upto - from
    BY <1>5, <1>7, <1>9
  <2>2. batch[i] = from + i /\ batch[j] = from + j
    BY <1>9, <2>1
  <2> QED BY <1>2, <1>5, <2>1, <2>2
<1>14. BotMoves(b, ever)
  <2>1. bot' = b
    BY <1>3, <1>4, <1>8, <1>10
  <2>2. /\ forgotten' = from /\ kind' = kind /\ feed' = feed /\ disk' = disk /\ pushed' = pushed
        /\ ever' = ever /\ aged' = aged
    BY <1>1 DEF Answer
  <2> QED BY <1>0, <1>2, <1>11, <1>12, <1>13, <2>1, <2>2 DEF BotMoves, BotFrom
<1> QED BY <1>14, BotMovesKeeps

(* The bot sleeps, wakes, or forgets its session.                          *)
LEMMA BotRestsKeeps ==
    ASSUME ChannelInv, PollFails \/ Wake \/ SessionExpired
    PROVE  ChannelInv'
<1>0. BotFrom
  BY BotFromInv
<1>1. PICK at \in {"poll", "sleep"}, c \in {0, bot.cursor} : bot' = [bot EXCEPT !.at = at, !.cursor = c]
  <2>1. bot \in BotRecords
    BY <1>0 DEF BotFrom
  <2>2. CASE PollFails \/ Wake
    <3>1. PICK at \in {"poll", "sleep"} : bot' = [bot EXCEPT !.at = at]
      BY <2>2 DEF PollFails, Wake
    <3>2. bot' = [bot EXCEPT !.at = at, !.cursor = bot.cursor]
      BY <2>1, <3>1 DEF BotRecords
    <3> QED BY <3>2
  <2>3. CASE SessionExpired
    BY <2>3 DEF SessionExpired
  <2> QED BY <2>2, <2>3
<1>2. PICK b : b = [bot EXCEPT !.at = at, !.cursor = c]
  OBVIOUS
<1>3. c \in Nat /\ c <= Len(feed) /\ Passed(c, feed, ever)
  BY <1>0 DEF BotFrom
<1>4. b \in BotRecords /\ b.at = at /\ b.cursor = c /\ b.seen = bot.seen
  BY <1>0, <1>2, <1>3 DEF BotFrom, BotRecords
<1>5. /\ forgotten' = forgotten /\ kind' = kind /\ feed' = feed /\ disk' \in {disk, 0, TORN}
      /\ pushed' = pushed /\ ever' = ever /\ aged' = aged
  BY DEF PollFails, Wake, SessionExpired, save_sync_buf
<1>6. disk' \in Nat /\ (disk' = TORN \/ (disk' <= Len(feed) /\ Passed(disk', feed, ever)))
  BY <1>0, <1>5 DEF BotFrom
<1>7. BotMoves(b, ever)
  BY <1>0, <1>1, <1>2, <1>3, <1>4, <1>5, <1>6 DEF BotMoves, BotFrom
<1> QED BY <1>7, BotMovesKeeps

LEMMA HandleMessageKeeps ==
    ASSUME ChannelInv, handle_message
    PROVE  ChannelInv'
<1>0. BotFrom
  BY BotFromInv
<1>1. PICK m : m = Head(bot.batch)
  OBVIOUS
<1>2. PICK rest : rest = Tail(bot.batch)
  OBVIOUS
<1>3. /\ bot.at = "handle" /\ bot.batch # <<>> /\ bot.batch \in Seq(Nat) /\ Covered(bot, feed, ever)
      /\ kind = "telegram" => Ascending(bot.batch)
  BY <1>0 DEF handle_message, BotFrom
<1>4. /\ rest \in Seq(Nat) /\ Len(rest) = Len(bot.batch) - 1 /\ Len(rest) \in Nat /\ m = bot.batch[1]
      /\ 1 \in 1..Len(bot.batch)
      /\ \A i \in 1..Len(rest) : rest[i] = bot.batch[i + 1] /\ i + 1 \in 1..Len(bot.batch)
  BY <1>1, <1>2, <1>3
<1>5. m \in 1..bot.next /\ bot.next <= Len(feed) /\ bot.next \in Nat
  BY <1>0, <1>3, <1>4 DEF Covered, BotFrom
<1>6. m \in Nat /\ m \in 1..Len(feed) /\ m \in 1..MaxMessages
  BY <1>0, <1>5 DEF BotFrom
<1>7. PICK e : e = IF m \notin bot.seen /\ feed[m].wanted THEN ever \cup {m} ELSE ever
  OBVIOUS
<1>8. ever \subseteq e /\ e \subseteq 1..MaxMessages /\ (feed[m].wanted => m \in e)
  BY <1>0, <1>6, <1>7 DEF BotFrom
<1>9. PICK seen : seen = IF feed[m].id THEN bot.seen \cup {m} ELSE bot.seen
  OBVIOUS
<1>10. PICK c : c = IF kind = "telegram" THEN Max({bot.cursor, m}) ELSE bot.cursor
  OBVIOUS
<1>11. c \in {bot.cursor, m} /\ (c = m => c = bot.cursor \/ kind = "telegram")
  BY <1>0, <1>6, <1>10, MaxOfTwo DEF BotFrom
<1>12. PICK b : b = [bot EXCEPT !.batch = rest, !.seen = seen, !.cursor = c]
  OBVIOUS
<1>13. c \in Nat /\ c <= Len(feed) /\ seen \subseteq 1..Len(feed) /\ seen \in SUBSET Nat
  BY <1>0, <1>6, <1>9, <1>11 DEF BotFrom
<1>14. /\ b \in BotRecords /\ b.at = "handle" /\ b.next = bot.next /\ b.batch = rest /\ b.cursor = c
       /\ b.seen = seen
  BY <1>0, <1>3, <1>4, <1>12, <1>13 DEF BotFrom, BotRecords
<1>15. Covered(b, feed, e)
  <2>1. ASSUME NEW i \in 1..Len(rest) PROVE rest[i] \in 1..bot.next
    BY <1>3, <1>4 DEF Covered
  <2>2. ASSUME NEW w \in 1..Len(feed), feed[w].wanted, w <= bot.next
        PROVE  w \in e \/ \E i \in 1..Len(rest) : rest[i] = w
    <3>1. CASE w \in ever \/ w = m
      BY <1>8, <2>2, <3>1
    <3>2. CASE ~(w \in ever \/ w = m)
      <4>1. PICK i \in 1..Len(bot.batch) : bot.batch[i] = w
        BY <1>3, <2>2, <3>2 DEF Covered
      <4>2. i # 1
        BY <1>4, <3>2, <4>1
      <4>3. i - 1 \in 1..Len(rest) /\ (i - 1) + 1 = i
        BY <1>3, <1>4, <4>2
      <4>4. rest[i - 1] = w
        BY <1>4, <4>1, <4>3
      <4> QED BY <4>3, <4>4
    <3> QED BY <3>1, <3>2
  <2> QED BY <1>5, <1>14, <2>1, <2>2 DEF Covered
<1>16. kind = "telegram" => Ascending(rest)
  <2> SUFFICES ASSUME kind = "telegram", NEW i \in 1..Len(rest), NEW j \in 1..Len(rest), i < j
               PROVE  rest[i] < rest[j]
    BY DEF Ascending
  <2>1. i + 1 \in 1..Len(bot.batch) /\ j + 1 \in 1..Len(bot.batch) /\ i + 1 < j + 1
    BY <1>4
  <2>2. bot.batch[i + 1] < bot.batch[j + 1]
    BY <1>3, <2>1 DEF Ascending
  <2> QED BY <1>4, <2>2
<1>17. Passed(c, feed, e)
  <2> SUFFICES ASSUME NEW w \in 1..Len(feed), feed[w].wanted, w <= c PROVE w \in e
    BY DEF Passed
  <2>1. CASE c = bot.cursor
    BY <1>0, <1>8, <2>1 DEF Passed, BotFrom
  <2>2. CASE c # bot.cursor
    <3>1. c = m /\ kind = "telegram"
      BY <1>11, <2>2
    <3>2. CASE w \in ever
      BY <1>8, <3>2
    <3>3. CASE w \notin ever
      <4>1. w <= bot.next
        BY <1>5, <3>1
      <4>2. PICK i \in 1..Len(bot.batch) : bot.batch[i] = w
        BY <1>3, <3>3, <4>1 DEF Covered
      <4>3. i = 1
        <5> SUFFICES ASSUME i # 1 PROVE FALSE
          OBVIOUS
        <5>1. 1 < i
          OBVIOUS
        <5>2. bot.batch[1] < bot.batch[i]
          BY <1>3, <1>4, <3>1, <4>2, <5>1 DEF Ascending
        <5> QED BY <1>4, <1>6, <3>1, <4>2, <5>2
      <4> QED BY <1>4, <1>8, <4>2, <4>3
    <3> QED BY <3>2, <3>3
  <2> QED BY <2>1, <2>2
<1>18. /\ bot' = b /\ ever' = e /\ kind' = kind /\ feed' = feed /\ forgotten' = forgotten /\ disk' = disk
       /\ aged' = aged
       /\ pushed' = IF m \notin bot.seen /\ feed[m].wanted THEN [pushed EXCEPT ![m] = Min({@ + 1, Often})] ELSE pushed
  BY <1>1, <1>2, <1>7, <1>9, <1>10, <1>12, Zenon DEF handle_message, Remember
<1>19. pushed' \in [1..MaxMessages -> Nat] /\ (~aged => Once(pushed', feed, seen))
  <2>1. pushed \in [1..MaxMessages -> Nat] /\ pushed[m] \in Nat
    BY <1>0, <1>6 DEF BotFrom
  <2>2. CASE m \notin bot.seen /\ feed[m].wanted
    <3>1. PICK n : n = Min({pushed[m] + 1, Often})
      OBVIOUS
    <3>2. pushed' = [pushed EXCEPT ![m] = n]
      BY <1>18, <2>2, <3>1
    <3>3. n \in Nat /\ n # 0 /\ (pushed[m] = 0 => n = 1)
      <4>1. pushed[m] + 1 \in Nat /\ Often \in Nat /\ Often = 2
        BY <2>1 DEF Often
      <4>2. n \in {pushed[m] + 1, Often} /\ n <= pushed[m] + 1
        BY <3>1, <4>1, MinOfTwo
      <4> QED BY <2>1, <4>1, <4>2
    <3>4. ~aged /\ feed[m].id => pushed[m] = 0
      BY <1>0, <1>6, <2>2 DEF BotFrom, Once
    <3>5. ASSUME ~aged, NEW w \in 1..MaxMessages, pushed'[w] # 0
          PROVE  w \in 1..Len(feed) /\ (feed[w].id => pushed'[w] = 1 /\ w \in seen)
      <4>1. CASE w = m
        BY <1>6, <1>9, <2>1, <3>2, <3>3, <3>4, <3>5, <4>1
      <4>2. CASE w # m
        <5>1. pushed'[w] = pushed[w]
          BY <2>1, <3>2, <4>2
        <5> QED BY <1>0, <1>9, <3>5, <5>1 DEF BotFrom, Once
      <4> QED BY <4>1, <4>2
    <3>6. pushed' \in [1..MaxMessages -> Nat]
      BY <2>1, <3>2, <3>3
    <3> QED BY <3>5, <3>6 DEF Once
  <2>3. CASE ~(m \notin bot.seen /\ feed[m].wanted)
    <3>1. pushed' = pushed
      BY <1>18, <2>3
    <3> QED BY <1>0, <1>9, <3>1 DEF BotFrom, Once
  <2> QED BY <2>2, <2>3
<1>20. \A w \in seen : feed[w].wanted => w \in e
  BY <1>0, <1>8, <1>9 DEF BotFrom
<1>21. Passed(forgotten, feed, e) /\ (disk = TORN \/ (disk <= Len(feed) /\ Passed(disk, feed, e)))
  BY <1>0, <1>8 DEF BotFrom, Passed
<1>22. BotMoves(b, e)
  BY <1>0, <1>8, <1>13, <1>14, <1>15, <1>16, <1>17, <1>18, <1>19, <1>20, <1>21 DEF BotMoves, BotFrom
<1> QED BY <1>22, BotMovesKeeps

LEMMA SaveCursorKeeps ==
    ASSUME ChannelInv, SaveCursor
    PROVE  ChannelInv'
<1>0. BotFrom
  BY BotFromInv
<1>1. bot.at = "handle" /\ bot.batch = <<>> /\ Covered(bot, feed, ever)
  BY <1>0 DEF SaveCursor, BotFrom
<1>2. bot.next \in Nat /\ bot.next <= Len(feed) /\ Passed(bot.next, feed, ever)
  BY <1>0, <1>1 DEF Covered, Passed, BotFrom
<1>3. PICK c \in {bot.cursor, bot.next} : bot' = [bot EXCEPT !.at = "poll", !.cursor = c]
  <2>1. PICK c : c = IF kind = "telegram" THEN bot.cursor ELSE bot.next
    OBVIOUS
  <2>2. CASE bot' = [bot EXCEPT !.at = "poll", !.cursor = c]
    BY <2>1, <2>2
  <2>3. CASE bot' = [bot EXCEPT !.at = "poll"]
    <3>1. bot' = [bot EXCEPT !.at = "poll", !.cursor = bot.cursor]
      BY <1>0, <2>3 DEF BotFrom, BotRecords
    <3> QED BY <3>1
  <2> QED BY <2>1, <2>2, <2>3 DEF SaveCursor
<1>4. PICK b : b = [bot EXCEPT !.at = "poll", !.cursor = c]
  OBVIOUS
<1>5. c \in Nat /\ c <= Len(feed) /\ Passed(c, feed, ever)
  BY <1>0, <1>2 DEF BotFrom
<1>6. b \in BotRecords /\ b.at = "poll" /\ b.cursor = c /\ b.seen = bot.seen
  BY <1>0, <1>4, <1>5 DEF BotFrom, BotRecords
<1>7. /\ forgotten' = forgotten /\ kind' = kind /\ feed' = feed /\ disk' \in {bot.next, disk, TORN}
      /\ pushed' = pushed /\ ever' = ever /\ aged' = aged
  BY DEF SaveCursor, save_cursor, save_sync_buf
<1>8. disk' \in Nat /\ (disk' = TORN \/ (disk' <= Len(feed) /\ Passed(disk', feed, ever)))
  BY <1>0, <1>2, <1>7 DEF BotFrom
<1>9. BotMoves(b, ever)
  BY <1>0, <1>3, <1>4, <1>5, <1>6, <1>7, <1>8 DEF BotMoves, BotFrom
<1> QED BY <1>9, BotMovesKeeps

LEMMA AgeKeeps ==
    ASSUME ChannelInv, Age
    PROVE  ChannelInv'
<1>0. BotFrom
  BY BotFromInv
<1>1. PICK b : b = [bot EXCEPT !.seen = {}]
  OBVIOUS
<1>2. /\ b \in BotRecords /\ b.at = bot.at /\ b.cursor = bot.cursor /\ b.seen = {} /\ b.batch = bot.batch
      /\ b.next = bot.next
  BY <1>0, <1>1 DEF BotFrom, BotRecords
<1>3. /\ bot' = b /\ aged' /\ forgotten' = forgotten /\ kind' = kind /\ feed' = feed /\ disk' = disk
      /\ pushed' = pushed /\ ever' = ever
  BY <1>1 DEF Age
<1>4. b.at = "handle" => Covered(b, feed, ever) /\ (kind = "telegram" => Ascending(b.batch))
  BY <1>0, <1>2 DEF BotFrom, Covered
<1>5. BotMoves(b, ever)
  BY <1>0, <1>2, <1>3, <1>4 DEF BotMoves, BotFrom
<1> QED BY <1>5, BotMovesKeeps

LEMMA CrashKeeps ==
    ASSUME ChannelInv, Crash
    PROVE  ChannelInv'
<1>0. BotFrom
  BY BotFromInv
<1>1. disk' \in {disk, TORN}
  BY DEF Crash
<1>2. disk' \in Nat /\ (disk' = TORN \/ (disk' <= Len(feed) /\ Passed(disk', feed, ever)))
  BY <1>0, <1>1 DEF BotFrom
<1>3. PICK c : c = load_cursor(disk')
  OBVIOUS
<1>4. c \in Nat /\ c <= Len(feed) /\ Passed(c, feed, ever)
  BY <1>0, <1>2, <1>3 DEF load_cursor, BotFrom
<1>5. PICK b : b = NewBot(c)
  OBVIOUS
<1>6. b \in BotRecords /\ b.at = "poll" /\ b.cursor = c /\ b.seen = {}
  <2>1. <<>> \in Seq(Nat)
    OBVIOUS
  <2> QED BY <1>4, <1>5, <2>1 DEF NewBot, BotRecords
<1>7. /\ bot' = b /\ forgotten' = forgotten /\ kind' = kind /\ feed' = feed /\ ever' = ever
      /\ pushed' = [m \in 1..MaxMessages |-> 0]
  BY <1>3, <1>5 DEF Crash
<1>8. pushed' \in [1..MaxMessages -> Nat] /\ \A m \in 1..MaxMessages : pushed'[m] = 0
  BY <1>7
<1>9. BotMoves(b, ever)
  BY <1>0, <1>2, <1>4, <1>6, <1>7, <1>8 DEF BotMoves, BotFrom, Once
<1> QED BY <1>9, BotMovesKeeps

LEMMA ChannelNextKeeps == ChannelInv /\ [ChannelsNext]_channelVars => ChannelInv'
<1> SUFFICES ASSUME ChannelInv, [ChannelsNext]_channelVars PROVE ChannelInv'
  OBVIOUS
<1>1. CASE FlushPending \/ FileEvent \/ UNCHANGED channelVars
  <2>1. /\ kind' = kind /\ feed' = feed /\ forgotten' = forgotten /\ bot' = bot /\ disk' = disk
        /\ pushed' = pushed /\ ever' = ever /\ aged' = aged
    BY <1>1 DEF FlushPending, FileEvent, channelVars, botVars
  <2> QED BY <2>1, ChannelSameKeeps
<1>2. CASE PollFails \/ Wake \/ SessionExpired
  BY <1>2, BotRestsKeeps
<1>3. CASE Answer \/ handle_message \/ SaveCursor \/ SendMessage \/ Age \/ Crash
  BY <1>3, AnswerKeeps, HandleMessageKeeps, SaveCursorKeeps, SendMessageKeeps, AgeKeeps, CrashKeeps
<1> QED BY <1>1, <1>2, <1>3 DEF ChannelsNext, ChannelsFair, WatchFair

LEMMA ChannelInitInv == ChannelsInit => ChannelInv
<1> SUFFICES ASSUME ChannelsInit PROVE ChannelInv
  OBVIOUS
<1>1. /\ kind \in {"telegram", "wechat"} /\ feed = <<>> /\ forgotten = 0 /\ bot = NewBot(0) /\ disk = 0
      /\ pushed = [m \in 1..MaxMessages |-> 0] /\ ever = {}
  BY DEF ChannelsInit
<1>2. bot \in BotRecords /\ bot.at = "poll" /\ bot.cursor = 0 /\ bot.seen = {}
  <2>1. <<>> \in Seq(Nat)
    OBVIOUS
  <2> QED BY <1>1, <2>1 DEF NewBot, BotRecords
<1>3. pushed \in [1..MaxMessages -> Nat] /\ \A m \in 1..MaxMessages : pushed[m] = 0
  BY <1>1
<1>4. feed \in Seq(Letters) /\ Len(feed) = 0 /\ MaxMessages \in Nat
  BY <1>1, ChannelsAssumption
<1>5. ChannelTyped
  BY <1>1, <1>2, <1>3, <1>4 DEF ChannelTyped
<1>6. ChannelPassed
  BY <1>4 DEF ChannelPassed, Passed
<1>7. ChannelBatch /\ ChannelSeen
  BY <1>2, <1>3 DEF ChannelBatch, ChannelSeen, Once
<1> QED BY <1>5, <1>6, <1>7 DEF ChannelInv

LEMMA ChannelInvKept == ChannelInv => ChannelsTypeOK /\ NothingSkipped /\ OncePerWindow
<1> SUFFICES ASSUME ChannelInv PROVE ChannelsTypeOK /\ NothingSkipped /\ OncePerWindow
  OBVIOUS
<1>0. BotFrom
  BY BotFromInv
<1>1. feed \in UNION {[1..n -> Letters] : n \in 0..MaxMessages}
  <2>1. feed \in [1..Len(feed) -> Letters] /\ Len(feed) \in 0..MaxMessages
    BY <1>0 DEF BotFrom
  <2> QED BY <2>1
<1>2. bot.at \in {"poll", "handle", "sleep"} /\ bot.cursor \in 0..MaxMessages
  BY <1>0 DEF BotFrom, BotRecords
<1>3. disk \in 0..TORN
  BY <1>0 DEF BotFrom, TORN
<1>4. ChannelsTypeOK
  BY <1>0, <1>1, <1>2, <1>3 DEF ChannelsTypeOK, BotFrom, Letters
<1>5. NothingSkipped
  BY DEF ChannelInv, ChannelPassed, Passed, NothingSkipped
<1>6. OncePerWindow
  <2> SUFFICES ASSUME ~aged, NEW m \in 1..Len(feed), feed[m].id PROVE pushed[m] <= 1
    BY DEF OncePerWindow
  <2>1. m \in 1..MaxMessages
    BY <1>0 DEF BotFrom
  <2>2. pushed[m] \in Nat /\ (pushed[m] # 0 => pushed[m] = 1)
    BY <1>0, <2>1 DEF BotFrom, Once
  <2> QED BY <2>2
<1> QED BY <1>4, <1>5, <1>6

-----------------------------------------------------------------------------
(* The login.  The code that is polled is the one on the screen; every     *)
(* earlier one has expired, and so has this one when another is asked for. *)

LoginRecords ==
    [at : {"fetch", "poll", "told", "failed", "timed out", "expired", "done"}, code : Nat, screen : Nat,
     refreshes : Nat, answer : {"wait", "scaned", "expired", "confirmed", "incomplete"}]

CodeStates == {"open", "scaned", "confirmed", "expired"}

LoginTyped ==
    /\ login \in LoginRecords /\ codes \in Seq(CodeStates) /\ account \in Nat
    /\ login.code = login.screen /\ login.code <= Len(codes)

EarlierExpired == \A c \in 1..Len(codes) : c # login.code => codes[c] = "expired"

Gone == login.code # 0 => codes[login.code] = "expired"

LoginAt ==
    /\ login.at = "fetch" => Gone
    /\ login.at = "told" /\ login.answer = "expired" => Gone
    /\ login.at = "told" /\ login.answer \in {"confirmed", "incomplete"} =>
          login.code # 0 /\ codes[login.code] = "confirmed"
    /\ login.at = "expired" => Gone /\ login.refreshes > MaxRefreshes
    /\ account # 0 => login.at = "done" /\ account = login.code /\ codes[account] = "confirmed"

LoginInv == LoginTyped /\ EarlierExpired /\ LoginAt

(* The command moves on, with the same code on the screen.                 *)
LEMMA LoginMovesKeeps ==
    ASSUME LoginInv, NEW l \in LoginRecords, login' = l, codes' = codes, account' \in {account, login.code},
           l.code = login.code, l.screen = login.screen, login.at \in {"poll", "told"},
           l.at = "fetch" => Gone,
           l.at = "told" /\ l.answer = "expired" => Gone,
           l.at = "told" /\ l.answer \in {"confirmed", "incomplete"} =>
              login.code # 0 /\ codes[login.code] = "confirmed",
           l.at = "expired" => Gone /\ l.refreshes > MaxRefreshes,
           account' # account => l.at = "done" /\ codes[login.code] = "confirmed"
    PROVE  LoginInv'
<1>1. account = 0 /\ login.code \in Nat
  BY DEF LoginInv, LoginAt, LoginTyped, LoginRecords
<1>2. LoginTyped'
  BY <1>1 DEF LoginInv, LoginTyped
<1>3. EarlierExpired'
  BY DEF LoginInv, EarlierExpired
<1>4. LoginAt'
  <2>1. Gone' <=> Gone
    BY DEF Gone
  <2>2. account' # 0 => l.at = "done" /\ account' = l.code /\ codes[account'] = "confirmed"
    BY <1>1
  <2> QED BY <2>1, <2>2 DEF LoginAt, MaxRefreshes
<1> QED BY <1>2, <1>3, <1>4 DEF LoginInv

LEMMA LoginFacts ==
    ASSUME LoginInv
    PROVE  /\ login \in LoginRecords /\ codes \in Seq(CodeStates) /\ Len(codes) \in Nat /\ login.code \in Nat
           /\ login.code = login.screen /\ login.code <= Len(codes) /\ login.refreshes \in Nat
           /\ login.code # 0 => login.code \in 1..Len(codes) /\ codes[login.code] \in CodeStates
           /\ DOMAIN codes = 1..Len(codes)
<1>1. /\ login \in LoginRecords /\ codes \in Seq(CodeStates) /\ Len(codes) \in Nat /\ login.code \in Nat
      /\ login.code = login.screen /\ login.code <= Len(codes) /\ login.refreshes \in Nat
      /\ DOMAIN codes = 1..Len(codes)
  <2>1. /\ login \in LoginRecords /\ codes \in Seq(CodeStates)
        /\ login.code = login.screen /\ login.code <= Len(codes)
    BY DEF LoginInv, LoginTyped
  <2>2. login.code \in Nat /\ login.refreshes \in Nat
    BY <2>1 DEF LoginRecords
  <2>3. Len(codes) \in Nat /\ DOMAIN codes = 1..Len(codes)
    BY <2>1
  <2> QED BY <2>1, <2>2, <2>3
<1>2. ASSUME login.code # 0 PROVE login.code \in 1..Len(codes) /\ codes[login.code] \in CodeStates
  <2>1. login.code \in 1..Len(codes)
    BY <1>1, <1>2
  <2> QED BY <1>1, <2>1
<1> QED BY <1>1, <1>2

LEMMA FetchQrKeeps ==
    ASSUME LoginInv, FetchQr
    PROVE  LoginInv'
<1>0. /\ login \in LoginRecords /\ codes \in Seq(CodeStates) /\ Len(codes) \in Nat /\ login.code \in Nat
      /\ login.at = "fetch" /\ Gone /\ account = 0 /\ account' = account
      /\ login.code = login.screen /\ login.code <= Len(codes)
  BY LoginFacts DEF FetchQr, LoginInv, LoginAt
<1>1. \A c \in 1..Len(codes) : codes[c] = "expired"
  BY <1>0 DEF LoginInv, EarlierExpired, Gone
<1>2. CASE login' = [login EXCEPT !.at = "failed"] /\ codes' = codes
  <2>1. PICK l : l = [login EXCEPT !.at = "failed"]
    OBVIOUS
  <2>2. l \in LoginRecords /\ l.at = "failed" /\ l.code = login.code /\ l.screen = login.screen
    BY <1>0, <2>1 DEF LoginRecords
  <2>3. login' = l
    BY <1>2, <2>1
  <2>4. LoginTyped' /\ EarlierExpired'
    BY <1>0, <1>1, <1>2, <2>2, <2>3 DEF LoginTyped, EarlierExpired
  <2>5. LoginAt'
    BY <1>0, <2>2, <2>3 DEF LoginAt
  <2> QED BY <2>4, <2>5 DEF LoginInv
<1>3. ASSUME NEW new \in Nat, login' = [login EXCEPT !.at = "poll", !.code = new, !.screen = new],
             \/ new = 0 /\ codes' = codes
             \/ new = Len(codes) + 1 /\ codes' = Append(codes, "open")
      PROVE  LoginInv'
  <2>1. PICK l : l = [login EXCEPT !.at = "poll", !.code = new, !.screen = new]
    OBVIOUS
  <2>2. l \in LoginRecords /\ l.at = "poll" /\ l.code = new /\ l.screen = new
    BY <1>0, <1>3, <2>1 DEF LoginRecords
  <2>3. login' = l
    BY <1>3, <2>1
  <2>4. PICK k : k = codes'
    OBVIOUS
  <2>5. k \in Seq(CodeStates) /\ new <= Len(k) /\ \A c \in 1..Len(k) : c # new => k[c] = "expired"
    <3>1. CASE new = 0 /\ codes' = codes
      BY <1>0, <1>1, <2>4, <3>1
    <3>2. CASE new = Len(codes) + 1 /\ codes' = Append(codes, "open")
      <4>1. "open" \in CodeStates
        BY DEF CodeStates
      <4>2. k \in Seq(CodeStates) /\ Len(k) = Len(codes) + 1 /\ \A c \in 1..Len(codes) : k[c] = codes[c]
        BY <1>0, <2>4, <3>2, <4>1
      <4>3. ASSUME NEW c \in 1..Len(k), c # new PROVE c \in 1..Len(codes)
        BY <1>0, <3>2, <4>2, <4>3
      <4> QED BY <1>0, <1>1, <3>2, <4>2, <4>3
    <3> QED BY <1>3, <3>1, <3>2
  <2>6. LoginTyped' /\ EarlierExpired'
    BY <1>0, <2>2, <2>3, <2>4, <2>5 DEF LoginTyped, EarlierExpired
  <2>7. LoginAt'
    BY <1>0, <2>2, <2>3 DEF LoginAt
  <2> QED BY <2>6, <2>7 DEF LoginInv
<1>4. PICK got \in {"error", "empty", "code"} :
          IF got = "error" \/ (got = "empty" /\ login.refreshes = 0)
          THEN login' = [login EXCEPT !.at = "failed"] /\ codes' = codes
          ELSE /\ login' = [login EXCEPT !.at = "poll",
                                         !.code = IF got = "code" THEN Len(codes) + 1 ELSE 0,
                                         !.screen = IF got = "code" THEN Len(codes) + 1 ELSE 0]
               /\ codes' = IF got = "code" THEN Append(codes, "open") ELSE codes
  BY DEF FetchQr, Polled
<1>5. PICK new : new = IF got = "code" THEN Len(codes) + 1 ELSE 0
  OBVIOUS
<1>6. new \in Nat
  BY <1>0, <1>5
<1>7. CASE got = "error" \/ (got = "empty" /\ login.refreshes = 0)
  BY <1>2, <1>4, <1>7
<1>8. CASE ~(got = "error" \/ (got = "empty" /\ login.refreshes = 0))
  <2>1. login' = [login EXCEPT !.at = "poll", !.code = new, !.screen = new]
    BY <1>4, <1>5, <1>8
  <2>2. \/ new = 0 /\ codes' = codes
        \/ new = Len(codes) + 1 /\ codes' = Append(codes, "open")
    BY <1>4, <1>5, <1>8
  <2> QED BY <1>3, <1>6, <2>1, <2>2
<1> QED BY <1>7, <1>8

LEMMA AtServiceKeeps ==
    ASSUME LoginInv, AtService
    PROVE  LoginInv'
<1>0. /\ login \in LoginRecords /\ codes \in Seq(CodeStates) /\ Len(codes) \in Nat /\ login.code \in Nat
      /\ login' = login /\ account' = account /\ DOMAIN codes = 1..Len(codes)
  BY LoginFacts DEF AtService
<1>1. PICK c \in 1..Len(codes), s \in CodeStates :
          codes[c] \in {"open", "scaned"} /\ codes' = [codes EXCEPT ![c] = s]
  BY <1>0 DEF AtService, CodeStates
<1>2. c = login.code
  BY <1>1 DEF LoginInv, EarlierExpired
<1>3. PICK k : k = codes'
  OBVIOUS
<1>4. /\ k \in Seq(CodeStates) /\ Len(k) = Len(codes)
      /\ \A d \in 1..Len(codes) : d # c => k[d] = codes[d]
  BY <1>0, <1>1, <1>3
<1>5. ~Gone /\ login.code # 0 /\ codes[login.code] # "confirmed"
  BY <1>1, <1>2 DEF Gone
<1>6. LoginTyped' /\ EarlierExpired'
  BY <1>0, <1>2, <1>3, <1>4 DEF LoginInv, LoginTyped, EarlierExpired
<1>7. LoginAt'
  BY <1>0, <1>5 DEF LoginInv, LoginAt
<1> QED BY <1>6, <1>7 DEF LoginInv

LEMMA LoginStepKeeps ==
    ASSUME LoginInv, PollStatus \/ LoginTimesOut \/ QrExpired \/ QrConfirmed \/ QrPending
    PROVE  LoginInv'
<1>0. /\ login \in LoginRecords /\ codes \in Seq(CodeStates) /\ Len(codes) \in Nat /\ login.code \in Nat
      /\ login.refreshes \in Nat
      /\ login.code # 0 => login.code \in 1..Len(codes) /\ codes[login.code] \in CodeStates
  BY LoginFacts
<1>1. CASE PollStatus
  <2>1. PICK s \in Statuses(login.code) : login' = [login EXCEPT !.at = "told", !.answer = s]
    BY <1>1 DEF PollStatus
  <2>2. /\ s \in {"wait", "scaned", "expired", "confirmed", "incomplete"}
        /\ s = "expired" => Gone
        /\ s \in {"confirmed", "incomplete"} => login.code # 0 /\ codes[login.code] = "confirmed"
    <3>1. CASE s = "wait"
      BY <3>1
    <3>2. CASE s # "wait" /\ login.code = 0
      BY <3>2 DEF Statuses, Gone
    <3>3. CASE s # "wait" /\ login.code # 0 /\ codes[login.code] = "confirmed"
      BY <3>3 DEF Statuses
    <3>4. CASE s # "wait" /\ login.code # 0 /\ codes[login.code] # "confirmed"
      BY <1>0, <3>4 DEF Statuses, Gone, CodeStates
    <3> QED BY <3>1, <3>2, <3>3, <3>4
  <2>3. PICK l : l = [login EXCEPT !.at = "told", !.answer = s]
    OBVIOUS
  <2>4. l \in LoginRecords /\ l.at = "told" /\ l.answer = s /\ l.code = login.code /\ l.screen = login.screen
    BY <1>0, <2>2, <2>3 DEF LoginRecords
  <2>5. codes' = codes /\ account' = account /\ login.at = "poll" /\ login' = l
    BY <1>1, <2>1, <2>3 DEF PollStatus
  <2> QED BY <2>2, <2>4, <2>5, LoginMovesKeeps
<1>2. CASE LoginTimesOut \/ QrPending
  <2>1. PICK at \in {"timed out", "poll"} : login' = [login EXCEPT !.at = at]
    BY <1>2 DEF LoginTimesOut, QrPending
  <2>2. PICK l : l = [login EXCEPT !.at = at]
    OBVIOUS
  <2>3. l \in LoginRecords /\ l.at = at /\ l.code = login.code /\ l.screen = login.screen
    BY <1>0, <2>1, <2>2 DEF LoginRecords
  <2>4. codes' = codes /\ account' = account /\ login.at \in {"poll", "told"} /\ login' = l
        /\ l.at \notin {"fetch", "told", "expired"}
    BY <1>2, <2>1, <2>2, <2>3 DEF LoginTimesOut, QrPending
  <2> QED BY <2>3, <2>4, LoginMovesKeeps
<1>3. CASE QrExpired
  <2>1. PICK at : at = IF login.refreshes + 1 > MaxRefreshes THEN "expired" ELSE "fetch"
    OBVIOUS
  <2>2. PICK n : n = login.refreshes + 1
    OBVIOUS
  <2>3. n \in Nat /\ at \in {"expired", "fetch"} /\ (at = "expired" => n > MaxRefreshes)
    BY <1>0, <2>1, <2>2
  <2>4. PICK l : l = [login EXCEPT !.refreshes = n, !.at = at]
    OBVIOUS
  <2>5. l \in LoginRecords /\ l.at = at /\ l.code = login.code /\ l.screen = login.screen /\ l.refreshes = n
    BY <1>0, <2>3, <2>4 DEF LoginRecords
  <2>6. codes' = codes /\ account' = account /\ login.at = "told" /\ login.answer = "expired" /\ login' = l
    BY <1>3, <2>1, <2>2, <2>4 DEF QrExpired
  <2>7. Gone
    BY <2>6 DEF LoginInv, LoginAt
  <2>8. l.at # "told"
    BY <2>3, <2>5
  <2> QED BY <2>3, <2>5, <2>6, <2>7, <2>8, LoginMovesKeeps
<1>4. CASE QrConfirmed
  <2>1. PICK at \in {"done", "failed"} :
            login' = [login EXCEPT !.at = at] /\ (login.answer = "confirmed" => at = "done")
    BY <1>4 DEF QrConfirmed
  <2>2. PICK l : l = [login EXCEPT !.at = at]
    OBVIOUS
  <2>3. l \in LoginRecords /\ l.at = at /\ l.code = login.code /\ l.screen = login.screen
    BY <1>0, <2>1, <2>2 DEF LoginRecords
  <2>4. /\ codes' = codes /\ login.at = "told" /\ login.answer \in {"confirmed", "incomplete"} /\ login' = l
        /\ account' \in {account, login.code} /\ (account' # account => login.answer = "confirmed")
    BY <1>4, <2>1, <2>2 DEF QrConfirmed
  <2>5. codes[login.code] = "confirmed"
    BY <2>4 DEF LoginInv, LoginAt
  <2>6. l.at \notin {"fetch", "told", "expired"} /\ (account' # account => l.at = "done")
    BY <2>1, <2>3, <2>4
  <2> QED BY <2>3, <2>4, <2>5, <2>6, LoginMovesKeeps
<1> QED BY <1>1, <1>2, <1>3, <1>4

LEMMA LoginNextKeeps == LoginInv /\ [LoginNext]_loginVars => LoginInv'
<1> SUFFICES ASSUME LoginInv, [LoginNext]_loginVars PROVE LoginInv'
  OBVIOUS
<1>1. CASE FetchQr \/ AtService
  BY <1>1, FetchQrKeeps, AtServiceKeeps
<1>2. CASE PollStatus \/ LoginTimesOut \/ QrExpired \/ QrConfirmed \/ QrPending
  BY <1>2, LoginStepKeeps
<1>3. CASE UNCHANGED loginVars
  BY <1>3 DEF loginVars, LoginInv, LoginTyped, EarlierExpired, LoginAt, Gone
<1> QED BY <1>1, <1>2, <1>3 DEF LoginNext

LEMMA LoginInitInv == LoginInit => LoginInv
<1> SUFFICES ASSUME LoginInit PROVE LoginInv
  OBVIOUS
<1>1. /\ login = [at |-> "fetch", code |-> 0, screen |-> 0, refreshes |-> 0, answer |-> "wait"]
      /\ codes = <<>> /\ account = 0
  BY DEF LoginInit
<1>2. login \in LoginRecords /\ login.at = "fetch" /\ login.code = 0 /\ login.screen = 0
  BY <1>1 DEF LoginRecords
<1>3. LoginTyped /\ EarlierExpired
  BY <1>1, <1>2 DEF LoginTyped, EarlierExpired
<1>4. LoginAt
  BY <1>1, <1>2 DEF LoginAt, Gone
<1> QED BY <1>3, <1>4 DEF LoginInv

LEMMA LoginInvKept == LoginInv => LoginFollowsScreen
<1> SUFFICES ASSUME LoginInv PROVE LoginFollowsScreen
  OBVIOUS
<1>1. login.code = login.screen /\ DOMAIN codes = 1..Len(codes)
  BY LoginFacts
<1>2. login.at = "expired" => login.refreshes > MaxRefreshes /\ \A c \in DOMAIN codes : codes[c] # "confirmed"
  BY <1>1 DEF LoginInv, LoginAt, EarlierExpired, Gone
<1>3. account # 0 => codes[account] = "confirmed" /\ account = login.screen
  BY <1>1 DEF LoginInv, LoginAt
<1> QED BY <1>2, <1>3 DEF LoginFollowsScreen

(* The cursor of a bot never passes a message that was not handed on, and  *)
(* inside the window one that carries an id is handed on once, for any     *)
(* number of messages, crashes, torn files, failed polls and expired       *)
(* sessions;                                                               *)
(* the login saves the credentials of the code on the screen that the user *)
(* confirmed, and gives up for expired codes only if none was confirmed.   *)
THEOREM FeedsAreFollowed == OutsideSpec => []FeedsFollowed
<1>1. OutsideInit => ChannelInv /\ LoginInv
  BY ChannelInitInv, LoginInitInv DEF OutsideInit
<1>2. ChannelInv /\ LoginInv /\ [OutsideNext]_outsideVars => ChannelInv' /\ LoginInv'
  BY PartsStep, ChannelNextKeeps, LoginNextKeeps
<1>3. ChannelInv /\ LoginInv => FeedsFollowed
  BY ChannelInvKept, LoginInvKept DEF FeedsFollowed
<1> QED BY <1>1, <1>2, <1>3, PTL DEF OutsideSpec

-----------------------------------------------------------------------------
(* The sandboxes.  Once SIGKILL was sent, nothing is alive in the group:   *)
(* who is left, and what it starts, is outside of it.                      *)

Processes == [alive : BOOLEAN, grouped : BOOLEAN, pipe : BOOLEAN, stubborn : BOOLEAN]
GroupGone == \A p \in All : procs[p].alive => ~procs[p].grouped

SandboxInv ==
    /\ SandboxTypeOK
    /\ run \in [at : {"poll", "grace", "join", "returned"}, ticks : Nat]
    /\ host \in Hosts /\ backend = with_sandbox(host)
    /\ outcome = "timed out" /\ backend # "Docker" => GroupGone

LEMMA BackendOf ==
    ASSUME NEW h \in Hosts
    PROVE  /\ with_sandbox(h) \in {"Docker", "Landlock", "Seatbelt", "Process"}
           /\ h.os_sandbox /\ (h.docker_built \/ h.preferred # "Docker" \/ ~h.docker_up)
                => with_sandbox(h) # "Process"
  BY DEF Hosts, with_sandbox, auto_select, Fallback, docker_available, landlock_available,
         seatbelt_available

LEMMA DeadIs ==
    ASSUME NEW q \in Processes
    PROVE  Dead(q) \in Processes /\ ~Dead(q).alive /\ Dead(q).grouped = q.grouped
  BY DEF Processes, Dead

LEMMA KilledIs ==
    ASSUME procs \in [All -> Processes]
    PROVE  /\ Killed \in [All -> Processes]
           /\ \A p \in All : Killed[p].alive => procs[p].alive /\ ~procs[p].grouped /\ ~Killed[p].grouped
<1> SUFFICES ASSUME NEW p \in All
             PROVE  Killed[p] \in Processes
                    /\ (Killed[p].alive => procs[p].alive /\ ~procs[p].grouped /\ ~Killed[p].grouped)
  BY DEF Killed
<1>1. procs[p] \in Processes
  OBVIOUS
<1>2. CASE procs[p].alive /\ procs[p].grouped
  BY <1>1, <1>2, DeadIs DEF Killed, Signalled
<1>3. CASE ~(procs[p].alive /\ procs[p].grouped)
  BY <1>1, <1>3 DEF Killed, Signalled
<1> QED BY <1>2, <1>3

LEMMA SandboxInitInv == SandboxInit => SandboxInv
<1> SUFFICES ASSUME SandboxInit PROVE SandboxInv
  OBVIOUS
<1>1. procs \in [All -> Processes]
  BY DEF SandboxInit, Processes, Absent
<1>2. backend \in {"Docker", "Landlock", "Seatbelt", "Process"}
  BY BackendOf DEF SandboxInit
<1> QED BY <1>1, <1>2 DEF SandboxInit, SandboxInv, SandboxTypeOK, Processes

LEMMA SandboxNextKeeps == SandboxInv /\ [SandboxNext]_sandboxVars => SandboxInv'
<1> SUFFICES ASSUME SandboxInv, [SandboxNext]_sandboxVars PROVE SandboxInv'
  OBVIOUS
<1>0. /\ procs \in [All -> Processes] /\ Leader \in All /\ Children \subseteq All
      /\ backend \in {"Docker", "Landlock", "Seatbelt", "Process"}
      /\ run \in [at : {"poll", "grace", "join", "returned"}, ticks : Nat]
      /\ outcome \in {"none", "output", "terminated", "timed out"}
      /\ host \in Hosts /\ backend = with_sandbox(host)
  BY DEF SandboxInv, SandboxTypeOK, Processes, All
<1>a. run.ticks \in Nat /\ run.ticks + 1 \in Nat
  <2>1. \E n \in Nat : n = run.ticks
    BY <1>0, Zenon
  <2> QED BY <2>1
<1>1. ASSUME procs' \in [All -> Processes],
             run' \in [at : {"poll", "grace", "join", "returned"}, ticks : Nat],
             outcome' \in {"none", "output", "terminated", "timed out"},
             UNCHANGED <<host, backend>>,
             outcome' = "timed out" /\ backend # "Docker" => GroupGone'
      PROVE  SandboxInv'
  BY <1>0, <1>1 DEF SandboxInv, SandboxTypeOK, Processes
<1>2. GroupGone = \A p \in All : procs[p].alive => ~procs[p].grouped
  BY DEF GroupGone
<1>3. CASE UNCHANGED sandboxVars
  BY <1>3 DEF sandboxVars, SandboxInv, SandboxTypeOK, GroupGone
<1>4. ASSUME NEW p \in All, Redirect(p) PROVE SandboxInv'
  <2>1. procs' \in [All -> Processes] /\ \A q \in All :
            procs'[q].alive = procs[q].alive /\ procs'[q].grouped = procs[q].grouped
    BY <1>0, <1>4 DEF Redirect, Processes
  <2> QED BY <1>0, <1>1, <1>4, <2>1 DEF Redirect, SandboxInv, GroupGone
<1>5. ASSUME NEW p \in All, Setsid(p) PROVE SandboxInv'
  <2>1. procs' \in [All -> Processes] /\ \A q \in All :
            procs'[q].alive = procs[q].alive /\ (procs'[q].grouped => procs[q].grouped)
    BY <1>0, <1>5 DEF Setsid, Processes
  <2> QED BY <1>0, <1>1, <1>5, <2>1 DEF Setsid, SandboxInv, GroupGone
<1>6. ASSUME NEW p \in All, Exit(p) PROVE SandboxInv'
  <2>1. procs' = [procs EXCEPT ![p] = Dead(procs[p])] /\ procs[p] \in Processes
    BY <1>0, <1>6 DEF Exit
  <2>2. procs' \in [All -> Processes] /\ \A q \in All :
            (procs'[q].alive => procs[q].alive) /\ procs'[q].grouped = procs[q].grouped
    BY <1>0, <2>1, DeadIs
  <2> QED BY <1>0, <1>1, <1>6, <2>2 DEF Exit, SandboxInv, GroupGone
<1>7. ASSUME NEW p \in All, NEW c \in Children, Fork(p, c) PROVE SandboxInv'
  <2>1. PICK stubborn \in BOOLEAN : procs' = [procs EXCEPT ![c] = [procs[p] EXCEPT !.stubborn = stubborn]]
    BY <1>7 DEF Fork
  <2>2. procs' \in [All -> Processes] /\ procs[p].alive
        /\ procs'[c].grouped = procs[p].grouped /\ \A q \in All \ {c} : procs'[q] = procs[q]
    BY <1>0, <1>7, <2>1 DEF Fork, Processes
  <2> QED BY <1>0, <1>1, <1>7, <2>2 DEF Fork, SandboxInv, GroupGone
<1>8. CASE WaitWithOutput
  BY <1>0, <1>1, <1>8 DEF WaitWithOutput, SandboxInv, GroupGone
<1>9. CASE Poll
  <2>1. run' \in [at : {"poll", "grace", "join", "returned"}, ticks : Nat]
    <3>1. run' = [run EXCEPT !.at = "returned"] \/ run' = [run EXCEPT !.ticks = run.ticks + 1]
      BY <1>9 DEF Poll
    <3>2. CASE run' = [run EXCEPT !.at = "returned"]
      BY <1>0, <3>2
    <3>3. CASE run' = [run EXCEPT !.ticks = run.ticks + 1]
      BY <1>0, <1>a, <3>3
    <3> QED BY <3>1, <3>2, <3>3
  <2>2. UNCHANGED <<host, backend, procs>> /\ outcome' \in {outcome, "output"}
    BY <1>9 DEF Poll
  <2> QED BY <1>0, <1>1, <2>1, <2>2 DEF SandboxInv, GroupGone
<1>10. CASE Terminate
  <2>1. procs' \in [All -> Processes] /\ \A q \in All :
            procs'[q] = procs[q] \/ procs'[q] = Killed[q]
    BY <1>0, <1>10, KilledIs DEF Terminate
  <2>2. run' = [at |-> "grace", ticks |-> 0] /\ UNCHANGED <<host, backend, outcome>>
    BY <1>10 DEF Terminate
  <2>3. outcome' = "timed out" /\ backend # "Docker" => GroupGone'
    BY <1>0, <2>1, <2>2, KilledIs DEF SandboxInv, GroupGone
  <2> QED BY <1>0, <1>1, <2>1, <2>2, <2>3
<1>11. CASE Kill
  <2>1. procs' \in [All -> Processes] /\ GroupGone'
    BY <1>0, <1>11, KilledIs DEF Kill, GroupGone
  <2> QED BY <1>0, <1>1, <1>11, <2>1 DEF Kill
<1>12. CASE Abandon
  BY <1>0, <1>1, <1>12 DEF Abandon
<1>13. CASE GracePeriod
  <2>1. run' \in [at : {"poll", "grace", "join", "returned"}, ticks : Nat] /\ UNCHANGED <<host, backend>>
    <3>1. run' = [run EXCEPT !.at = "join"] \/ run' = [run EXCEPT !.ticks = run.ticks + 1]
      BY <1>13 DEF GracePeriod
    <3>2. CASE run' = [run EXCEPT !.at = "join"]
      BY <1>0, <1>13, <3>2 DEF GracePeriod
    <3>3. CASE run' = [run EXCEPT !.ticks = run.ticks + 1]
      BY <1>0, <1>a, <1>13, <3>3 DEF GracePeriod
    <3> QED BY <3>1, <3>2, <3>3
  <2>2. CASE procs' = Killed /\ outcome' = "timed out"
    <3>1. procs' \in [All -> Processes] /\ GroupGone'
      BY <1>0, <2>2, KilledIs DEF GroupGone
    <3> QED BY <1>0, <1>1, <2>1, <2>2, <3>1
  <2>3. CASE procs' = procs /\ outcome' \in {outcome, "terminated"}
    BY <1>0, <1>1, <2>1, <2>3 DEF SandboxInv, GroupGone
  <2> QED BY <1>13, <2>2, <2>3 DEF GracePeriod, AfterGrace
<1>14. CASE Join
  BY <1>0, <1>1, <1>14 DEF Join, SandboxInv, GroupGone
<1> QED BY <1>3, <1>4, <1>5, <1>6, <1>7, <1>8, <1>9, <1>10, <1>11, <1>12, <1>13, <1>14
        DEF SandboxNext, SandboxStep

LEMMA SandboxInvKept == SandboxInv => SandboxTypeOK /\ IsolatedIfPossible /\ NothingSurvivesKill
  BY BackendOf DEF SandboxInv, IsolatedIfPossible, NothingSurvivesKill, GroupGone

(* For any number of processes and any deadlines: commands run in the best *)
(* sandbox there is, and when a run that was killed has returned, nothing  *)
(* of its process group is alive, whatever it started or ignored: the part *)
(* of ProgramsContained that is about sandboxes (qian_permission).         *)
THEOREM SandboxesContain ==
    OutsideSpec => [](SandboxTypeOK /\ IsolatedIfPossible /\ NothingSurvivesKill)
<1>1. OutsideInit => SandboxInv
  <2>1. NoCommand => SandboxInv
    <3> SUFFICES ASSUME NoCommand PROVE SandboxInv
      OBVIOUS
    <3>1. host \in Hosts
      BY DEF NoCommand, Hosts
    <3>2. backend \in {"Docker", "Landlock", "Seatbelt", "Process"} /\ backend = with_sandbox(host)
      BY <3>1, BackendOf DEF NoCommand
    <3> QED BY <3>1, <3>2 DEF NoCommand, SandboxInv, SandboxTypeOK, Absent
  <2> QED BY <2>1, SandboxInitInv DEF OutsideInit
<1>2. SandboxInv /\ [OutsideNext]_outsideVars => SandboxInv'
  BY PartsStep, SandboxNextKeeps
<1> QED BY <1>1, <1>2, SandboxInvKept, PTL DEF OutsideSpec
=============================================================================
