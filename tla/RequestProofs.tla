---------------------------- MODULE RequestProofs ---------------------------
(***************************************************************************)
(* Proofs about SessionGateway, for any sessions, any kinds of requests,   *)
(* any number of requests, permits and steer messages, and about ModelCore,*)
(* for any number of turns, any lists of providers and any bounds.         *)
(***************************************************************************)
EXTENDS SessionGateway, ModelCore, TLAPS

-----------------------------------------------------------------------------
(* SessionGateway.                                                         *)

(* A request has a kind and a place from its arrival on.                   *)
Arrived ==
    \A r \in Requests :
        /\ r \in 1..arrived <=> pc[r] # "none"
        /\ pc[r] = "collect" => kind[r] = "io"

HasLock(r) == pc[r] \in {"waiting", "running", "post", "collect"}

(* Tasks that wait for a session or run in it have one lock, the one that  *)
(* the map has for the session: an entry in use is never dropped.          *)
OneLock ==
    \A r \in Requests :
        /\ HasLock(r) <=> ref[r] # None
        /\ HasLock(r) => ref[r] = lockOf[session[r]]

(* The holder of a lock is in a run, and a run holds the lock.             *)
Held ==
    /\ \A r \in Requests : InRun(r) => holder[ref[r]] = r
    /\ \A l \in Requests : holder[l] # None => InRun(holder[l]) /\ ref[holder[l]] = l

(* A token is registered for the session of its request, which is not an   *)
(* IO input, until the request ends.                                       *)
Registered ==
    \A s \in Sessions : tokens[s] # None =>
        /\ session[tokens[s]] = s
        /\ kind[tokens[s]] # "io"
        /\ pc[tokens[s]] \notin {"none", "ended"}

(* What a run works on is no older than what is stored.                    *)
UpToDate ==
    \A r \in Requests : pc[r] \in {"running", "post"}
        => stored[session[r]] \subseteq loaded[r] \cup {r}

GatewayInv == TypeOK /\ Arrived /\ OneLock /\ Held /\ Registered /\ UpToDate

LEMMA GatewayStep == GatewayInv /\ [Next]_vars => GatewayInv'
<1> SUFFICES ASSUME GatewayInv, [Next]_vars PROVE GatewayInv'
  OBVIOUS
<1> USE GatewayAssumption DEF GatewayInv, Requests, None, Goto, InRun, HasLock
<1>1. ASSUME NEW r \in Requests, NEW s \in Sessions, NEW new \in BOOLEAN, RinAgent(r, s, new) PROVE GatewayInv'
  <2>1. TypeOK'
    <3>1. lockOf' \in [Sessions -> Requests \cup {None}] /\ ref' \in [Requests -> Requests \cup {None}]
      BY <1>1 DEF RinAgent, locks, TypeOK
    <3>2. /\ arrived' \in 0..MaxRequests /\ kind' \in [Requests -> Kinds \cup {"none"}]
          /\ session' \in [Requests -> Sessions] /\ isNew' \in [Requests -> BOOLEAN]
      BY <1>1 DEF RinAgent, Arrive, TypeOK
    <3>3. /\ tokens' \in [Sessions -> Requests \cup {None}] /\ row' \subseteq Sessions
      BY <1>1 DEF RinAgent, CreateRow, register, TypeOK
    <3> QED
      BY <1>1, <3>1, <3>2, <3>3 DEF RinAgent, locks, TypeOK
  <2>2. Arrived'
    BY <1>1 DEF RinAgent, Arrive, CreateRow, register, locks, TypeOK, Arrived
  <2>3. OneLock'
    BY <1>1 DEF RinAgent, Arrive, CreateRow, register, locks, TypeOK, Arrived, OneLock
  <2>4. Held'
    BY <1>1 DEF RinAgent, Arrive, CreateRow, register, locks, TypeOK, OneLock,
       Arrived, Held
  <2>5. Registered'
    BY <1>1 DEF RinAgent, Arrive, CreateRow, register, locks, TypeOK, Arrived,
       Registered
  <2>6. UpToDate'
    BY <1>1 DEF RinAgent, Arrive, CreateRow, register, locks, TypeOK, Held,
       OneLock, Arrived, UpToDate
  <2> QED
    BY <2>1, <2>2, <2>3, <2>4, <2>5, <2>6
<1>2. ASSUME NEW r \in Requests, NEW s \in Sessions, NEW new \in BOOLEAN, handle_agent(r, s, new) PROVE GatewayInv'
  <2>1. TypeOK'
    BY <1>2 DEF handle_agent, Arrive, CreateRow, register, locks, TypeOK
  <2>2. Arrived'
    BY <1>2 DEF handle_agent, Arrive, CreateRow, register, locks, TypeOK, Arrived
  <2>3. OneLock'
    BY <1>2 DEF handle_agent, Arrive, CreateRow, register, locks, TypeOK, Arrived, OneLock
  <2>4. Held'
    BY <1>2 DEF handle_agent, Arrive, CreateRow, register, locks, TypeOK, OneLock,
       Arrived, Held
  <2>5. Registered'
    BY <1>2 DEF handle_agent, Arrive, CreateRow, register, locks, TypeOK, Arrived,
       Registered
  <2>6. UpToDate'
    BY <1>2 DEF handle_agent, Arrive, CreateRow, register, locks, TypeOK, Held, OneLock,
       Arrived, UpToDate
  <2> QED
    BY <2>1, <2>2, <2>3, <2>4, <2>5, <2>6
<1>3. ASSUME NEW r \in Requests, NEW s \in Sessions, IoInput(r, s) PROVE GatewayInv'
  <2>1. TypeOK'
    BY <1>3 DEF IoInput, Arrive, locks, store, TypeOK
  <2>2. Arrived'
    BY <1>3 DEF IoInput, Arrive, locks, store, TypeOK, Arrived
  <2>3. OneLock'
    BY <1>3 DEF IoInput, Arrive, locks, store, TypeOK, Arrived, OneLock
  <2>4. Held'
    BY <1>3 DEF IoInput, Arrive, locks, store, TypeOK, OneLock, Arrived, Held
  <2>5. Registered'
    BY <1>3 DEF IoInput, Arrive, locks, store, TypeOK, Arrived, Registered
  <2>6. UpToDate'
    BY <1>3 DEF IoInput, Arrive, locks, store, TypeOK, Held, OneLock, Arrived, UpToDate
  <2> QED
    BY <2>1, <2>2, <2>3, <2>4, <2>5, <2>6
<1>4. ASSUME NEW r \in Requests, GetLock(r) PROVE GatewayInv'
  <2>1. TypeOK'
    BY <1>4 DEF GetLock, session_lock, arrival, store, TypeOK
  <2>2. Arrived'
    BY <1>4 DEF GetLock, session_lock, arrival, store, TypeOK, Arrived
  <2>3. OneLock'
    BY <1>4 DEF GetLock, session_lock, arrival, store, TypeOK, Arrived, OneLock
  <2>4. Held'
    BY <1>4 DEF GetLock, session_lock, arrival, store, TypeOK, OneLock, Arrived, Held
  <2>5. Registered'
    BY <1>4 DEF GetLock, session_lock, arrival, store, TypeOK, Arrived, Registered
  <2>6. UpToDate'
    BY <1>4 DEF GetLock, session_lock, arrival, store, TypeOK, Held, OneLock, Arrived,
       UpToDate
  <2> QED
    BY <2>1, <2>2, <2>3, <2>4, <2>5, <2>6
<1>5. ASSUME NEW r \in Requests, AcquirePermit(r) PROVE GatewayInv'
  <2>1. TypeOK'
    BY <1>5 DEF AcquirePermit, session_lock, arrival, store, TypeOK
  <2>2. Arrived'
    BY <1>5 DEF AcquirePermit, session_lock, arrival, store, TypeOK, Arrived
  <2>3. OneLock'
    BY <1>5 DEF AcquirePermit, session_lock, arrival, store, TypeOK, Arrived, OneLock
  <2>4. Held'
    BY <1>5 DEF AcquirePermit, session_lock, arrival, store, TypeOK, OneLock, Arrived,
       Held
  <2>5. Registered'
    BY <1>5 DEF AcquirePermit, session_lock, arrival, store, TypeOK, Arrived, Registered
  <2>6. UpToDate'
    BY <1>5 DEF AcquirePermit, session_lock, arrival, store, TypeOK, Held, OneLock,
       Arrived, UpToDate
  <2> QED
    BY <2>1, <2>2, <2>3, <2>4, <2>5, <2>6
<1>6. ASSUME NEW r \in Requests, Begin(r) PROVE GatewayInv'
  <2>1. TypeOK'
    BY <1>6 DEF Begin, LockFree, arrival, TypeOK, OneLock
  <2>2. Arrived'
    BY <1>6 DEF Begin, LockFree, arrival, TypeOK, Arrived
  <2>3. OneLock'
    BY <1>6 DEF Begin, LockFree, arrival, TypeOK, Arrived, OneLock
  <2>4. Held'
    BY <1>6 DEF Begin, LockFree, arrival, TypeOK, OneLock, Arrived, Held
  <2>5. Registered'
    BY <1>6 DEF Begin, LockFree, arrival, TypeOK, Arrived, Registered
  <2>6. UpToDate'
    BY <1>6 DEF Begin, LockFree, arrival, TypeOK, Held, OneLock, Arrived, UpToDate
  <2> QED
    BY <2>1, <2>2, <2>3, <2>4, <2>5, <2>6
<1>7. ASSUME NEW r \in Requests, Reject(r) PROVE GatewayInv'
  <2>1. TypeOK'
    BY <1>7 DEF Reject, LockFree, remove, Released, arrival, store, TypeOK
  <2>2. Arrived'
    BY <1>7 DEF Reject, LockFree, remove, Released, arrival, store, TypeOK, Arrived
  <2>3. OneLock'
    BY <1>7 DEF Reject, LockFree, remove, Released, arrival, store, TypeOK, Arrived,
       OneLock
  <2>4. Held'
    BY <1>7 DEF Reject, LockFree, remove, Released, arrival, store, TypeOK, OneLock,
       Arrived, Held
  <2>5. Registered'
    BY <1>7 DEF Reject, LockFree, remove, Released, arrival, store, TypeOK, Arrived,
       Registered
  <2>6. UpToDate'
    BY <1>7 DEF Reject, LockFree, remove, Released, arrival, store, TypeOK, Held,
       OneLock, Arrived, UpToDate
  <2> QED
    BY <2>1, <2>2, <2>3, <2>4, <2>5, <2>6
<1>8. ASSUME NEW r \in Requests, BailOut(r) PROVE GatewayInv'
  <2>1. TypeOK'
    BY <1>8 DEF BailOut, LockFree, delete_session, remove, Released, arrival, TypeOK
  <2>2. Arrived'
    BY <1>8 DEF BailOut, LockFree, delete_session, remove, Released, arrival, TypeOK,
       Arrived
  <2>3. OneLock'
    BY <1>8 DEF BailOut, LockFree, delete_session, remove, Released, arrival, TypeOK,
       Arrived, OneLock
  <2>4. Held'
    BY <1>8 DEF BailOut, LockFree, delete_session, remove, Released, arrival, TypeOK,
       OneLock, Arrived, Held
  <2>5. Registered'
    BY <1>8 DEF BailOut, LockFree, delete_session, remove, Released, arrival, TypeOK,
       Arrived, Registered
  <2>6. UpToDate'
    <3>1. \A t \in Sessions : stored'[t] \subseteq stored[t]
      BY <1>8 DEF BailOut, delete_session, TypeOK
    <3> QED
      BY <1>8, <3>1 DEF BailOut, arrival, TypeOK, UpToDate
  <2> QED
    BY <2>1, <2>2, <2>3, <2>4, <2>5, <2>6
<1>9. ASSUME NEW r \in Requests, save_history_now(r) PROVE GatewayInv'
  <2>1. TypeOK'
    BY <1>9 DEF save_history_now, Save, save_session, arrival, locks, TypeOK
  <2>2. Arrived'
    BY <1>9 DEF save_history_now, Save, save_session, arrival, locks, TypeOK, Arrived
  <2>3. OneLock'
    BY <1>9 DEF save_history_now, Save, save_session, arrival, locks, TypeOK, Arrived,
       OneLock
  <2>4. Held'
    BY <1>9 DEF save_history_now, Save, save_session, arrival, locks, TypeOK, OneLock,
       Arrived, Held
  <2>5. Registered'
    BY <1>9 DEF save_history_now, Save, save_session, arrival, locks, TypeOK, Arrived,
       Registered
  <2>6. UpToDate'
    BY <1>9 DEF save_history_now, Save, save_session, arrival, locks, TypeOK, Held,
       OneLock, Arrived, UpToDate
  <2> QED
    BY <2>1, <2>2, <2>3, <2>4, <2>5, <2>6
<1>10. ASSUME NEW r \in Requests, Checkpoint(r) PROVE GatewayInv'
  <2>1. TypeOK'
    BY <1>10 DEF Checkpoint, Save, save_session, arrival, locks, TypeOK
  <2>2. Arrived'
    BY <1>10 DEF Checkpoint, Save, save_session, arrival, locks, TypeOK, Arrived
  <2>3. OneLock'
    BY <1>10 DEF Checkpoint, Save, save_session, arrival, locks, TypeOK, Arrived, OneLock
  <2>4. Held'
    BY <1>10 DEF Checkpoint, Save, save_session, arrival, locks, TypeOK, OneLock,
       Arrived, Held
  <2>5. Registered'
    BY <1>10 DEF Checkpoint, Save, save_session, arrival, locks, TypeOK, Arrived,
       Registered
  <2>6. UpToDate'
    BY <1>10 DEF Checkpoint, Save, save_session, arrival, locks, TypeOK, Held, OneLock,
       Arrived, UpToDate
  <2> QED
    BY <2>1, <2>2, <2>3, <2>4, <2>5, <2>6
<1>11. ASSUME NEW r \in Requests, RunReturns(r) PROVE GatewayInv'
  <2>1. TypeOK'
    BY <1>11 DEF RunReturns, arrival, locks, store, TypeOK
  <2>2. Arrived'
    BY <1>11 DEF RunReturns, arrival, locks, store, TypeOK, Arrived
  <2>3. OneLock'
    BY <1>11 DEF RunReturns, arrival, locks, store, TypeOK, Arrived, OneLock
  <2>4. Held'
    BY <1>11 DEF RunReturns, arrival, locks, store, TypeOK, OneLock, Arrived, Held
  <2>5. Registered'
    BY <1>11 DEF RunReturns, arrival, locks, store, TypeOK, Arrived, Registered
  <2>6. UpToDate'
    BY <1>11 DEF RunReturns, arrival, locks, store, TypeOK, Held, OneLock, Arrived,
       UpToDate
  <2> QED
    BY <2>1, <2>2, <2>3, <2>4, <2>5, <2>6
<1>12. ASSUME NEW r \in Requests, PostLoop(r) PROVE GatewayInv'
  <2>1. /\ pc[r] = "post"
        /\ loaded' = [loaded EXCEPT ![r] = loaded[r] \cup {r}]
        /\ row' = row \cup {session[r]}
        /\ stored' = [stored EXCEPT ![session[r]] = loaded[r] \cup {r}]
        /\ UNCHANGED <<arrived, kind, session, isNew, cancelled, now, steers, finished>>
    BY <1>12 DEF PostLoop, Save, save_session, arrival
  <2>2. /\ loaded' \in [Requests -> SUBSET Requests] /\ row' \subseteq Sessions
        /\ stored' \in [Sessions -> SUBSET Requests]
    BY <2>1 DEF TypeOK
  <2>3. UpToDate'
    <3>1. \A q \in Requests : pc'[q] \in {"running", "post"} => pc[q] \in {"running", "post"} /\ q # r
      BY <1>12 DEF PostLoop, TypeOK
    <3>2. \A q \in Requests : pc'[q] \in {"running", "post"} => session[q] # session[r]
      BY <2>1, <3>1 DEF Held, OneLock
    <3> QED
      BY <2>1, <3>1, <3>2 DEF TypeOK, UpToDate
  <2>4. CASE kind[r] = "io"
    <3>1. pc' = [pc EXCEPT ![r] = "collect"] /\ UNCHANGED <<tokens, lockOf, ref, holder>>
      BY <1>12, <2>4 DEF PostLoop, locks
    <3>0. TypeOK'
      BY <2>1, <2>2, <3>1 DEF TypeOK
    <3>2. Arrived' /\ OneLock' /\ Registered'
      BY <2>1, <2>4, <3>1 DEF TypeOK, Arrived, OneLock, Registered
    <3>3. Held'
      BY <2>1, <3>1 DEF TypeOK, OneLock, Held
    <3> QED
      BY <2>3, <3>0, <3>2, <3>3
  <2>5. CASE kind[r] # "io"
    <3>1. /\ pc' = [pc EXCEPT ![r] = "ended"] /\ remove(session[r]) /\ Released(r)
      BY <1>12, <2>5 DEF PostLoop
    <3>2. TypeOK' /\ Arrived' /\ Registered'
      BY <2>1, <2>2, <3>1 DEF remove, Released, TypeOK, Arrived, Registered
    <3>3. OneLock'
      BY <2>1, <3>1 DEF Released, TypeOK, OneLock
    <3>4. Held'
      BY <2>1, <3>1 DEF Released, TypeOK, OneLock, Held
    <3> QED
      BY <2>3, <3>2, <3>3, <3>4
  <2> QED
    BY <2>4, <2>5
<1>13. ASSUME NEW r \in Requests, Collected(r) PROVE GatewayInv'
  <2>1. TypeOK'
    BY <1>13 DEF Collected, Released, arrival, store, TypeOK
  <2>2. Arrived'
    BY <1>13 DEF Collected, Released, arrival, store, TypeOK, Arrived
  <2>3. OneLock'
    BY <1>13 DEF Collected, Released, arrival, store, TypeOK, Arrived, OneLock
  <2>4. Held'
    BY <1>13 DEF Collected, Released, arrival, store, TypeOK, OneLock, Arrived, Held
  <2>5. Registered'
    BY <1>13 DEF Collected, Released, arrival, store, TypeOK, Arrived, Registered
  <2>6. UpToDate'
    BY <1>13 DEF Collected, Released, arrival, store, TypeOK, Held, OneLock, Arrived,
       UpToDate
  <2> QED
    BY <2>1, <2>2, <2>3, <2>4, <2>5, <2>6
<1>14. ASSUME NEW r \in Requests, IoTimeout(r) PROVE GatewayInv'
  <2>1. TypeOK'
    BY <1>14 DEF IoTimeout, Released, arrival, store, TypeOK
  <2>2. Arrived'
    BY <1>14 DEF IoTimeout, Released, arrival, store, TypeOK, Arrived
  <2>3. OneLock'
    BY <1>14 DEF IoTimeout, Released, arrival, store, TypeOK, Arrived, OneLock
  <2>4. Held'
    BY <1>14 DEF IoTimeout, Released, arrival, store, TypeOK, OneLock, Arrived, Held
  <2>5. Registered'
    BY <1>14 DEF IoTimeout, Released, arrival, store, TypeOK, Arrived, Registered
  <2>6. UpToDate'
    BY <1>14 DEF IoTimeout, Released, arrival, store, TypeOK, Held, OneLock, Arrived,
       UpToDate
  <2> QED
    BY <2>1, <2>2, <2>3, <2>4, <2>5, <2>6
<1>15. ASSUME NEW s \in Sessions, handle_cancel(s) PROVE GatewayInv'
  <2>1. TypeOK'
    BY <1>15 DEF handle_cancel, cancel, remove, arrival, locks, store, TypeOK
  <2>2. Arrived'
    BY <1>15 DEF handle_cancel, cancel, remove, arrival, locks, store, TypeOK, Arrived
  <2>3. OneLock'
    BY <1>15 DEF handle_cancel, cancel, remove, arrival, locks, store, TypeOK, Arrived,
       OneLock
  <2>4. Held'
    BY <1>15 DEF handle_cancel, cancel, remove, arrival, locks, store, TypeOK, OneLock,
       Arrived, Held
  <2>5. Registered'
    BY <1>15 DEF handle_cancel, cancel, remove, arrival, locks, store, TypeOK, Arrived,
       Registered
  <2>6. UpToDate'
    BY <1>15 DEF handle_cancel, cancel, remove, arrival, locks, store, TypeOK, Held,
       OneLock, Arrived, UpToDate
  <2> QED
    BY <2>1, <2>2, <2>3, <2>4, <2>5, <2>6
<1>16. ASSUME NEW s \in Sessions, handle_steer(s) PROVE GatewayInv'
  <2>1. TypeOK'
    BY <1>16 DEF handle_steer, cancel, remove, arrival, locks, store, TypeOK
  <2>2. Arrived'
    BY <1>16 DEF handle_steer, cancel, remove, arrival, locks, store, TypeOK, Arrived
  <2>3. OneLock'
    BY <1>16 DEF handle_steer, cancel, remove, arrival, locks, store, TypeOK, Arrived,
       OneLock
  <2>4. Held'
    BY <1>16 DEF handle_steer, cancel, remove, arrival, locks, store, TypeOK, OneLock,
       Arrived, Held
  <2>5. Registered'
    BY <1>16 DEF handle_steer, cancel, remove, arrival, locks, store, TypeOK, Arrived,
       Registered
  <2>6. UpToDate'
    BY <1>16 DEF handle_steer, cancel, remove, arrival, locks, store, TypeOK, Held,
       OneLock, Arrived, UpToDate
  <2> QED
    BY <2>1, <2>2, <2>3, <2>4, <2>5, <2>6
<1>17. ASSUME NEW r \in Requests, Disconnect(r) PROVE GatewayInv'
  <2>1. TypeOK'
    BY <1>17 DEF Disconnect, arrival, locks, store, TypeOK
  <2>2. Arrived'
    BY <1>17 DEF Disconnect, arrival, locks, store, TypeOK, Arrived
  <2>3. OneLock'
    BY <1>17 DEF Disconnect, arrival, locks, store, TypeOK, Arrived, OneLock
  <2>4. Held'
    BY <1>17 DEF Disconnect, arrival, locks, store, TypeOK, OneLock, Arrived, Held
  <2>5. Registered'
    BY <1>17 DEF Disconnect, arrival, locks, store, TypeOK, Arrived, Registered
  <2>6. UpToDate'
    BY <1>17 DEF Disconnect, arrival, locks, store, TypeOK, Held, OneLock, Arrived,
       UpToDate
  <2> QED
    BY <2>1, <2>2, <2>3, <2>4, <2>5, <2>6
<1>18. ASSUME NEW s \in Sessions, handle_delete_session(s) PROVE GatewayInv'
  <2>1. TypeOK'
    BY <1>18 DEF handle_delete_session, delete_session, arrival, locks, TypeOK
  <2>2. Arrived'
    BY <1>18 DEF handle_delete_session, delete_session, arrival, locks, TypeOK, Arrived
  <2>3. OneLock'
    BY <1>18 DEF handle_delete_session, delete_session, arrival, locks, TypeOK, Arrived,
       OneLock
  <2>4. Held'
    BY <1>18 DEF handle_delete_session, delete_session, arrival, locks, TypeOK, OneLock,
       Arrived, Held
  <2>5. Registered'
    BY <1>18 DEF handle_delete_session, delete_session, arrival, locks, TypeOK, Arrived,
       Registered
  <2>6. UpToDate'
    BY <1>18 DEF handle_delete_session, delete_session, arrival, locks, TypeOK, Held,
       OneLock, Arrived, UpToDate
  <2> QED
    BY <2>1, <2>2, <2>3, <2>4, <2>5, <2>6
<1>19. CASE UNCHANGED vars
  BY <1>19 DEF vars, TypeOK, Arrived, OneLock, Held, Registered, UpToDate
<1> QED
  BY <1>1, <1>2, <1>3, <1>4, <1>5, <1>6, <1>7, <1>8, <1>9, <1>10, <1>11, <1>12, <1>13, <1>14, <1>15, <1>16, <1>17, <1>18,
     <1>19 DEF Next, TaskStep

LEMMA GatewayInit == Init => GatewayInv
<1> SUFFICES ASSUME Init PROVE GatewayInv
  OBVIOUS
<1>1. (CHOOSE s \in Sessions : TRUE) \in Sessions
  BY GatewayAssumption
<1>2. TypeOK
  BY <1>1, GatewayAssumption DEF Init, TypeOK, Requests, None
<1> QED
  BY <1>2, GatewayAssumption DEF GatewayInv, Init, Arrived, OneLock, Held, Registered,
     UpToDate,
     HasLock, InRun, Requests, None

(* The inductive invariant holds of every behaviour.                       *)
LEMMA GatewayHolds == Spec => []GatewayInv
BY GatewayInit, GatewayStep, PTL DEF Spec

(* Requests of a session stay apart (session_lock, SessionTokens): however *)
(* the rin socket, HTTP and the IO consumer start, cancel and end them, no *)
(* two run at once, and no token is left behind in the registry.           *)
THEOREM RequestsStayApart == Spec => []RunsApart
<1>1. GatewayInv => RunsApart
  <2> SUFFICES ASSUME GatewayInv PROVE RunsApart
    OBVIOUS
  <2>1. RunsSerialised
    BY DEF GatewayInv, RunsSerialised, OneLock, Held, HasLock, InRun
  <2>2. NoGhosts
    BY DEF GatewayInv, NoGhosts, Registered
  <2> QED
    BY <2>1, <2>2 DEF GatewayInv, RunsApart
<1> QED
  BY <1>1, GatewayHolds, PTL

(* A save of a run never drops what another run of the session has saved   *)
(* (save_session overwrites the row with the run's own copy).              *)
THEOREM WritesAreKept == Spec => NoLostWrite
<1>1. GatewayInv /\ [Next]_vars
        => [\A s \in Sessions : s \in row' => stored[s] \subseteq stored'[s]]_vars
  <2> SUFFICES ASSUME GatewayInv, Next, NEW s \in Sessions, s \in row'
               PROVE  stored[s] \subseteq stored'[s]
    OBVIOUS
  <2> USE DEF GatewayInv
  <2>1. ASSUME NEW r \in Requests, pc[r] \in {"running", "post"}, Save(r)
        PROVE  stored[s] \subseteq stored'[s]
    BY <2>1 DEF Save, save_session, TypeOK, UpToDate
  <2>2. ASSUME NEW t \in Sessions, delete_session(t)
        PROVE  stored[s] \subseteq stored'[s]
    BY <2>2 DEF delete_session, TypeOK
  <2>3. ASSUME NEW r \in Requests, save_history_now(r) \/ Checkpoint(r) \/ PostLoop(r)
        PROVE  stored[s] \subseteq stored'[s]
    BY <2>1, <2>3 DEF save_history_now, Checkpoint, PostLoop
  <2>4. ASSUME NEW r \in Requests, BailOut(r)
        PROVE  stored[s] \subseteq stored'[s]
    BY <2>2, <2>4 DEF BailOut, TypeOK
  <2>5. ASSUME NEW t \in Sessions, handle_delete_session(t)
        PROVE  stored[s] \subseteq stored'[s]
    BY <2>2, <2>5 DEF handle_delete_session
  <2>6. ASSUME NEW r \in Requests, NEW t \in Sessions, NEW new \in BOOLEAN,
               RinAgent(r, t, new) \/ handle_agent(r, t, new) \/ IoInput(r, t)
        PROVE  stored' = stored
    BY <2>6 DEF RinAgent, handle_agent, IoInput, store
  <2>7. ASSUME NEW r \in Requests,
               \/ GetLock(r) \/ AcquirePermit(r) \/ Begin(r) \/ Reject(r) \/ RunReturns(r)
               \/ Collected(r) \/ IoTimeout(r) \/ Disconnect(r)
        PROVE  stored' = stored
    BY <2>7 DEF GetLock, AcquirePermit, Begin, Reject, RunReturns, Collected, IoTimeout,
       Disconnect, store
  <2>8. ASSUME NEW t \in Sessions, handle_cancel(t) \/ handle_steer(t)
        PROVE  stored' = stored
    BY <2>8 DEF handle_cancel, handle_steer, store
  <2> QED
    BY <2>3, <2>4, <2>5, <2>6, <2>7, <2>8 DEF Next, TaskStep
<1> QED
  BY <1>1, GatewayHolds, PTL DEF Spec, NoLostWrite

-----------------------------------------------------------------------------
(* ModelCore.                                                              *)

Pcs == {"idle", "reading", "backoff", "answered", "failed", "cancelled"}
ChunkTypes == {"text", "call", "end", "Cancelled", "RateLimited", "AuthFailed",
               "ServerError", "ClientError", "Provider", "Network", "Stream",
               "StreamStalled"}
Chunk == [type : ChunkTypes, n : Nat, part : {"none", "half", "whole", "cut"}]
Asks == [pc : Pcs, retries : 0..MaxRetries, response : Seq(Chunk), cancelled : BOOLEAN]
Wires == [kind : {"none", "anthropic", "openai", "gemini"}, open : BOOLEAN, events : Nat,
          opened : Nat, pend : Seq(Chunk), sent : Seq(Chunk), cut : BOOLEAN]
Breakers == [state : {"closed", "open", "halfopen"},
             failures : 0..Threshold, age : 0..Cooldown]

RouterTypes ==
    /\ kinds \in KindLists
    /\ breaker \in [Providers -> Breakers]
    /\ active \in Providers

RouterInv == RouterTypes /\ ProbeIsActive /\ OpenOnlyIfAllOpen

(* What a stream has sent, the calls it has open and how many it has       *)
(* started: every call has a number of its own, and those sent are whole.  *)
Fit(sent, pend, opened) ==
    /\ Whole(sent)
    /\ \A i \in 1..Len(sent) : sent[i].type = "call" => sent[i].n <= opened
    /\ \A k \in 1..Len(pend) : pend[k].type = "call" /\ pend[k].n <= opened
    /\ \A k, l \in 1..Len(pend) : k # l => pend[k].n # pend[l].n
    /\ \A i \in 1..Len(sent), k \in 1..Len(pend) :
            sent[i].type = "call" => sent[i].n # pend[k].n

(* A turn, the task of its stream and the channel between them.            *)
Streamed(a, w, c) ==
    /\ a.pc = "reading" => a.response \o c = w.sent
    /\ w.kind # "none" => a.pc = "reading" /\ Fit(w.sent, w.pend, w.opened)
    /\ w.kind # "none" \/ w.cut => \A i \in 1..Len(w.sent) : w.sent[i].type # "end"
    /\ a.pc = "answered" => ~w.cut
    /\ Whole(a.response) /\ Whole(w.sent)

StreamTypes ==
    /\ asking \in [Turns -> Asks]
    /\ wire \in [Turns -> Wires]
    /\ chan \in [Turns -> Seq(Chunk)]

StreamInv == StreamTypes /\ \A r \in Turns : Streamed(asking[r], wire[r], chan[r])

CoreInv == RouterInv /\ StreamInv

-----------------------------------------------------------------------------
(* The router.                                                             *)

LEMMA KindsFacts ==
    ASSUME kinds \in KindLists
    PROVE  /\ kinds \in Seq({"anthropic", "openai", "gemini"})
           /\ Len(kinds) \in Nat \ {0} /\ Providers = 1..Len(kinds)
BY ModelCoreAssumption DEF Providers

(* try_failover looks at every provider.                                   *)
LEMMA AfterActiveOnto ==
    ASSUME NEW N \in Nat \ {0}, NEW a \in 1..N
    PROVE  /\ \A i \in 1..N : ((a - 1 + i) % N) + 1 \in 1..N
           /\ \A p \in 1..N : \E i \in 1..N : ((a - 1 + i) % N) + 1 = p
<1>1. \A i \in 1..N : ((a - 1 + i) % N) + 1 \in 1..N
  OBVIOUS
<1>2. ASSUME NEW p \in 1..N
      PROVE  \E i \in 1..N : ((a - 1 + i) % N) + 1 = p
  <2>1. CASE p > a
    <3>1. (a - 1 + (p - a)) % N = p - 1
      <4>1. a - 1 + (p - a) = p - 1 /\ p - 1 \in 0..(N - 1)
        OBVIOUS
      <4>2. (p - 1) % N = p - 1
        BY <4>1
      <4> QED BY <4>1, <4>2
    <3>2. p - a \in 1..N
      BY <2>1
    <3> QED
      BY <3>1, <3>2
  <2>2. CASE p <= a
    <3>1. (a - 1 + (p - a + N)) % N = p - 1
      <4>1. a - 1 + (p - a + N) = p - 1 + N /\ p - 1 \in 0..(N - 1)
        OBVIOUS
      <4>2. (p - 1 + N) % N = p - 1
        BY <4>1
      <4> QED BY <4>1, <4>2
    <3>2. PICK i \in 1..N : i = p - a + N
      BY <2>2
    <3>3. ((a - 1 + i) % N) + 1 = p
      BY <3>1, <3>2
    <3> QED
      BY <3>3
  <2> QED
    BY <2>1, <2>2
<1> QED
  BY <1>1, <1>2

LEMMA FailureRecorded ==
    ASSUME NEW b \in Breakers
    PROVE  /\ record_failure(b) \in Breakers
           /\ record_failure(b).state # "halfopen"
           /\ Probed(b) \in Breakers
           /\ ~is_open(b) => Probed(b).state # "open"
           /\ is_open(b) => b.state = "open"
<1>1. Threshold \in Nat \ {0} /\ Cooldown \in Nat \ {0}
  BY ModelCoreAssumption
<1> QED
  BY <1>1 DEF record_failure, OneMore, Probed, Cooled, is_open, Breakers

LEMMA FailoverKeeps ==
    ASSUME RouterInv, UNCHANGED kinds, try_failover
    PROVE  RouterInv'
<1> DEFINE N == Len(kinds)
           failed == [breaker EXCEPT ![active] = record_failure(@)]
           found == Candidates(failed)
           first == CHOOSE i \in found : \A j \in found : i <= j
           next == AfterActive[first]
<1>1. /\ N \in Nat \ {0} /\ Providers = 1..N /\ Providers' = Providers
      /\ kinds' = kinds /\ kinds \in KindLists
      /\ breaker \in [Providers -> Breakers] /\ active \in Providers
  BY KindsFacts DEF RouterInv, RouterTypes, Providers
<1>2. /\ \A p \in Providers : breaker[p].state = "halfopen" => p = active
  BY DEF RouterInv, ProbeIsActive
<1>3. /\ failed \in [Providers -> Breakers]
      /\ \A p \in Providers : failed[p].state # "halfopen"
  <2>1. breaker[active] \in Breakers
    BY <1>1
  <2>2. record_failure(breaker[active]) \in Breakers
        /\ record_failure(breaker[active]).state # "halfopen"
    BY <2>1, FailureRecorded
  <2> QED
    BY <1>1, <1>2, <2>2
<1>4. /\ AfterActive \in [1..N -> 1..N]
      /\ \A p \in 1..N : \E i \in 1..N : AfterActive[i] = p
  BY <1>1, AfterActiveOnto DEF AfterActive
<1>5. found = {i \in Providers : ~is_open(failed[AfterActive[i]])}
  BY DEF Candidates
<1> HIDE DEF failed, N
<1>6. CASE found = {}
  <2>1. breaker' = failed /\ active' = active
    BY <1>6 DEF try_failover, failed
  <2>2. \A p \in Providers : failed[p].state = "open"
    <3> SUFFICES ASSUME NEW p \in Providers PROVE failed[p].state = "open"
      OBVIOUS
    <3>1. PICK i \in Providers : AfterActive[i] = p
      BY <1>1, <1>4
    <3>2. is_open(failed[p])
      BY <3>1, <1>5, <1>6
    <3> QED
      BY <3>2 DEF is_open
  <2> QED
    BY <1>1, <1>3, <2>1, <2>2 DEF RouterInv, RouterTypes, ProbeIsActive, OpenOnlyIfAllOpen
<1>7. CASE found # {}
  <2>1. /\ active' = next
        /\ breaker' = [failed EXCEPT ![next] = Probed(@)]
    BY <1>7 DEF try_failover, failed
  <2>2. first \in found
    <3>1. found \in SUBSET Nat
      BY <1>1, <1>5
    <3>2. \E m \in found : \A n \in found : m <= n
      <4> HIDE DEF found
      <4> QED BY <3>1, <1>7, LeastNumber
    <3> QED
      BY <3>2
  <2>3. next \in Providers /\ ~is_open(failed[next])
    BY <1>1, <1>4, <1>5, <2>2
  <2> HIDE DEF next
  <2>4. Probed(failed[next]) \in Breakers /\ Probed(failed[next]).state # "open"
    BY <1>3, <2>3, FailureRecorded
  <2>5. /\ breaker' \in [Providers -> Breakers]
        /\ breaker'[next].state # "open"
        /\ \A p \in Providers : p # next => breaker'[p].state # "halfopen"
    BY <1>3, <2>1, <2>3, <2>4
  <2> QED
    BY <1>1, <2>1, <2>3, <2>5 DEF RouterInv, RouterTypes, ProbeIsActive, OpenOnlyIfAllOpen
<1> QED
  BY <1>6, <1>7

LEMMA SuccessKeeps ==
    ASSUME RouterInv, UNCHANGED <<kinds, active>>, record_success
    PROVE  RouterInv'
<1>1. /\ Providers' = Providers /\ kinds' = kinds /\ kinds \in KindLists
      /\ breaker \in [Providers -> Breakers] /\ active \in Providers /\ active' = active
      /\ breaker' = [breaker EXCEPT ![active] = NewBreaker]
  BY DEF RouterInv, RouterTypes, Providers, record_success
<1>2. NewBreaker \in Breakers /\ NewBreaker.state = "closed"
  BY ModelCoreAssumption DEF NewBreaker, Breakers
<1>3. /\ breaker' \in [Providers -> Breakers] /\ breaker'[active].state = "closed"
      /\ \A p \in Providers : p # active => breaker'[p] = breaker[p]
  BY <1>1, <1>2
<1> QED
  BY <1>1, <1>3 DEF RouterInv, RouterTypes, ProbeIsActive, OpenOnlyIfAllOpen

LEMMA TickKeeps ==
    ASSUME RouterInv, Tick
    PROVE  RouterInv'
<1>1. /\ Providers' = Providers /\ kinds' = kinds /\ kinds \in KindLists
      /\ breaker \in [Providers -> Breakers] /\ active \in Providers /\ active' = active
      /\ breaker' = [p \in Providers |-> Aged(breaker[p])]
  BY DEF RouterInv, RouterTypes, Providers, Tick
<1>2. ASSUME NEW b \in Breakers
      PROVE  Aged(b) \in Breakers /\ Aged(b).state = b.state
  BY ModelCoreAssumption DEF Aged, Breakers
<1>3. /\ breaker' \in [Providers -> Breakers]
      /\ \A p \in Providers : breaker'[p].state = breaker[p].state
  BY <1>1, <1>2
<1> QED
  BY <1>1, <1>3 DEF RouterInv, RouterTypes, ProbeIsActive, OpenOnlyIfAllOpen

LEMMA RouterSame ==
    ASSUME RouterInv, UNCHANGED <<kinds, breaker, active>>
    PROVE  RouterInv'
BY DEF RouterInv, RouterTypes, Providers, ProbeIsActive, OpenOnlyIfAllOpen

LEMMA RouterInit ==
    ASSUME CoreInit
    PROVE  RouterInv
<1>1. kinds \in KindLists /\ breaker = [p \in Providers |-> NewBreaker] /\ active = 1
  BY DEF CoreInit
<1>2. NewBreaker \in Breakers /\ NewBreaker.state = "closed"
  BY ModelCoreAssumption DEF NewBreaker, Breakers
<1> QED
  BY <1>1, <1>2, KindsFacts DEF RouterInv, RouterTypes, ProbeIsActive, OpenOnlyIfAllOpen

(* The router's part of the invariant.                                     *)
LEMMA RouterStep ==
    ASSUME RouterInv, [CoreNext]_coreVars
    PROVE  RouterInv'
<1>1. CASE UNCHANGED coreVars
  BY <1>1, RouterSame DEF coreVars
<1>2. CASE Tick
  BY <1>2, TickKeeps
<1>3. ASSUME NEW r \in Turns, Wire(r) \/ Stalled(r) \/ Cut(r) \/ Ask(r) \/ Retry(r) \/ Cancel(r)
      PROVE  RouterInv'
  <2>1. UNCHANGED <<kinds, breaker, active>>
    BY <1>3 DEF Wire, Stalled, Cut, Ask, Retry, Cancel, HttpError, NetworkError, Delta,
                Respond, CallStart, CallArguments, BlockStop, FinishReason, Finish, FunctionCall,
                StreamError, StreamEnds, CutWith, Issue, Send, Close, router
  <2> QED
    BY <2>1, RouterSame
<1>4. ASSUME NEW r \in Turns, Read(r)
      PROVE  RouterInv'
  <2>1. CASE ReadChunk(r) \/ ReadCancelled(r) \/ ReadFatal(r)
    BY <2>1, RouterSame DEF ReadChunk, ReadCancelled, ReadFatal, Consume
  <2>2. CASE ReadRetryable(r)
    BY <2>2, RouterSame, FailoverKeeps DEF ReadRetryable, Consume
  <2>3. CASE ReadEnd(r)
    BY <2>3, SuccessKeeps DEF ReadEnd, Consume
  <2> QED
    BY <1>4, <2>1, <2>2, <2>3 DEF Read
<1> QED
  BY <1>1, <1>2, <1>3, <1>4 DEF CoreNext

-----------------------------------------------------------------------------
(* What one stream sends.                                                  *)

LEMMA ChunkFields ==
    ASSUME NEW c \in Chunk
    PROVE  /\ c.type \in ChunkTypes /\ c.n \in Nat /\ c.part \in {"none", "half", "whole", "cut"}
BY DEF Chunk

(* What a turn has read of a stream is whole when the stream is.           *)
LEMMA WholePrefix ==
    ASSUME NEW s \in Seq(Chunk), NEW t \in Seq(Chunk), Whole(s),
           Len(t) <= Len(s), \A i \in 1..Len(t) : t[i] = s[i]
    PROVE  Whole(t)
<1>1. Len(s) \in Nat /\ Len(t) \in Nat
  OBVIOUS
<1>2. \A i \in 1..Len(t) : i \in 1..Len(s)
  BY <1>1
<1> QED
  BY <1>2 DEF Whole

(* One chunk more: no call, or a call with the next number.                *)
LEMMA FitAppend ==
    ASSUME NEW sent \in Seq(Chunk), NEW pend \in Seq(Chunk),
           NEW opened \in Nat, NEW opened2 \in Nat, NEW c \in Chunk,
           Fit(sent, pend, opened),
           \/ c.type # "call" /\ opened2 = opened
           \/ c.part # "half" /\ c.n = opened + 1 /\ opened2 = opened + 1
    PROVE  Fit(Append(sent, c), pend, opened2)
<1> DEFINE u == Append(sent, c)
<1>1. /\ Len(u) = Len(sent) + 1 /\ Len(sent) \in Nat /\ u[Len(sent) + 1] = c
      /\ \A i \in 1..Len(sent) : u[i] = sent[i] /\ sent[i] \in Chunk
      /\ Len(pend) \in Nat /\ \A k \in 1..Len(pend) : pend[k] \in Chunk
  OBVIOUS
<1> HIDE DEF u
<1>2. \A i \in 1..Len(u) : i \in 1..Len(sent) \/ i = Len(sent) + 1
  BY <1>1
<1>3. \A i \in 1..Len(sent) : /\ sent[i].type = "call" => sent[i].n <= opened /\ sent[i].part # "half"
                              /\ sent[i].n \in Nat /\ u[i] = sent[i]
  BY <1>1, ChunkFields DEF Fit, Whole
<1>4. \A k \in 1..Len(pend) : /\ pend[k].type = "call" /\ pend[k].n <= opened /\ pend[k].n \in Nat
                              /\ pend[k].n <= opened2 /\ pend[k].n # opened + 1
  BY <1>1, ChunkFields DEF Fit
<1>5. ASSUME NEW i \in 1..Len(u), u[i].type = "call"
      PROVE  u[i].part # "half" /\ u[i].n <= opened2
  BY <1>1, <1>2, <1>3, <1>5
<1>6. ASSUME NEW i \in 1..Len(u), NEW j \in 1..Len(u), i # j,
             u[i].type = "call", u[j].type = "call"
      PROVE  u[i].n # u[j].n
  <2>1. CASE i \in 1..Len(sent) /\ j \in 1..Len(sent)
    BY <1>3, <1>6, <2>1 DEF Fit, Whole
  <2>2. CASE i \in 1..Len(sent) /\ j = Len(sent) + 1
    BY <1>1, <1>3, <1>6, <2>2
  <2>3. CASE j \in 1..Len(sent) /\ i = Len(sent) + 1
    BY <1>1, <1>3, <1>6, <2>3
  <2> QED
    BY <1>2, <1>6, <2>1, <2>2, <2>3
<1>7. ASSUME NEW i \in 1..Len(u), NEW k \in 1..Len(pend), u[i].type = "call"
      PROVE  u[i].n # pend[k].n
  <2>1. CASE i \in 1..Len(sent)
    BY <1>3, <1>7, <2>1 DEF Fit
  <2>2. CASE i = Len(sent) + 1
    BY <1>1, <1>4, <1>7, <2>2
  <2> QED
    BY <1>2, <2>1, <2>2
<1>8. \A k, l \in 1..Len(pend) : k # l => pend[k].n # pend[l].n
  BY DEF Fit
<1>9. Fit(u, pend, opened2)
  BY <1>4, <1>5, <1>6, <1>7, <1>8 DEF Fit, Whole
<1> QED
  BY <1>9 DEF u

(* Some of the open calls are sent, others stay open: h and m say which,   *)
(* and m is 0 for a call that starts.                                      *)
Moves(h, m, chunks, pend, opened, pend2, opened2) ==
    /\ h \in [1..Len(chunks) -> 1..Len(pend)]
    /\ \A i, j \in 1..Len(chunks) : i # j => h[i] # h[j]
    /\ \A j \in 1..Len(chunks) :
            /\ chunks[j].type = "call" /\ chunks[j].n = pend[h[j]].n
            /\ chunks[j].part # "half"
    /\ m \in [1..Len(pend2) -> 0..Len(pend)]
    /\ \A k, l \in 1..Len(pend2) : k # l => m[k] # m[l]
    /\ \A j \in 1..Len(chunks), l \in 1..Len(pend2) : h[j] # m[l]
    /\ \A l \in 1..Len(pend2) : m[l] = 0 =>
            pend2[l].type = "call" /\ pend2[l].n = opened + 1 /\ opened2 = opened + 1
    /\ \A l \in 1..Len(pend2) : m[l] # 0 =>
            pend2[l].type = "call" /\ pend2[l].n = pend[m[l]].n

LEMMA FitSend ==
    ASSUME NEW sent \in Seq(Chunk), NEW pend \in Seq(Chunk), NEW opened \in Nat,
           NEW chunks \in Seq(Chunk), NEW pend2 \in Seq(Chunk), NEW opened2 \in Nat,
           Fit(sent, pend, opened),
           opened2 \in {opened, opened + 1},
           NEW h, NEW m, Moves(h, m, chunks, pend, opened, pend2, opened2)
    PROVE  Fit(sent \o chunks, pend2, opened2)
<1>0. Moves(h, m, chunks, pend, opened, pend2, opened2)
  OBVIOUS
<1> USE DEF Moves
<1> DEFINE u == sent \o chunks
<1>1. /\ Len(sent) \in Nat /\ Len(chunks) \in Nat /\ Len(pend) \in Nat /\ Len(pend2) \in Nat
      /\ Len(u) = Len(sent) + Len(chunks)
      /\ \A i \in 1..Len(u) : u[i] = IF i <= Len(sent) THEN sent[i] ELSE chunks[i - Len(sent)]
  BY ConcatProperties
<1> HIDE DEF u
<1>2. \A i \in 1..Len(sent) : /\ sent[i].type = "call" => sent[i].n <= opened /\ sent[i].part # "half"
                              /\ sent[i].n \in Nat
  <2>1. \A i \in 1..Len(sent) : sent[i] \in Chunk
    OBVIOUS
  <2> QED
    BY <2>1, ChunkFields DEF Fit, Whole
<1>3. \A k \in 1..Len(pend) : /\ pend[k].type = "call" /\ pend[k].n <= opened /\ pend[k].n \in Nat
  <2>1. \A i \in 1..Len(pend) : pend[i] \in Chunk
    OBVIOUS
  <2> QED
    BY <2>1, ChunkFields DEF Fit
<1>4. \A k, l \in 1..Len(pend) : k # l => pend[k].n # pend[l].n
  BY DEF Fit
<1>5. \A i \in 1..Len(sent), k \in 1..Len(pend) : sent[i].type = "call" => sent[i].n # pend[k].n
  BY DEF Fit
<1>6. \A i \in 1..Len(u) : \/ i \in 1..Len(sent) /\ u[i] = sent[i]
                           \/ i - Len(sent) \in 1..Len(chunks) /\ u[i] = chunks[i - Len(sent)]
  BY <1>1
<1>7. \A j \in 1..Len(chunks) : /\ h[j] \in 1..Len(pend) /\ chunks[j].n = pend[h[j]].n
                                /\ chunks[j].type = "call"
                                /\ chunks[j].n <= opened /\ chunks[j].part # "half"
                                /\ chunks[j].n \in Nat
  BY <1>3
<1>8. \A l \in 1..Len(pend2) :
        /\ pend2[l].type = "call" /\ pend2[l].n <= opened2
        /\ \/ m[l] = 0 /\ pend2[l].n = opened + 1
           \/ m[l] \in 1..Len(pend) /\ pend2[l].n = pend[m[l]].n
  <2> SUFFICES ASSUME NEW l \in 1..Len(pend2)
               PROVE  /\ pend2[l].type = "call" /\ pend2[l].n <= opened2
                      /\ \/ m[l] = 0 /\ pend2[l].n = opened + 1
                         \/ m[l] \in 1..Len(pend) /\ pend2[l].n = pend[m[l]].n
    OBVIOUS
  <2>1. m[l] \in 0..Len(pend)
    OBVIOUS
  <2>2. CASE m[l] = 0
    BY <2>2
  <2>3. CASE m[l] # 0
    <3>1. m[l] \in 1..Len(pend) /\ pend2[l].n = pend[m[l]].n /\ pend2[l].type = "call"
      BY <1>1, <2>1, <2>3
    <3>2. pend[m[l]].n <= opened /\ pend[m[l]].n \in Nat
      BY <1>3, <3>1
    <3> QED
      BY <3>1, <3>2
  <2> QED
    BY <2>2, <2>3
<1>9. ASSUME NEW i \in 1..Len(u), u[i].type = "call"
      PROVE  u[i].part # "half" /\ u[i].n <= opened2
  <2>1. CASE i \in 1..Len(sent) /\ u[i] = sent[i]
    BY <1>2, <1>9, <2>1
  <2>2. CASE i - Len(sent) \in 1..Len(chunks) /\ u[i] = chunks[i - Len(sent)]
    BY SMTT(60), <1>7, <1>9, <2>2
  <2> QED
    BY <1>6, <2>1, <2>2
<1>10. ASSUME NEW i \in 1..Len(u), NEW j \in 1..Len(u), i # j,
             u[i].type = "call", u[j].type = "call"
      PROVE  u[i].n # u[j].n
  <2>1. CASE /\ i \in 1..Len(sent) /\ u[i] = sent[i]
             /\ j \in 1..Len(sent) /\ u[j] = sent[j]
    BY <1>10, <2>1 DEF Fit, Whole
  <2>2. CASE /\ i \in 1..Len(sent) /\ u[i] = sent[i]
             /\ j - Len(sent) \in 1..Len(chunks) /\ u[j] = chunks[j - Len(sent)]
    <3>1. PICK x \in 1..Len(chunks) : u[j] = chunks[x]
      BY <2>2
    <3>2. h[x] \in 1..Len(pend) /\ u[j].n = pend[h[x]].n
      BY <1>7, <3>1
    <3> QED
      BY SMTT(60), <1>5, <1>10, <2>2, <3>2
  <2>3. CASE /\ j \in 1..Len(sent) /\ u[j] = sent[j]
             /\ i - Len(sent) \in 1..Len(chunks) /\ u[i] = chunks[i - Len(sent)]
    <3>1. PICK x \in 1..Len(chunks) : u[i] = chunks[x]
      BY <2>3
    <3>2. h[x] \in 1..Len(pend) /\ u[i].n = pend[h[x]].n
      BY <1>7, <3>1
    <3> QED
      BY <1>5, <1>10, <2>3, <3>2
  <2>4. CASE /\ i - Len(sent) \in 1..Len(chunks) /\ u[i] = chunks[i - Len(sent)]
             /\ j - Len(sent) \in 1..Len(chunks) /\ u[j] = chunks[j - Len(sent)]
    <3>1. i - Len(sent) # j - Len(sent)
      BY <1>1, <1>10
    <3>2. PICK x \in 1..Len(chunks), y \in 1..Len(chunks) :
            x = i - Len(sent) /\ y = j - Len(sent)
      BY <2>4
    <3>3. h[x] # h[y] /\ h[x] \in 1..Len(pend) /\ h[y] \in 1..Len(pend)
      BY <3>1, <3>2
    <3>4. u[i].n = pend[h[x]].n /\ u[j].n = pend[h[y]].n
      BY <1>7, <2>4, <3>2
    <3> QED
      BY SMTT(60), <1>4, <3>3, <3>4
  <2> QED
    BY <1>6, <2>1, <2>2, <2>3, <2>4
<1>11. ASSUME NEW i \in 1..Len(u), NEW l \in 1..Len(pend2), u[i].type = "call"
      PROVE  u[i].n # pend2[l].n
  <2>1. CASE i \in 1..Len(sent) /\ u[i] = sent[i]
    <3>0. u[i].n \in Nat /\ u[i].n <= opened
      BY <1>2, <1>11, <2>1
    <3>1. CASE m[l] = 0 /\ pend2[l].n = opened + 1
      BY <3>0, <3>1
    <3>2. CASE m[l] \in 1..Len(pend) /\ pend2[l].n = pend[m[l]].n
      BY <1>5, <1>11, <2>1, <3>2
    <3> QED
      BY <1>8, <3>1, <3>2
  <2>2. CASE i - Len(sent) \in 1..Len(chunks) /\ u[i] = chunks[i - Len(sent)]
    <3>0. PICK x \in 1..Len(chunks) : x = i - Len(sent) /\ u[i] = chunks[x]
      BY <2>2
    <3>3. /\ h[x] \in 1..Len(pend) /\ u[i].n = pend[h[x]].n /\ h[x] # m[l]
          /\ u[i].n <= opened /\ u[i].n \in Nat
      BY <1>7, <3>0
    <3>1. CASE m[l] = 0 /\ pend2[l].n = opened + 1
      BY <3>3, <3>1
    <3>2. CASE m[l] \in 1..Len(pend) /\ pend2[l].n = pend[m[l]].n
      BY SMTT(60), <1>4, <3>2, <3>3
    <3> QED
      BY <1>8, <3>1, <3>2
  <2> QED
    BY <1>6, <2>1, <2>2
<1>12. ASSUME NEW k \in 1..Len(pend2), NEW l \in 1..Len(pend2), k # l
       PROVE  pend2[k].n # pend2[l].n
  <2>0. m[k] # m[l]
    BY <1>12
  <2>1. CASE /\ m[k] \in 1..Len(pend) /\ pend2[k].n = pend[m[k]].n
             /\ m[l] \in 1..Len(pend) /\ pend2[l].n = pend[m[l]].n
    BY <1>4, <2>0, <2>1
  <2>2. CASE /\ m[k] = 0 /\ pend2[k].n = opened + 1
             /\ m[l] \in 1..Len(pend) /\ pend2[l].n = pend[m[l]].n
    BY <1>3, <2>2
  <2>3. CASE /\ m[l] = 0 /\ pend2[l].n = opened + 1
             /\ m[k] \in 1..Len(pend) /\ pend2[k].n = pend[m[k]].n
    BY <1>3, <2>3
  <2> QED
    BY <1>8, <2>0, <2>1, <2>2, <2>3
<1>13. Fit(u, pend2, opened2)
  BY <1>8, <1>9, <1>10, <1>11, <1>12 DEF Fit, Whole
<1> QED
  BY <1>13 DEF u

(* Where in pend the calls are that push_fragment seals and leaves.        *)
LEMMA SealPlaces ==
    ASSUME NEW pend \in Seq(Chunk)
    PROVE  /\ Sealed(pend) \in Seq(Chunk) /\ Unsealed(pend) \in Seq(Chunk)
           /\ \E f \in [1..Len(Sealed(pend)) -> 1..Len(pend)],
                 g \in [1..Len(Unsealed(pend)) -> 1..Len(pend)] :
                /\ \A i, j \in 1..Len(Sealed(pend)) : i # j => f[i] # f[j]
                /\ \A i, j \in 1..Len(Unsealed(pend)) : i # j => g[i] # g[j]
                /\ \A j \in 1..Len(Sealed(pend)) :
                        Sealed(pend)[j] = pend[f[j]] /\ pend[f[j]].part # "half"
                /\ \A j \in 1..Len(Unsealed(pend)) :
                        Unsealed(pend)[j] = pend[g[j]] /\ pend[g[j]].part = "half"
                /\ \A k \in 1..Len(pend) : pend[k].part = "half" =>
                        \E j \in 1..Len(Unsealed(pend)) : g[j] = k
<1> DEFINE I == {i \in 1..Len(pend) : pend[i].part # "half"}
           J == {i \in 1..Len(pend) : pend[i].part = "half"}
<1>1. Sealed(pend) = At(pend, I) /\ Unsealed(pend) = At(pend, J)
  BY DEF Sealed, Unsealed
<1> HIDE DEF I, J
<1>2. /\ At(pend, I) \in Seq(Chunk) /\ \E f : Places(f, At(pend, I), pend, I, Len(pend))
      /\ At(pend, J) \in Seq(Chunk) /\ \E f : Places(f, At(pend, J), pend, J, Len(pend))
  BY AtPlaces
<1>3. PICK f : Places(f, Sealed(pend), pend, I, Len(pend))
  BY <1>1, <1>2
<1>4. PICK g : Places(g, Unsealed(pend), pend, J, Len(pend))
  BY <1>1, <1>2
<1>5. /\ Sealed(pend) \in Seq(Chunk) /\ Unsealed(pend) \in Seq(Chunk)
      /\ Len(Sealed(pend)) \in Nat /\ Len(Unsealed(pend)) \in Nat
  BY <1>1, <1>2
<1>6. /\ f \in [1..Len(Sealed(pend)) -> 1..Len(pend)]
      /\ \A j \in 1..Len(Sealed(pend)) : Sealed(pend)[j] = pend[f[j]] /\ f[j] \in I
      /\ \A i, j \in 1..Len(Sealed(pend)) : i < j => f[i] < f[j]
  BY <1>3 DEF Places
<1>7. /\ g \in [1..Len(Unsealed(pend)) -> 1..Len(pend)]
      /\ \A j \in 1..Len(Unsealed(pend)) : Unsealed(pend)[j] = pend[g[j]] /\ g[j] \in J
      /\ \A i, j \in 1..Len(Unsealed(pend)) : i < j => g[i] < g[j]
      /\ \A k \in (1..Len(pend)) \cap J : \E j \in 1..Len(Unsealed(pend)) : g[j] = k
  BY <1>4 DEF Places
<1>8. \A i, j \in 1..Len(Sealed(pend)) : i # j => f[i] # f[j]
  <2> SUFFICES ASSUME NEW i \in 1..Len(Sealed(pend)), NEW j \in 1..Len(Sealed(pend)), i # j
               PROVE  f[i] # f[j]
    OBVIOUS
  <2>1. f[i] \in Int /\ f[j] \in Int /\ (i < j \/ j < i)
    BY <1>5, <1>6
  <2> QED
    BY <2>1, <1>6
<1>9. \A i, j \in 1..Len(Unsealed(pend)) : i # j => g[i] # g[j]
  <2> SUFFICES ASSUME NEW i \in 1..Len(Unsealed(pend)), NEW j \in 1..Len(Unsealed(pend)), i # j
               PROVE  g[i] # g[j]
    OBVIOUS
  <2>1. g[i] \in Int /\ g[j] \in Int /\ (i < j \/ j < i)
    BY SMTT(60), <1>5, <1>7
  <2> QED
    BY <2>1, <1>7
<1>10. /\ \A j \in 1..Len(Sealed(pend)) : pend[f[j]].part # "half"
       /\ \A j \in 1..Len(Unsealed(pend)) : pend[g[j]].part = "half"
       /\ \A k \in 1..Len(pend) : pend[k].part = "half" => k \in (1..Len(pend)) \cap J
  BY <1>6, <1>7 DEF I, J
<1>11. \A k \in 1..Len(pend) : pend[k].part = "half" =>
                \E j \in 1..Len(Unsealed(pend)) : g[j] = k
  BY <1>7, <1>10
<1>12. \E ff \in [1..Len(Sealed(pend)) -> 1..Len(pend)],
          gg \in [1..Len(Unsealed(pend)) -> 1..Len(pend)] :
                /\ \A i, j \in 1..Len(Sealed(pend)) : i # j => ff[i] # ff[j]
                /\ \A i, j \in 1..Len(Unsealed(pend)) : i # j => gg[i] # gg[j]
                /\ \A j \in 1..Len(Sealed(pend)) :
                        Sealed(pend)[j] = pend[ff[j]] /\ pend[ff[j]].part # "half"
                /\ \A j \in 1..Len(Unsealed(pend)) :
                        Unsealed(pend)[j] = pend[gg[j]] /\ pend[gg[j]].part = "half"
                /\ \A k \in 1..Len(pend) : pend[k].part = "half" =>
                        \E j \in 1..Len(Unsealed(pend)) : gg[j] = k
  <2> f \in [1..Len(Sealed(pend)) -> 1..Len(pend)] /\ g \in [1..Len(Unsealed(pend)) -> 1..Len(pend)]
    BY <1>6, <1>7, Zenon
  <2> WITNESS f \in [1..Len(Sealed(pend)) -> 1..Len(pend)],
              g \in [1..Len(Unsealed(pend)) -> 1..Len(pend)]
  <2> QED
    BY <1>6, <1>7, <1>8, <1>9, <1>10, <1>11, Zenon
<1> QED
  BY <1>5, <1>12, Zenon

LEMMA CallChunk ==
    ASSUME NEW n \in Nat, NEW part \in {"none", "half", "whole", "cut"}
    PROVE  Call(n, part) \in Chunk /\ Call(n, part).type = "call" /\ Call(n, part).n = n
           /\ Call(n, part).part = part
BY DEF Call, Chunk, ChunkTypes

LEMMA FitStart ==
    ASSUME NEW sent \in Seq(Chunk), NEW pend \in Seq(Chunk), NEW opened \in Nat,
           NEW c \in Chunk, c.type = "call", c.n = opened + 1,
           Fit(sent, pend, opened)
    PROVE  /\ Fit(sent \o Sealed(pend), Append(Unsealed(pend), c), opened + 1)
           /\ Sealed(pend) \in Seq(Chunk) /\ Append(Unsealed(pend), c) \in Seq(Chunk)
           /\ \A j \in 1..Len(Sealed(pend)) : Sealed(pend)[j].type = "call"
<1> DEFINE S == Sealed(pend)
           U == Unsealed(pend)
           V == Append(U, c)
<1>1. S \in Seq(Chunk) /\ U \in Seq(Chunk)
  BY SealPlaces
<1>2. PICK f \in [1..Len(S) -> 1..Len(pend)], g \in [1..Len(U) -> 1..Len(pend)] :
        /\ \A i, j \in 1..Len(S) : i # j => f[i] # f[j]
        /\ \A i, j \in 1..Len(U) : i # j => g[i] # g[j]
        /\ \A j \in 1..Len(S) : S[j] = pend[f[j]] /\ pend[f[j]].part # "half"
        /\ \A j \in 1..Len(U) : U[j] = pend[g[j]] /\ pend[g[j]].part = "half"
  <2>1. \E f \in [1..Len(S) -> 1..Len(pend)], g \in [1..Len(U) -> 1..Len(pend)] :
        /\ \A i, j \in 1..Len(S) : i # j => f[i] # f[j]
        /\ \A i, j \in 1..Len(U) : i # j => g[i] # g[j]
        /\ \A j \in 1..Len(S) : S[j] = pend[f[j]] /\ pend[f[j]].part # "half"
        /\ \A j \in 1..Len(U) : U[j] = pend[g[j]] /\ pend[g[j]].part = "half"
        /\ \A k \in 1..Len(pend) : pend[k].part = "half" =>
                        \E j \in 1..Len(U) : g[j] = k
    BY SealPlaces
  <2> HIDE DEF S, U
  <2> QED
    BY <2>1
<1> HIDE DEF S, U
<1>3. /\ V \in Seq(Chunk) /\ Len(V) = Len(U) + 1 /\ Len(U) \in Nat /\ V[Len(U) + 1] = c
      /\ \A l \in 1..Len(U) : V[l] = U[l]
  BY <1>1
<1> HIDE DEF V
<1> DEFINE m == [l \in 1..Len(V) |-> IF l = Len(U) + 1 THEN 0 ELSE g[l]]
<1>4. \A l \in 1..Len(V) : \/ l = Len(U) + 1 /\ m[l] = 0 /\ V[l] = c
                           \/ l \in 1..Len(U) /\ m[l] = g[l] /\ V[l] = U[l]
  BY <1>3
<1>5. m \in [1..Len(V) -> 0..Len(pend)]
  <2>1. \A l \in 1..Len(V) : m[l] \in 0..Len(pend)
    BY <1>2, <1>4
  <2> QED
    BY <2>1
<1> HIDE DEF m
<1>6. \A l \in 1..Len(U) : g[l] \in 1..Len(pend) /\ g[l] # 0
  <2> SUFFICES ASSUME NEW l \in 1..Len(U) PROVE g[l] \in 1..Len(pend) /\ g[l] # 0
    OBVIOUS
  <2>1. g[l] \in 1..Len(pend)
    OBVIOUS
  <2> QED BY <2>1
<1>7. \A k, l \in 1..Len(V) : k # l => m[k] # m[l]
  BY <1>2, <1>4, <1>6
<1>8. \A j \in 1..Len(S), l \in 1..Len(V) : f[j] # m[l]
  <2> SUFFICES ASSUME NEW j \in 1..Len(S), NEW l \in 1..Len(V) PROVE f[j] # m[l]
    OBVIOUS
  <2>1. f[j] \in 1..Len(pend) /\ pend[f[j]].part # "half"
    BY <1>2
  <2>2. CASE m[l] = 0
    BY <2>1, <2>2
  <2>3. CASE l \in 1..Len(U) /\ m[l] = g[l]
    BY <1>2, <2>1, <2>3
  <2> QED
    BY <1>4, <2>2, <2>3
<1>9. \A k \in 1..Len(pend) : pend[k].type = "call"
  BY DEF Fit
<1>10. \A l \in 1..Len(V) : m[l] # 0 => V[l].type = "call" /\ V[l].n = pend[m[l]].n
  BY <1>2, <1>4, <1>6, <1>9
<1>11. \A l \in 1..Len(V) : m[l] = 0 => V[l].type = "call" /\ V[l].n = opened + 1
  BY <1>4, <1>6
<1>12. \A j \in 1..Len(S) : S[j] = pend[f[j]] /\ S[j].part # "half" /\ S[j].type = "call"
  BY <1>2, <1>9
<1>13. Moves(f, m, S, pend, opened, V, opened + 1)
  BY <1>2, <1>5, <1>7, <1>8, <1>10, <1>11, <1>12 DEF Moves
<1>14. Fit(sent \o S, V, opened + 1)
  <2>1. PICK o \in Nat : o = opened + 1
    OBVIOUS
  <2>2. o \in {opened, opened + 1} /\ Moves(f, m, S, pend, opened, V, o)
    BY <1>13, <2>1
  <2>3. Fit(sent \o S, V, o)
    BY <1>1, <1>3, <2>2, FitSend
  <2> QED
    BY <2>1, <2>3
<1> QED
  BY <1>1, <1>3, <1>12, <1>14 DEF S, U, V

LEMMA FitGrow ==
    ASSUME NEW sent \in Seq(Chunk), NEW pend \in Seq(Chunk), NEW opened \in Nat,
           NEW k \in 1..Len(pend), NEW c \in Chunk, c.type = "call", c.n = pend[k].n,
           Fit(sent, pend, opened)
    PROVE  LET before == SubSeq(pend, 1, k - 1)
               after == SubSeq(pend, k + 1, Len(pend))
               open == Unsealed(before) \o <<c>> \o after
           IN  /\ Fit(sent \o Sealed(before), open, opened)
               /\ Sealed(before) \in Seq(Chunk) /\ open \in Seq(Chunk)
               /\ \A j \in 1..Len(Sealed(before)) : Sealed(before)[j].type = "call"
<1> DEFINE before == SubSeq(pend, 1, k - 1)
           after == SubSeq(pend, k + 1, Len(pend))
           S == Sealed(before)
           U == Unsealed(before)
           V == U \o <<c>> \o after
<1>0. Len(pend) \in Nat /\ k \in Nat /\ k >= 1 /\ k <= Len(pend)
  OBVIOUS
<1>1. /\ before \in Seq(Chunk) /\ Len(before) = k - 1
      /\ \A i \in 1..(k - 1) : before[i] = pend[i]
      /\ after \in Seq(Chunk) /\ Len(after) = Len(pend) - k
      /\ \A i \in 1..(Len(pend) - k) : after[i] = pend[k + i]
  BY <1>0
<1> HIDE DEF before, after
<1>2. S \in Seq(Chunk) /\ U \in Seq(Chunk) /\ Len(U) \in Nat
  BY <1>1, SealPlaces
<1>3. PICK f \in [1..Len(S) -> 1..Len(before)], g \in [1..Len(U) -> 1..Len(before)] :
        /\ \A i, j \in 1..Len(S) : i # j => f[i] # f[j]
        /\ \A i, j \in 1..Len(U) : i # j => g[i] # g[j]
        /\ \A j \in 1..Len(S) : S[j] = before[f[j]] /\ before[f[j]].part # "half"
        /\ \A j \in 1..Len(U) : U[j] = before[g[j]] /\ before[g[j]].part = "half"
  <2>1. \E f \in [1..Len(S) -> 1..Len(before)], g \in [1..Len(U) -> 1..Len(before)] :
        /\ \A i, j \in 1..Len(S) : i # j => f[i] # f[j]
        /\ \A i, j \in 1..Len(U) : i # j => g[i] # g[j]
        /\ \A j \in 1..Len(S) : S[j] = before[f[j]] /\ before[f[j]].part # "half"
        /\ \A j \in 1..Len(U) : U[j] = before[g[j]] /\ before[g[j]].part = "half"
        /\ \A i \in 1..Len(before) : before[i].part = "half" =>
                        \E j \in 1..Len(U) : g[j] = i
    BY <1>1, SealPlaces
  <2> HIDE DEF S, U
  <2> QED
    BY <2>1
<1> HIDE DEF S, U
<1>4. /\ V \in Seq(Chunk) /\ Len(V) = Len(U) + 1 + (Len(pend) - k)
      /\ \A l \in 1..Len(U) : V[l] = U[l]
      /\ V[Len(U) + 1] = c
      /\ \A l \in 1..Len(V) : l > Len(U) + 1 => V[l] = after[l - (Len(U) + 1)]
  <2>1. /\ U \o <<c>> \in Seq(Chunk) /\ Len(U \o <<c>>) = Len(U) + 1
        /\ \A l \in 1..Len(U) : (U \o <<c>>)[l] = U[l]
        /\ (U \o <<c>>)[Len(U) + 1] = c
    BY <1>2
  <2> DEFINE W == U \o <<c>>
  <2> HIDE DEF W
  <2>2. /\ W \in Seq(Chunk) /\ Len(W) = Len(U) + 1
        /\ \A l \in 1..Len(U) : W[l] = U[l]
        /\ W[Len(U) + 1] = c
    BY <2>1 DEF W
  <2>3. /\ W \o after \in Seq(Chunk) /\ Len(W \o after) = Len(W) + Len(after)
        /\ \A l \in 1..(Len(W) + Len(after)) :
              (W \o after)[l] = IF l <= Len(W) THEN W[l] ELSE after[l - Len(W)]
    BY <1>1, <2>2, ConcatProperties
  <2>4. V = W \o after
    BY DEF W
  <2> HIDE DEF V
  <2>5. /\ V \in Seq(Chunk) /\ Len(V) = Len(U) + 1 + (Len(pend) - k)
        /\ \A l \in 1..Len(V) :
              V[l] = IF l <= Len(U) + 1 THEN W[l] ELSE after[l - (Len(U) + 1)]
    BY <1>1, <2>2, <2>3, <2>4
  <2>6. \A l \in 1..Len(U) : l \in 1..Len(V) /\ l <= Len(U) + 1
    BY <1>0, <1>2, <2>5
  <2>7. \A l \in 1..Len(U) : V[l] = U[l]
    BY <2>2, <2>5, <2>6
  <2>8. Len(U) + 1 \in 1..Len(V)
    BY <1>0, <1>2, <2>5
  <2>9. V[Len(U) + 1] = c
    <3>1. PICK y \in 1..Len(V) : y = Len(U) + 1
      BY <2>8
    <3>2. y <= Len(U) + 1
      BY <1>2, <3>1
    <3>3. V[y] = W[y]
      BY <2>5, <3>2
    <3> QED
      BY <2>2, <3>1, <3>3
  <2>10. \A l \in 1..Len(V) : l > Len(U) + 1 => V[l] = after[l - (Len(U) + 1)]
    BY <1>2, <2>5
  <2> QED
    BY <2>5, <2>7, <2>9, <2>10
<1> HIDE DEF V
<1> DEFINE m == [l \in 1..Len(V) |-> IF l <= Len(U) THEN g[l] ELSE l - Len(U) + k - 1]
<1>5. \A l \in 1..Len(V) :
        \/ l \in 1..Len(U) /\ m[l] = g[l] /\ V[l] = U[l]
        \/ l = Len(U) + 1 /\ m[l] = k /\ V[l] = c
        \/ /\ l > Len(U) + 1 /\ m[l] = l - Len(U) + k - 1
           /\ m[l] \in (k + 1)..Len(pend) /\ V[l] = pend[m[l]]
  <2> SUFFICES ASSUME NEW l \in 1..Len(V)
               PROVE
                \/ l \in 1..Len(U) /\ m[l] = g[l] /\ V[l] = U[l]
                \/ l = Len(U) + 1 /\ m[l] = k /\ V[l] = c
                \/ /\ l > Len(U) + 1 /\ m[l] = l - Len(U) + k - 1
                   /\ m[l] \in (k + 1)..Len(pend) /\ V[l] = pend[m[l]]
    OBVIOUS
  <2>1. CASE l <= Len(U)
    BY SMTT(60), <1>2, <1>4, <2>1
  <2>2. CASE l = Len(U) + 1
    BY <1>0, <1>2, <1>4, <2>2
  <2>3. CASE l > Len(U) + 1
    <3>1. /\ m[l] = l - Len(U) + k - 1 /\ V[l] = after[l - (Len(U) + 1)]
      BY <1>0, <1>2, <1>4, <2>3
    <3> HIDE DEF m
    <3>0. l - (Len(U) + 1) \in Int
      BY <1>2
    <3>2. PICK x \in Int : x = l - (Len(U) + 1)
      BY <3>0
    <3>3. x \in 1..(Len(pend) - k)
      BY <1>0, <1>2, <1>4, <2>3, <3>2
    <3>4. m[l] = k + x
      BY <1>0, <1>2, <3>1, <3>2
    <3>5. V[l] = pend[k + x]
      BY <1>1, <3>1, <3>2, <3>3
    <3>6. k + x \in (k + 1)..Len(pend)
      BY <1>0, <3>3
    <3> QED
      BY <2>3, <3>1, <3>4, <3>5, <3>6
  <2> HIDE DEF m
  <2> QED
    BY <1>2, <2>1, <2>2, <2>3
<1>6. /\ \A l \in 1..Len(U) : g[l] \in 1..Len(pend) /\ g[l] < k /\ U[l] = pend[g[l]]
                              /\ pend[g[l]].part = "half"
      /\ \A j \in 1..Len(S) : f[j] \in 1..Len(pend) /\ f[j] < k /\ S[j] = pend[f[j]]
                              /\ pend[f[j]].part # "half"
  <2>1. ASSUME NEW l \in 1..Len(U)
        PROVE  g[l] \in 1..Len(pend) /\ g[l] < k /\ U[l] = pend[g[l]] /\ pend[g[l]].part = "half"
    <3>1. g[l] \in 1..(k - 1) /\ U[l] = before[g[l]] /\ before[g[l]].part = "half"
      BY <1>1, <1>3
    <3> QED
      BY SMTT(60), <1>0, <1>1, <3>1
  <2>2. ASSUME NEW j \in 1..Len(S)
        PROVE  f[j] \in 1..Len(pend) /\ f[j] < k /\ S[j] = pend[f[j]] /\ pend[f[j]].part # "half"
    <3>1. f[j] \in 1..(k - 1) /\ S[j] = before[f[j]] /\ before[f[j]].part # "half"
      BY <1>1, <1>3
    <3> QED
      BY SMTT(60), <1>0, <1>1, <3>1
  <2> QED
    BY <2>1, <2>2
<1>7. m \in [1..Len(V) -> 0..Len(pend)] /\ \A l \in 1..Len(V) : m[l] # 0
  <2>1. \A l \in 1..Len(V) : m[l] \in 1..Len(pend)
    <3> HIDE DEF m
    <3> QED BY SMTT(60), <1>0, <1>5, <1>6
  <2>2. m = [l \in 1..Len(V) |-> m[l]]
    OBVIOUS
  <2> HIDE DEF m
  <2> QED
    BY <2>1, <2>2
<1> HIDE DEF m
<1>8. \A i, l \in 1..Len(V) : i # l => m[i] # m[l]
  <2> SUFFICES ASSUME NEW i \in 1..Len(V), NEW l \in 1..Len(V), i # l PROVE m[i] # m[l]
    OBVIOUS
  <2>1. CASE i \in 1..Len(U) /\ m[i] = g[i] /\ l \in 1..Len(U) /\ m[l] = g[l]
    BY <1>3, <2>1
  <2>2. CASE i \in 1..Len(U) /\ m[i] = g[i] /\ m[l] >= k
    BY <1>0, <1>6, <1>7, <2>2
  <2>3. CASE m[i] >= k /\ l \in 1..Len(U) /\ m[l] = g[l]
    BY <1>0, <1>6, <1>7, <2>3
  <2>4. CASE m[i] = i - Len(U) + k - 1 /\ m[l] = l - Len(U) + k - 1
    BY <1>0, <1>2, <2>4
  <2>5. \A x \in 1..Len(V) : \/ x \in 1..Len(U) /\ m[x] = g[x]
                             \/ m[x] >= k /\ m[x] = x - Len(U) + k - 1
    BY <1>0, <1>2, <1>5, SMTT(40)
  <2> QED
    BY <2>1, <2>2, <2>3, <2>4, <2>5
<1>9. \A j \in 1..Len(S), l \in 1..Len(V) : f[j] # m[l]
  <2> SUFFICES ASSUME NEW j \in 1..Len(S), NEW l \in 1..Len(V) PROVE f[j] # m[l]
    OBVIOUS
  <2>1. CASE l \in 1..Len(U) /\ m[l] = g[l]
    BY <1>6, <2>1
  <2>2. CASE m[l] >= k
    BY <1>0, <1>6, <2>2
  <2>3. m[l] >= k \/ (l \in 1..Len(U) /\ m[l] = g[l])
    BY SMTT(60), <1>0, <1>5
  <2> QED
    BY <2>1, <2>2, <2>3
<1>10. \A i \in 1..Len(pend) : pend[i].type = "call"
  BY DEF Fit
<1>11. \A l \in 1..Len(V) : V[l].type = "call" /\ V[l].n = pend[m[l]].n
  <2> SUFFICES ASSUME NEW l \in 1..Len(V) PROVE V[l].type = "call" /\ V[l].n = pend[m[l]].n
    OBVIOUS
  <2>1. CASE l \in 1..Len(U) /\ m[l] = g[l] /\ V[l] = U[l]
    BY <1>6, <1>10, <2>1
  <2>2. CASE m[l] = k /\ V[l] = c
    BY <2>2
  <2>3. CASE m[l] \in (k + 1)..Len(pend) /\ V[l] = pend[m[l]]
    BY <1>0, <1>10, <2>3
  <2> QED
    BY <1>5, <2>1, <2>2, <2>3
<1>12. \A j \in 1..Len(S) : S[j] = pend[f[j]] /\ S[j].part # "half" /\ S[j].type = "call"
  BY <1>6, <1>10
<1>13. f \in [1..Len(S) -> 1..Len(pend)]
  BY <1>3, <1>6
<1>14. Moves(f, m, S, pend, opened, V, opened)
  BY <1>3, <1>7, <1>8, <1>9, <1>11, <1>12, <1>13 DEF Moves
<1>15. Fit(sent \o S, V, opened)
  BY <1>2, <1>4, <1>14, FitSend
<1> QED
  BY <1>2, <1>4, <1>12, <1>15 DEF S, U, V, before, after

LEMMA FitFinish ==
    ASSUME NEW sent \in Seq(Chunk), NEW pend \in Seq(Chunk), NEW opened \in Nat,
           Fit(sent, pend, opened)
    PROVE  /\ Over(pend) \in Seq(Chunk)
           /\ Fit(sent \o Over(pend), <<>>, opened)
           /\ \A j \in 1..Len(Over(pend)) : Over(pend)[j].type = "call"
<1> DEFINE O == Over(pend)
           Ended(j) == IF pend[j].part = "half" THEN [pend[j] EXCEPT !.part = "cut"] ELSE pend[j]
<1>0. /\ Len(pend) \in Nat /\ \A j \in 1..Len(pend) : pend[j] \in Chunk /\ pend[j].type = "call"
  BY DEF Fit
<1>1. ASSUME NEW j \in 1..Len(pend)
      PROVE  /\ Ended(j) \in Chunk /\ Ended(j).type = "call" /\ Ended(j).n = pend[j].n
             /\ Ended(j).part # "half"
  BY <1>0 DEF Chunk
<1>6. O = [j \in 1..Len(pend) |-> Ended(j)]
  BY DEF Over
<1> HIDE DEF Ended, O
<1>7. /\ O \in Seq(Chunk) /\ Len(O) = Len(pend)
      /\ \A j \in 1..Len(O) : /\ O[j].type = "call" /\ O[j].n = pend[j].n
                              /\ O[j].part # "half"
  BY <1>0, <1>1, <1>6
<1> DEFINE h == [j \in 1..Len(O) |-> j]
           m == [j \in 1..0 |-> 0]
<1>2. /\ h \in [1..Len(O) -> 1..Len(pend)]
      /\ \A i, j \in 1..Len(O) : i # j => h[i] # h[j]
      /\ \A j \in 1..Len(O) : /\ O[j].type = "call" /\ O[j].n = pend[h[j]].n
                              /\ O[j].part # "half"
  BY <1>7
<1> DEFINE V == <<>>
<1>3. V \in Seq(Chunk) /\ Len(V) = 0 /\ m \in [1..Len(V) -> 0..Len(pend)]
      /\ \A l \in 1..Len(V) : FALSE
  OBVIOUS
<1> HIDE DEF h, m, V
<1>4. Moves(h, m, O, pend, opened, V, opened)
  BY <1>2, <1>3 DEF Moves
<1>5. Fit(sent \o O, V, opened)
  BY <1>3, <1>4, <1>7, FitSend
<1> QED
  BY <1>5, <1>7 DEF V, O

-----------------------------------------------------------------------------
(* A turn and its stream.                                                  *)

LEMMA WireFields ==
    ASSUME NEW w \in Wires
    PROVE  /\ w.kind \in {"none", "anthropic", "openai", "gemini"} /\ w.events \in Nat
           /\ w.opened \in Nat /\ w.pend \in Seq(Chunk) /\ w.sent \in Seq(Chunk)
           /\ w.cut \in BOOLEAN /\ w.open \in BOOLEAN
BY DEF Wires

LEMMA AskFields ==
    ASSUME NEW a \in Asks
    PROVE  /\ a.pc \in Pcs /\ a.retries \in 0..MaxRetries /\ a.response \in Seq(Chunk)
           /\ a.cancelled \in BOOLEAN
BY DEF Asks

LEMMA NoWireFields ==
    /\ NoWire \in Wires /\ NoWire.kind = "none" /\ NoWire.sent = <<>> /\ NoWire.pend = <<>>
    /\ NoWire.opened = 0 /\ NoWire.cut = FALSE
<1>1. <<>> \in Seq(Chunk)
  OBVIOUS
<1> QED
  BY <1>1 DEF NoWire, Wires

LEMMA WireUpdates ==
    ASSUME NEW w \in Wires
    PROVE  /\ \A k \in {"none", "anthropic", "openai", "gemini"} : [w EXCEPT !.kind = k] \in Wires
           /\ \A b \in BOOLEAN : /\ [w EXCEPT !.cut = b] \in Wires
                                /\ [w EXCEPT !.open = b] \in Wires
           /\ \A s \in Seq(Chunk) :
                /\ [w EXCEPT !.sent = s] \in Wires /\ [w EXCEPT !.pend = s] \in Wires
                /\ \A o \in Nat : [w EXCEPT !.opened = o, !.pend = s] \in Wires
                /\ \A b \in BOOLEAN : [w EXCEPT !.cut = b, !.sent = s] \in Wires
BY DEF Wires

LEMMA EmptyWhole == Whole(<<>>) /\ Fit(<<>>, <<>>, 0)
<1>1. \A i \in 1..Len(<<>>) : FALSE
  OBVIOUS
<1> QED
  BY <1>1 DEF Whole, Fit

(* A chunk that is no call leaves a stream whole.                          *)
LEMMA WholeAppend ==
    ASSUME NEW s \in Seq(Chunk), NEW c \in Chunk, c.type # "call", Whole(s)
    PROVE  Whole(Append(s, c))
<1>1. /\ Len(Append(s, c)) = Len(s) + 1 /\ Len(s) \in Nat /\ Append(s, c)[Len(s) + 1] = c
      /\ \A i \in 1..Len(s) : Append(s, c)[i] = s[i]
  OBVIOUS
<1>2. \A i \in 1..Len(Append(s, c)) : Append(s, c)[i].type = "call" => i \in 1..Len(s)
  BY <1>1
<1> QED
  BY <1>1, <1>2 DEF Whole

LEMMA ChunksJoin ==
    ASSUME NEW s \in Seq(Chunk), NEW t \in Seq(Chunk)
    PROVE  /\ s \o t \in Seq(Chunk) /\ Len(s) \in Nat /\ Len(t) \in Nat
           /\ Len(s \o t) = Len(s) + Len(t)
           /\ \A i \in 1..(Len(s) + Len(t)) :
                 (s \o t)[i] = IF i <= Len(s) THEN s[i] ELSE t[i - Len(s)]
           /\ \A u \in Seq(Chunk) : (s \o t) \o u = s \o (t \o u)
<1>1. \A u \in Seq(Chunk) : (s \o t) \o u = s \o (t \o u)
  BY ConcatAssociative
<1>2. /\ s \o t \in Seq(Chunk) /\ Len(s) \in Nat /\ Len(t) \in Nat
      /\ Len(s \o t) = Len(s) + Len(t)
  OBVIOUS
<1>3. \A i \in 1..(Len(s) + Len(t)) : (s \o t)[i] = IF i <= Len(s) THEN s[i] ELSE t[i - Len(s)]
  BY ConcatProperties
<1> QED
  BY <1>1, <1>2, <1>3, Zenon

(* The task sends calls or text.                                           *)
LEMMA StreamSends ==
    ASSUME NEW a \in Asks, NEW w \in Wires, NEW c \in Seq(Chunk), Streamed(a, w, c),
           NEW chunks \in Seq(Chunk), NEW v \in Wires,
           w.kind # "none", v.kind = w.kind, v.cut = w.cut,
           v.sent = w.sent \o chunks, Fit(v.sent, v.pend, v.opened),
           \A j \in 1..Len(chunks) : chunks[j].type # "end"
    PROVE  c \o chunks \in Seq(Chunk) /\ Streamed(a, v, c \o chunks)
<1>1. /\ a.response \in Seq(Chunk) /\ w.sent \in Seq(Chunk)
      /\ a.pc = "reading" /\ a.response \o c = w.sent
  BY AskFields, WireFields DEF Streamed
<1>2. a.response \o (c \o chunks) = v.sent
  <2>1. (a.response \o c) \o chunks = a.response \o (c \o chunks)
    BY <1>1, ChunksJoin, ZenonT(60)
  <2> QED
    BY <1>1, <2>1, Zenon
<1>3. \A i \in 1..Len(v.sent) : v.sent[i].type # "end"
  <2>1. \A i \in 1..Len(w.sent) : w.sent[i].type # "end"
    BY DEF Streamed
  <2>2. /\ Len(v.sent) = Len(w.sent) + Len(chunks)
        /\ Len(w.sent) \in Nat /\ Len(chunks) \in Nat
        /\ \A i \in 1..(Len(w.sent) + Len(chunks)) :
              v.sent[i] = IF i <= Len(w.sent) THEN w.sent[i] ELSE chunks[i - Len(w.sent)]
    BY <1>1, ConcatProperties
  <2> SUFFICES ASSUME NEW i \in 1..Len(v.sent) PROVE v.sent[i].type # "end"
    OBVIOUS
  <2>3. CASE i <= Len(w.sent)
    BY <2>1, <2>2, <2>3
  <2>4. CASE i - Len(w.sent) \in 1..Len(chunks)
    BY <2>2, <2>4
  <2> QED
    BY <2>2, <2>3, <2>4
<1>4. Whole(v.sent) /\ Whole(a.response)
  BY DEF Streamed, Fit
<1> QED
  BY <1>1, <1>2, <1>3, <1>4, ConcatProperties DEF Streamed

(* The task sends a last chunk and returns, or is dropped for one.         *)
LEMMA StreamCloses ==
    ASSUME NEW a \in Asks, NEW w \in Wires, NEW c \in Seq(Chunk), Streamed(a, w, c),
           NEW chunk \in Chunk, NEW v \in Wires,
           w.kind # "none", v.kind = "none", v.sent = Append(w.sent, chunk),
           chunk.type # "call", v.cut => chunk.type # "end"
    PROVE  Append(c, chunk) \in Seq(Chunk) /\ Streamed(a, v, Append(c, chunk))
<1>1. /\ a.response \in Seq(Chunk) /\ w.sent \in Seq(Chunk)
      /\ a.pc = "reading" /\ a.response \o c = w.sent
      /\ Whole(a.response) /\ Whole(w.sent)
      /\ \A i \in 1..Len(w.sent) : w.sent[i].type # "end"
  BY AskFields, WireFields DEF Streamed
<1>2. a.response \o Append(c, chunk) = v.sent
  <2>1. Append(c, chunk) = c \o <<chunk>> /\ v.sent = w.sent \o <<chunk>> /\ <<chunk>> \in Seq(Chunk)
    BY <1>1, AppendIsConcat, SMTT(40)
  <2>2. (a.response \o c) \o <<chunk>> = a.response \o (c \o <<chunk>>)
    BY <1>1, <2>1, ChunksJoin, ZenonT(60)
  <2> QED
    BY <1>1, <2>1, <2>2, Zenon
<1>3. Whole(v.sent)
  BY <1>1, WholeAppend
<1>4. v.cut => \A i \in 1..Len(v.sent) : v.sent[i].type # "end"
  <2>1. /\ Len(v.sent) = Len(w.sent) + 1 /\ Len(w.sent) \in Nat /\ v.sent[Len(w.sent) + 1] = chunk
        /\ \A i \in 1..Len(w.sent) : v.sent[i] = w.sent[i]
    BY <1>1
  <2>2. \A i \in 1..Len(v.sent) : i \in 1..Len(w.sent) \/ i = Len(w.sent) + 1
    BY <2>1
  <2> QED
    BY <1>1, <2>1, <2>2
<1> QED
  BY <1>1, <1>2, <1>3, <1>4 DEF Streamed

(* What comes next in the channel is the first chunk not yet read.         *)
LEMMA NextChunk ==
    ASSUME NEW a \in Asks, NEW w \in Wires, NEW c \in Seq(Chunk), Streamed(a, w, c),
           a.pc = "reading", c # <<>>
    PROVE  /\ Head(c) \in Chunk /\ Tail(c) \in Seq(Chunk)
           /\ Append(a.response, Head(c)) \in Seq(Chunk)
           /\ Append(a.response, Head(c)) \o Tail(c) = w.sent
           /\ Whole(Append(a.response, Head(c)))
           /\ Head(c).type = "end" => w.kind = "none" /\ ~w.cut
<1>1. /\ a.response \in Seq(Chunk) /\ w.sent \in Seq(Chunk) /\ a.response \o c = w.sent
      /\ Whole(w.sent)
  BY AskFields, WireFields DEF Streamed
<1> DEFINE R == a.response
           h == Head(c)
           t == Tail(c)
<1>2. h \in Chunk /\ t \in Seq(Chunk) /\ c = <<h>> \o t /\ <<h>> \in Seq(Chunk)
  OBVIOUS
<1>3. Append(R, h) = R \o <<h>> /\ Append(R, h) \in Seq(Chunk)
  BY <1>1, <1>2, AppendIsConcat
<1> HIDE DEF h, t
<1>4. Append(R, h) \o t = w.sent
  <2>1. PICK hs \in Seq(Chunk) : hs = <<h>>
    BY <1>2
  <2>2. PICK tt \in Seq(Chunk) : tt = t
    BY <1>2
  <2>3. PICK RR \in Seq(Chunk) : RR = R
    BY <1>1
  <2>4. (RR \o hs) \o tt = RR \o (hs \o tt)
    BY ChunksJoin
  <2> QED
    BY <1>1, <1>2, <1>3, <2>1, <2>2, <2>3, <2>4, Zenon
<1> DEFINE u == Append(R, h)
<1>5. Len(u) = Len(R) + 1 /\ u[Len(R) + 1] = h /\ Len(R) \in Nat /\ Len(t) \in Nat /\ u \in Seq(Chunk)
  BY <1>1, <1>2
<1> HIDE DEF u
<1>6. /\ Len(w.sent) = Len(u) + Len(t)
      /\ \A i \in 1..(Len(u) + Len(t)) : w.sent[i] = IF i <= Len(u) THEN u[i] ELSE t[i - Len(u)]
  <2>1. w.sent = u \o t
    BY <1>4 DEF u
  <2>2. /\ Len(u \o t) = Len(u) + Len(t)
        /\ \A i \in 1..(Len(u) + Len(t)) : (u \o t)[i] = IF i <= Len(u) THEN u[i] ELSE t[i - Len(u)]
    BY <1>2, <1>5, ChunksJoin
  <2> QED
    BY <2>1, <2>2
<1>7. Len(u) <= Len(w.sent) /\ \A i \in 1..Len(u) : u[i] = w.sent[i]
  BY <1>5, <1>6, SMTT(40)
<1>8. Whole(u)
  BY <1>1, <1>5, <1>7, WholePrefix
<1>9. Len(R) + 1 \in 1..Len(w.sent) /\ w.sent[Len(R) + 1] = h
  <2>1. PICK y \in 1..Len(u) : y = Len(R) + 1
    BY <1>5
  <2>2. y \in 1..Len(w.sent) /\ w.sent[y] = u[y]
    BY <1>5, <1>6, <1>7
  <2> QED
    BY <1>5, <2>1, <2>2
<1>10. h.type = "end" => w.kind = "none" /\ ~w.cut
  BY <1>9 DEF Streamed
<1> QED
  BY <1>2, <1>3, <1>4, <1>8, <1>10 DEF u, h, t

LEMMA StreamRead ==
    ASSUME NEW a \in Asks, NEW w \in Wires, NEW c \in Seq(Chunk), Streamed(a, w, c),
           a.pc = "reading", c # <<>>, NEW b \in Asks,
           b.pc = "reading", b.response = Append(a.response, Head(c))
    PROVE  Streamed(b, w, Tail(c))
<1>1. Append(a.response, Head(c)) \o Tail(c) = w.sent /\ Whole(Append(a.response, Head(c)))
  BY NextChunk
<1> QED
  BY <1>1 DEF Streamed

LEMMA StreamOver ==
    ASSUME NEW b, NEW v, NEW c,
           b.pc # "reading", Whole(b.response), v.kind = "none", v.sent = <<>>,
           b.pc = "answered" => ~v.cut
    PROVE  Streamed(b, v, c)
<1>1. \A i \in 1..Len(v.sent) : FALSE
  OBVIOUS
<1> QED
  BY <1>1, EmptyWhole DEF Streamed

LEMMA StreamStarts ==
    ASSUME NEW b, NEW v,
           b.pc = "reading", b.response = <<>>,
           v.sent = <<>>, v.pend = <<>>, v.opened = 0
    PROVE  Streamed(b, v, <<>>)
<1>1. \A i \in 1..Len(v.sent) : FALSE
  OBVIOUS
<1>2. <<>> \o <<>> = <<>>
  OBVIOUS
<1> QED
  BY <1>1, <1>2, EmptyWhole DEF Streamed

(* A step of one turn leaves the others alone.                             *)
LEMMA OneTurn ==
    ASSUME StreamInv, NEW r \in Turns, NEW a \in Asks, NEW w \in Wires, NEW c \in Seq(Chunk),
           asking' = [asking EXCEPT ![r] = a], wire' = [wire EXCEPT ![r] = w],
           chan' = [chan EXCEPT ![r] = c], Streamed(a, w, c)
    PROVE  StreamInv'
<1>1. StreamTypes'
  BY DEF StreamInv, StreamTypes
<1>2. ASSUME NEW q \in Turns
      PROVE  Streamed(asking'[q], wire'[q], chan'[q])
  <2>1. CASE q = r
    <3>1. asking'[q] = a /\ wire'[q] = w /\ chan'[q] = c
      BY <2>1 DEF StreamInv, StreamTypes
    <3> QED
      BY <3>1
  <2>2. CASE q # r
    <3>1. asking'[q] = asking[q] /\ wire'[q] = wire[q] /\ chan'[q] = chan[q]
      BY <2>2 DEF StreamInv, StreamTypes
    <3>2. Streamed(asking[q], wire[q], chan[q])
      BY DEF StreamInv
    <3> QED
      BY <3>1, <3>2
  <2> QED
    BY <2>1, <2>2
<1> QED
  BY <1>1, <1>2 DEF StreamInv, Streamed, Fit, Whole

-----------------------------------------------------------------------------
(* The steps of the task.                                                  *)

LEMMA TurnFacts ==
    ASSUME StreamInv, NEW r \in Turns
    PROVE  /\ asking[r] \in Asks /\ wire[r] \in Wires /\ chan[r] \in Seq(Chunk)
           /\ Streamed(asking[r], wire[r], chan[r])
           /\ asking = [asking EXCEPT ![r] = asking[r]]
           /\ wire = [wire EXCEPT ![r] = wire[r]]
           /\ chan = [chan EXCEPT ![r] = chan[r]]
BY DEF StreamInv, StreamTypes

LEMMA SendStep ==
    ASSUME StreamInv, NEW r \in Turns, Alive(r), NEW chunks \in Seq(Chunk), NEW x \in Wires,
           x.kind = wire[r].kind, x.cut = wire[r].cut, x.sent = wire[r].sent,
           Fit(wire[r].sent \o chunks, x.pend, x.opened),
           \A j \in 1..Len(chunks) : chunks[j].type # "end",
           Send(r, chunks, x)
    PROVE  StreamInv'
<1> DEFINE v == [x EXCEPT !.events = Progress(r), !.sent = @ \o chunks]
<1>1. /\ asking[r] \in Asks /\ wire[r] \in Wires /\ chan[r] \in Seq(Chunk)
      /\ Streamed(asking[r], wire[r], chan[r]) /\ asking = [asking EXCEPT ![r] = asking[r]]
  BY TurnFacts
<1>2. Progress(r) \in Nat /\ x.sent \o chunks \in Seq(Chunk) /\ wire[r].kind # "none"
  BY <1>1, WireFields, ChunksJoin DEF Progress, Alive
<1>3. /\ v \in Wires /\ v.kind = wire[r].kind /\ v.cut = wire[r].cut
      /\ v.sent = wire[r].sent \o chunks /\ v.pend = x.pend /\ v.opened = x.opened
  BY <1>2 DEF Wires
<1>4. wire' = [wire EXCEPT ![r] = v] /\ chan' = [chan EXCEPT ![r] = chan[r] \o chunks]
      /\ asking' = [asking EXCEPT ![r] = asking[r]]
  BY <1>1 DEF Send
<1> HIDE DEF v
<1>5. chan[r] \o chunks \in Seq(Chunk) /\ Streamed(asking[r], v, chan[r] \o chunks)
  <2>1. Fit(v.sent, v.pend, v.opened)
    BY <1>3
  <2> QED
    BY <1>1, <1>2, <1>3, <2>1, StreamSends
<1> QED
  BY <1>1, <1>3, <1>4, <1>5, OneTurn

LEMMA CloseStep ==
    ASSUME StreamInv, NEW r \in Turns, Alive(r), NEW chunk \in Chunk, chunk.type # "call",
           \/ Close(r, chunk)
           \/ CutWith(r, chunk) /\ chunk.type # "end"
    PROVE  StreamInv'
<1>1. /\ asking[r] \in Asks /\ wire[r] \in Wires /\ chan[r] \in Seq(Chunk)
      /\ Streamed(asking[r], wire[r], chan[r]) /\ asking = [asking EXCEPT ![r] = asking[r]]
      /\ wire[r].kind # "none" /\ wire[r].sent \in Seq(Chunk)
  BY TurnFacts, WireFields DEF Alive
<1>2. PICK v \in Wires :
         /\ v.kind = "none" /\ v.sent = Append(wire[r].sent, chunk)
         /\ v.cut => chunk.type # "end"
         /\ wire' = [wire EXCEPT ![r] = v] /\ chan' = [chan EXCEPT ![r] = Append(chan[r], chunk)]
         /\ asking' = asking
  <2>0. Append(wire[r].sent, chunk) \in Seq(Chunk)
    BY <1>1
  <2>1. CASE Close(r, chunk)
    <3> DEFINE v == [NoWire EXCEPT !.sent = Append(wire[r].sent, chunk)]
    <3>1. v \in Wires /\ v.kind = "none" /\ v.sent = Append(wire[r].sent, chunk) /\ v.cut = FALSE
      <4>1. v \in Wires
        BY <2>0, NoWireFields, WireUpdates
      <4> QED
        BY <4>1, NoWireFields DEF Wires
    <3>2. /\ wire' = [wire EXCEPT ![r] = v] /\ chan' = [chan EXCEPT ![r] = Append(chan[r], chunk)]
          /\ asking' = asking
      BY <2>1 DEF Close
    <3> HIDE DEF v
    <3> QED
      BY <3>1, <3>2
  <2>2. CASE CutWith(r, chunk) /\ chunk.type # "end"
    <3> DEFINE v == [NoWire EXCEPT !.cut = TRUE, !.sent = Append(wire[r].sent, chunk)]
    <3>1. v \in Wires /\ v.kind = "none" /\ v.sent = Append(wire[r].sent, chunk)
      <4>1. v \in Wires
        BY <2>0, NoWireFields, WireUpdates
      <4> QED
        BY <4>1, NoWireFields DEF Wires
    <3>2. /\ wire' = [wire EXCEPT ![r] = v] /\ chan' = [chan EXCEPT ![r] = Append(chan[r], chunk)]
          /\ asking' = asking
      BY <2>2 DEF CutWith
    <3> HIDE DEF v
    <3> QED
      BY <2>2, <3>1, <3>2
  <2> QED
    BY <2>1, <2>2
<1>3. Append(chan[r], chunk) \in Seq(Chunk) /\ Streamed(asking[r], v, Append(chan[r], chunk))
  BY <1>1, <1>2, StreamCloses
<1>4. asking' = [asking EXCEPT ![r] = asking[r]]
  BY <1>1, <1>2
<1> QED
  BY <1>1, <1>2, <1>3, <1>4, OneTurn

LEMMA ErrChunk ==
    /\ \A e \in ChunkTypes \ {"call"} : Err(e) \in Chunk /\ Err(e).type = e
    /\ \A s : classify_http_error(s) \in ChunkTypes \ {"call"}
<1>1. \A e \in ChunkTypes \ {"call"} : Err(e) \in Chunk /\ Err(e).type = e
  BY DEF Err, Chunk
<1>2. ASSUME NEW s
      PROVE  classify_http_error(s) \in ChunkTypes \ {"call"}
  BY DEF classify_http_error, ChunkTypes
<1> QED
  BY <1>1, <1>2

LEMMA AliveFit ==
    ASSUME StreamInv, NEW r \in Turns, Alive(r)
    PROVE  /\ wire[r] \in Wires /\ wire[r].kind # "none" /\ wire[r].sent \in Seq(Chunk)
           /\ wire[r].pend \in Seq(Chunk) /\ wire[r].opened \in Nat
           /\ Fit(wire[r].sent, wire[r].pend, wire[r].opened)
BY TurnFacts, WireFields DEF Alive, Streamed

LEMMA AppendsFit ==
    ASSUME StreamInv, NEW r \in Turns, Alive(r), NEW c \in Chunk, NEW o \in Nat, c.type # "end",
           \/ c.type # "call" /\ o = wire[r].opened
           \/ c.part # "half" /\ c.n = wire[r].opened + 1 /\ o = wire[r].opened + 1
    PROVE  /\ <<c>> \in Seq(Chunk) /\ \A j \in 1..Len(<<c>>) : <<c>>[j].type # "end"
           /\ Fit(wire[r].sent \o <<c>>, wire[r].pend, o)
<1>1. /\ wire[r].sent \in Seq(Chunk) /\ wire[r].pend \in Seq(Chunk) /\ wire[r].opened \in Nat
      /\ Fit(wire[r].sent, wire[r].pend, wire[r].opened)
  BY AliveFit
<1>2. Fit(Append(wire[r].sent, c), wire[r].pend, o)
  BY <1>1, FitAppend
<1>3. Append(wire[r].sent, c) = wire[r].sent \o <<c>>
  BY <1>1, AppendIsConcat
<1> QED
  BY <1>2, <1>3

LEMMA DeltaStep ==
    ASSUME StreamInv, NEW r \in Turns, Delta(r)
    PROVE  StreamInv'
<1>1. Alive(r) /\ Send(r, <<Text(Progress(r))>>, wire[r])
  BY DEF Delta, More, Streams
<1>2. wire[r] \in Wires /\ wire[r].opened \in Nat /\ wire[r].events \in Nat
  BY TurnFacts, WireFields
<1>3. PICK c \in Chunk : c = Text(Progress(r)) /\ c.type = "text"
  <2>1. PICK n \in Nat : n = Progress(r)
    BY <1>2 DEF Progress
  <2>2. Text(n) \in Chunk /\ Text(n).type = "text"
    BY DEF Text, Chunk, ChunkTypes
  <2> QED
    BY <2>1, <2>2
<1>4. /\ <<c>> \in Seq(Chunk) /\ \A j \in 1..Len(<<c>>) : <<c>>[j].type # "end"
      /\ Fit(wire[r].sent \o <<c>>, wire[r].pend, wire[r].opened)
  BY <1>1, <1>2, <1>3, AppendsFit
<1>5. Send(r, <<c>>, wire[r])
  BY <1>1, <1>3
<1> QED
  BY <1>1, <1>2, <1>4, <1>5, SendStep

LEMMA FunctionCallStep ==
    ASSUME StreamInv, NEW r \in Turns, FunctionCall(r)
    PROVE  StreamInv'
<1> DEFINE w == wire[r]
           x == [w EXCEPT !.opened = @ + 1]
<1>1. Alive(r) /\ Send(r, <<Call(w.opened + 1, "whole")>>, x)
  BY DEF FunctionCall, More, Streams
<1>2. w \in Wires /\ w.opened \in Nat
  BY TurnFacts, WireFields
<1>3. PICK c \in Chunk : /\ c = Call(w.opened + 1, "whole")
                         /\ c.type = "call" /\ c.n = w.opened + 1 /\ c.part = "whole"
  <2>1. w.opened + 1 \in Nat
    BY <1>2
  <2> QED
    BY <2>1, CallChunk
<1>4. /\ x \in Wires /\ x.kind = w.kind /\ x.cut = w.cut /\ x.sent = w.sent
      /\ x.pend = w.pend /\ x.opened = w.opened + 1 /\ x.opened \in Nat
  BY <1>2, SMTT(40) DEF Wires
<1>5. Send(r, <<c>>, x)
  BY <1>1, <1>3
<1> HIDE DEF x
<1>6. /\ <<c>> \in Seq(Chunk) /\ \A j \in 1..Len(<<c>>) : <<c>>[j].type # "end"
      /\ Fit(wire[r].sent \o <<c>>, wire[r].pend, x.opened)
  BY <1>1, <1>2, <1>3, <1>4, AppendsFit
<1> QED
  BY <1>1, <1>4, <1>5, <1>6, SendStep

LEMMA CallStartStep ==
    ASSUME StreamInv, NEW r \in Turns, NEW part \in {"none", "half"}, CallStart(r, part)
    PROVE  StreamInv'
<1> DEFINE w == wire[r]
           S == Sealed(w.pend)
           c == Call(w.opened + 1, part)
           V == Append(Unsealed(w.pend), c)
           x == [w EXCEPT !.opened = @ + 1, !.pend = V]
<1>1. Alive(r) /\ Send(r, S, x)
  BY DEF CallStart, More, Streams
<1>2. /\ w \in Wires /\ w.sent \in Seq(Chunk) /\ w.pend \in Seq(Chunk) /\ w.opened \in Nat
      /\ Fit(w.sent, w.pend, w.opened)
  BY <1>1, AliveFit
<1>3. c \in Chunk /\ c.type = "call" /\ c.n = w.opened + 1
  <2>1. w.opened + 1 \in Nat /\ part \in {"none", "half", "whole", "cut"}
    BY <1>2
  <2> QED
    BY <2>1, CallChunk
<1> HIDE DEF c
<1>4. /\ Fit(w.sent \o S, V, w.opened + 1) /\ S \in Seq(Chunk) /\ V \in Seq(Chunk)
      /\ \A j \in 1..Len(S) : S[j].type = "call"
  BY <1>2, <1>3, FitStart
<1> HIDE DEF S, V
<1>5. /\ x \in Wires /\ x.kind = w.kind /\ x.cut = w.cut /\ x.sent = w.sent
      /\ x.pend = V /\ x.opened = w.opened + 1
  <2>1. w.opened + 1 \in Nat
    BY <1>2
  <2>2. x \in Wires
    BY <1>2, <1>4, <2>1, WireUpdates
  <2> QED
    BY <1>2, <2>2 DEF Wires
<1> HIDE DEF x
<1>6. \A j \in 1..Len(S) : S[j].type # "end"
  BY <1>4
<1> QED
  BY <1>1, <1>4, <1>5, <1>6, SendStep

LEMMA CallArgumentsStep ==
    ASSUME StreamInv, NEW r \in Turns, NEW k \in DOMAIN wire[r].pend, CallArguments(r, k)
    PROVE  StreamInv'
<1> DEFINE w == wire[r]
           b == w.pend[k]
           c == [b EXCEPT !.part = IF b.part = "none" THEN "half" ELSE "whole"]
           before == SubSeq(w.pend, 1, k - 1)
           after == SubSeq(w.pend, k + 1, Len(w.pend))
           S == Sealed(before)
           V == Unsealed(before) \o <<c>> \o after
           x == [w EXCEPT !.pend = V]
<1>1. Alive(r) /\ Send(r, S, x)
  BY DEF CallArguments, More, Streams
<1>2. /\ w \in Wires /\ w.sent \in Seq(Chunk) /\ w.pend \in Seq(Chunk) /\ w.opened \in Nat
      /\ Fit(w.sent, w.pend, w.opened)
  BY <1>1, AliveFit
<1>3. k \in 1..Len(w.pend) /\ b \in Chunk /\ b.type = "call"
  <2>1. k \in 1..Len(w.pend)
    BY <1>2
  <2> QED
    BY <1>2, <2>1 DEF Fit
<1>4. c \in Chunk /\ c.type = "call" /\ c.n = w.pend[k].n
  BY <1>3 DEF Chunk
<1> HIDE DEF c
<1>5. /\ Fit(w.sent \o S, V, w.opened) /\ S \in Seq(Chunk) /\ V \in Seq(Chunk)
      /\ \A j \in 1..Len(S) : S[j].type = "call"
  BY <1>2, <1>3, <1>4, FitGrow
<1> HIDE DEF S, V
<1>6. /\ x \in Wires /\ x.kind = w.kind /\ x.cut = w.cut /\ x.sent = w.sent
      /\ x.pend = V /\ x.opened = w.opened
  BY <1>2, <1>5 DEF Wires
<1> HIDE DEF x
<1>7. \A j \in 1..Len(S) : S[j].type # "end"
  BY <1>5
<1> QED
  BY <1>1, <1>5, <1>6, <1>7, SendStep

LEMMA FinishStep ==
    ASSUME StreamInv, NEW r \in Turns, BlockStop(r) \/ FinishReason(r)
    PROVE  StreamInv'
<1> DEFINE w == wire[r]
           x == [w EXCEPT !.pend = <<>>]
           O == Over(w.pend)
<1>1. Alive(r) /\ Send(r, O, x)
  BY DEF BlockStop, FinishReason, Finish, More, Streams
<1>2. /\ w \in Wires /\ w.sent \in Seq(Chunk) /\ w.pend \in Seq(Chunk) /\ w.opened \in Nat
      /\ Fit(w.sent, w.pend, w.opened)
  BY <1>1, AliveFit
<1>3. /\ O \in Seq(Chunk) /\ Fit(w.sent \o O, <<>>, w.opened)
      /\ \A j \in 1..Len(O) : O[j].type # "end"
  BY <1>1, <1>2, FitFinish
<1> HIDE DEF O
<1>4. /\ x \in Wires /\ x.kind = w.kind /\ x.cut = w.cut /\ x.sent = w.sent
      /\ x.pend = <<>> /\ x.opened = w.opened
  <2>1. <<>> \in Seq(Chunk)
    OBVIOUS
  <2>2. x \in Wires
    BY <1>2, <2>1, WireUpdates
  <2> QED
    BY <1>2, <2>2 DEF Wires
<1>5. Fit(w.sent \o O, x.pend, x.opened)
  BY <1>3, <1>4
<1> HIDE DEF x
<1> QED
  BY <1>1, <1>2, <1>3, <1>4, <1>5, SendStep

LEMMA RespondStep ==
    ASSUME StreamInv, NEW r \in Turns, Respond(r)
    PROVE  StreamInv'
<1> DEFINE v == [wire[r] EXCEPT !.open = TRUE]
<1>1. /\ asking[r] \in Asks /\ wire[r] \in Wires /\ chan[r] \in Seq(Chunk)
      /\ Streamed(asking[r], wire[r], chan[r])
      /\ asking = [asking EXCEPT ![r] = asking[r]] /\ chan = [chan EXCEPT ![r] = chan[r]]
  BY TurnFacts
<1>2. v \in Wires
  BY <1>1, WireUpdates
<1>3. /\ v.kind = wire[r].kind /\ v.cut = wire[r].cut /\ v.sent = wire[r].sent
      /\ v.pend = wire[r].pend /\ v.opened = wire[r].opened
  BY <1>1 DEF Wires
<1>4. /\ asking' = [asking EXCEPT ![r] = asking[r]] /\ wire' = [wire EXCEPT ![r] = v]
      /\ chan' = [chan EXCEPT ![r] = chan[r]]
  BY <1>1 DEF Respond, router
<1> HIDE DEF v
<1>5. Streamed(asking[r], v, chan[r])
  BY <1>1, <1>3 DEF Streamed
<1> QED
  BY <1>1, <1>2, <1>4, <1>5, OneTurn

LEMMA WireStep ==
    ASSUME StreamInv, NEW r \in Turns, Wire(r) \/ Stalled(r) \/ Cut(r)
    PROVE  StreamInv'
<1>1. CASE \E s \in Statuses : HttpError(r, s)
  <2>1. PICK s \in Statuses : HttpError(r, s)
    BY <1>1
  <2>2. Alive(r) /\ Close(r, Err(classify_http_error(s)))
    BY <2>1 DEF HttpError
  <2>3. /\ Err(classify_http_error(s)) \in Chunk
        /\ Err(classify_http_error(s)).type # "call"
    <3>1. classify_http_error(s) \in ChunkTypes \ {"call"}
      BY ErrChunk
    <3> QED
      BY <3>1, ErrChunk
  <2> QED
    BY <2>2, <2>3, CloseStep
<1>2. CASE NetworkError(r) \/ StreamError(r) \/ StreamEnds(r) \/ Stalled(r)
  <2>1. PICK e \in {"Network", "Stream", "end", "StreamStalled"} : Alive(r) /\ Close(r, Err(e))
    BY <1>2 DEF NetworkError, StreamError, StreamEnds, Stalled, More, Streams, End
  <2>2. e \in ChunkTypes \ {"call"}
    BY DEF ChunkTypes
  <2>3. Err(e) \in Chunk /\ Err(e).type # "call"
    BY <2>2, ErrChunk
  <2> QED
    BY <2>1, <2>3, CloseStep
<1>3. CASE Cut(r)
  <2>1. Alive(r) /\ CutWith(r, Err("Cancelled"))
    BY <1>3 DEF Cut, CutWith
  <2>2. Err("Cancelled") \in Chunk /\ Err("Cancelled").type = "Cancelled"
    BY ErrChunk DEF ChunkTypes
  <2> QED
    BY <2>1, <2>2, CloseStep
<1>4. CASE \E part \in {"none", "half"} : CallStart(r, part)
  BY <1>4, CallStartStep
<1>5. CASE \E k \in DOMAIN wire[r].pend : CallArguments(r, k)
  BY <1>5, CallArgumentsStep
<1> QED
  BY <1>1, <1>2, <1>3, <1>4, <1>5, RespondStep, DeltaStep, FunctionCallStep, FinishStep DEF Wire

-----------------------------------------------------------------------------
(* The steps of the turn.                                                  *)

LEMMA NewTurnFields ==
    ASSUME NEW stage \in Pcs
    PROVE  LET b == [NewTurn EXCEPT !.pc = stage]
           IN  b \in Asks /\ b.pc = stage /\ b.response = <<>>
<1>1. <<>> \in Seq(Chunk) /\ 0 \in 0..MaxRetries
  BY ModelCoreAssumption
<1> QED
  BY <1>1 DEF NewTurn, Asks

LEMMA IssueStep ==
    ASSUME RouterTypes, StreamInv, NEW r \in Turns, Issue(r)
    PROVE  StreamInv'
<1> DEFINE b == [asking[r] EXCEPT !.pc = "reading", !.response = <<>>]
           v == NewWire(active)
<1>1. asking[r] \in Asks /\ <<>> \in Seq(Chunk)
  BY TurnFacts
<1>2. b \in Asks /\ b.pc = "reading" /\ b.response = <<>>
  BY <1>1 DEF Asks, Pcs
<1>3. kinds[active] \in {"anthropic", "openai", "gemini"}
  BY KindsFacts DEF RouterTypes
<1>4. v \in Wires /\ v.sent = <<>> /\ v.pend = <<>> /\ v.opened = 0
  <2>1. v \in Wires
    BY <1>3, NoWireFields, WireUpdates DEF NewWire
  <2> QED
    BY <2>1, NoWireFields DEF NewWire, Wires
<1>5. /\ asking' = [asking EXCEPT ![r] = b] /\ wire' = [wire EXCEPT ![r] = v]
      /\ chan' = [chan EXCEPT ![r] = <<>>]
  BY <1>1 DEF Issue, Asks, StreamInv, StreamTypes
<1> HIDE DEF b, v
<1>6. Streamed(b, v, <<>>)
  BY <1>2, <1>4, StreamStarts
<1> QED
  BY <1>1, <1>2, <1>4, <1>5, <1>6, OneTurn

LEMMA CancelStep ==
    ASSUME StreamInv, NEW r \in Turns, Cancel(r)
    PROVE  StreamInv'
<1> DEFINE b == [asking[r] EXCEPT !.cancelled = TRUE]
<1>1. /\ asking[r] \in Asks /\ wire[r] \in Wires /\ chan[r] \in Seq(Chunk)
      /\ Streamed(asking[r], wire[r], chan[r])
      /\ wire = [wire EXCEPT ![r] = wire[r]] /\ chan = [chan EXCEPT ![r] = chan[r]]
  BY TurnFacts
<1>2. b \in Asks /\ b.pc = asking[r].pc /\ b.response = asking[r].response
  BY <1>1 DEF Asks
<1>3. /\ asking' = [asking EXCEPT ![r] = b] /\ wire' = [wire EXCEPT ![r] = wire[r]]
      /\ chan' = [chan EXCEPT ![r] = chan[r]]
  BY <1>1 DEF Cancel, router
<1> HIDE DEF b
<1>4. Streamed(b, wire[r], chan[r])
  BY <1>1, <1>2 DEF Streamed
<1> QED
  BY <1>1, <1>2, <1>3, <1>4, OneTurn

(* The turn stops reading: it ends, or waits to try again.                 *)
LEMMA OverStep ==
    ASSUME StreamInv, NEW r \in Turns, NEW b \in Asks, NEW v \in Wires,
           asking[r].pc = "reading", chan[r] # <<>>, Consume(r),
           asking' = [asking EXCEPT ![r] = b], wire' = [wire EXCEPT ![r] = v],
           b.pc # "reading", Whole(b.response), v.kind = "none", v.sent = <<>>,
           b.pc = "answered" => ~v.cut
    PROVE  StreamInv'
<1>1. /\ asking[r] \in Asks /\ wire[r] \in Wires /\ chan[r] \in Seq(Chunk)
      /\ Streamed(asking[r], wire[r], chan[r])
  BY TurnFacts
<1>2. Tail(chan[r]) \in Seq(Chunk)
  BY <1>1, NextChunk
<1>3. chan' = [chan EXCEPT ![r] = Tail(chan[r])]
  BY DEF Consume
<1>4. Streamed(b, v, Tail(chan[r]))
  BY StreamOver
<1> QED
  BY <1>2, <1>3, <1>4, OneTurn

LEMMA EndsStep ==
    ASSUME StreamInv, NEW r \in Turns, NEW stage \in {"cancelled", "failed"},
           asking[r].pc = "reading", chan[r] # <<>>, Consume(r), Ends(r, stage)
    PROVE  StreamInv'
<1> DEFINE b == [NewTurn EXCEPT !.pc = stage]
<1>1. b \in Asks /\ b.pc = stage /\ b.response = <<>>
  BY NewTurnFields DEF Pcs
<1>2. asking' = [asking EXCEPT ![r] = b] /\ wire' = [wire EXCEPT ![r] = NoWire]
  BY DEF Ends
<1> HIDE DEF b
<1>3. b.pc # "reading" /\ b.pc # "answered" /\ Whole(b.response)
  BY <1>1, EmptyWhole
<1> QED
  BY <1>1, <1>2, <1>3, NoWireFields, OverStep

LEMMA ReadChunkStep ==
    ASSUME StreamInv, NEW r \in Turns, ReadChunk(r)
    PROVE  StreamInv'
<1> DEFINE b == [asking[r] EXCEPT !.response = Append(@, Head(chan[r]))]
<1>1. /\ asking[r] \in Asks /\ wire[r] \in Wires /\ chan[r] \in Seq(Chunk)
      /\ Streamed(asking[r], wire[r], chan[r]) /\ wire = [wire EXCEPT ![r] = wire[r]]
  BY TurnFacts
<1>2. asking[r].pc = "reading" /\ chan[r] # <<>>
  BY DEF ReadChunk, Reading
<1>3. Tail(chan[r]) \in Seq(Chunk) /\ Append(asking[r].response, Head(chan[r])) \in Seq(Chunk)
  BY <1>1, <1>2, NextChunk
<1>4. b \in Asks /\ b.pc = "reading" /\ b.response = Append(asking[r].response, Head(chan[r]))
  BY <1>1, <1>2, <1>3 DEF Asks
<1>5. /\ asking' = [asking EXCEPT ![r] = b] /\ wire' = [wire EXCEPT ![r] = wire[r]]
      /\ chan' = [chan EXCEPT ![r] = Tail(chan[r])]
  BY <1>1 DEF ReadChunk, Consume
<1> HIDE DEF b
<1>6. Streamed(b, wire[r], Tail(chan[r]))
  BY <1>1, <1>2, <1>4, StreamRead
<1> QED
  BY <1>1, <1>3, <1>4, <1>5, <1>6, OneTurn

LEMMA ReadRetryableStep ==
    ASSUME StreamInv, NEW r \in Turns, ReadRetryable(r)
    PROVE  StreamInv'
<1>1. /\ asking[r] \in Asks /\ Streamed(asking[r], wire[r], chan[r])
  BY TurnFacts
<1>2. asking[r].pc = "reading" /\ chan[r] # <<>> /\ Consume(r) /\ asking[r].retries < MaxRetries
  BY DEF ReadRetryable, Failure, WillRetry
<1>3. CASE Ends(r, "cancelled")
  BY <1>2, <1>3, EndsStep
<1>4. CASE /\ asking' = [asking EXCEPT ![r].pc = "backoff", ![r].retries = @ + 1]
           /\ wire' = [wire EXCEPT ![r] = NoWire]
  <2> DEFINE b == [asking[r] EXCEPT !.pc = "backoff", !.retries = @ + 1]
  <2>1. asking[r].retries + 1 \in 0..MaxRetries
    BY <1>1, <1>2, AskFields, ModelCoreAssumption
  <2>2. b \in Asks /\ b.pc = "backoff" /\ b.response = asking[r].response
    BY <1>1, <2>1 DEF Asks, Pcs
  <2>3. asking' = [asking EXCEPT ![r] = b]
    BY <1>1, <1>4 DEF Asks, StreamInv, StreamTypes
  <2> HIDE DEF b
  <2>4. Whole(b.response) /\ b.pc # "reading" /\ b.pc # "answered"
    BY <1>1, <2>2 DEF Streamed
  <2> QED
    BY <1>2, <1>4, <2>2, <2>3, <2>4, NoWireFields, OverStep
<1> QED
  BY <1>3, <1>4 DEF ReadRetryable

LEMMA ReadEndStep ==
    ASSUME StreamInv, NEW r \in Turns, ReadEnd(r)
    PROVE  StreamInv'
<1> DEFINE b == [NewTurn EXCEPT !.pc = "answered"]
           v == [NoWire EXCEPT !.cut = wire[r].cut]
<1>1. /\ asking[r] \in Asks /\ wire[r] \in Wires /\ chan[r] \in Seq(Chunk)
      /\ Streamed(asking[r], wire[r], chan[r])
  BY TurnFacts
<1>2. /\ asking[r].pc = "reading" /\ chan[r] # <<>> /\ Head(chan[r]).type = "end" /\ Consume(r)
      /\ asking' = [asking EXCEPT ![r] = b] /\ wire' = [wire EXCEPT ![r] = v]
  BY DEF ReadEnd, Reading
<1>3. ~wire[r].cut
  BY <1>1, <1>2, NextChunk
<1>4. b \in Asks /\ b.pc = "answered" /\ b.response = <<>>
  BY NewTurnFields DEF Pcs
<1>5. v \in Wires /\ v.kind = "none" /\ v.sent = <<>> /\ ~v.cut
  <2>1. wire[r].cut \in BOOLEAN
    BY <1>1, WireFields
  <2>2. v \in Wires
    BY <2>1, NoWireFields, WireUpdates
  <2> QED
    BY <1>3, <2>2, NoWireFields DEF Wires
<1> HIDE DEF b, v
<1>6. Whole(b.response) /\ b.pc # "reading"
  BY <1>4, EmptyWhole
<1> QED
  BY <1>2, <1>4, <1>5, <1>6, OverStep

-----------------------------------------------------------------------------
(* The invariant, and what follows from it.                                *)

LEMMA StreamInit ==
    ASSUME CoreInit
    PROVE  StreamInv
<1>1. /\ asking = [r \in Turns |-> NewTurn] /\ wire = [r \in Turns |-> NoWire]
      /\ chan = [r \in Turns |-> <<>>]
  BY DEF CoreInit
<1>2. NewTurn \in Asks /\ NewTurn.pc = "idle" /\ NewTurn.response = <<>> /\ <<>> \in Seq(Chunk)
  <2>1. <<>> \in Seq(Chunk) /\ 0 \in 0..MaxRetries
    BY ModelCoreAssumption
  <2> QED
    BY <2>1 DEF NewTurn, Asks, Pcs
<1>3. Streamed(NewTurn, NoWire, <<>>)
  BY <1>2, NoWireFields, EmptyWhole, StreamOver
<1> QED
  BY <1>1, <1>2, <1>3, NoWireFields DEF StreamInv, StreamTypes

LEMMA StreamStep ==
    ASSUME CoreInv, [CoreNext]_coreVars
    PROVE  StreamInv'
<1>0. StreamInv /\ RouterTypes
  BY DEF CoreInv, RouterInv
<1>1. CASE UNCHANGED coreVars \/ Tick
  <2>1. asking' = asking /\ wire' = wire /\ chan' = chan
    BY <1>1 DEF coreVars, Tick
  <2> QED
    BY <1>0, <2>1 DEF StreamInv, StreamTypes
<1>2. ASSUME NEW r \in Turns, Wire(r) \/ Stalled(r) \/ Cut(r) PROVE StreamInv'
  BY <1>0, <1>2, WireStep
<1>3. ASSUME NEW r \in Turns, Ask(r) \/ Retry(r) PROVE StreamInv'
  <2>1. Issue(r)
    BY <1>3 DEF Ask, Retry
  <2> QED
    BY <1>0, <2>1, IssueStep
<1>4. ASSUME NEW r \in Turns, Read(r) PROVE StreamInv'
  <2>1. CASE ReadCancelled(r)
    BY <1>0, <2>1, EndsStep DEF ReadCancelled, Reading
  <2>2. CASE ReadFatal(r)
    BY <1>0, <2>2, EndsStep DEF ReadFatal, Failure
  <2> QED
    BY <1>0, <1>4, <2>1, <2>2, ReadChunkStep, ReadRetryableStep, ReadEndStep DEF Read
<1> QED
  BY <1>0, <1>1, <1>2, <1>3, <1>4, CancelStep DEF CoreNext

LEMMA InvImplies ==
    ASSUME CoreInv
    PROVE  BreakersSound /\ AnswersWhole
<1>1. CoreTypeOK
  <2>1. \A r \in Turns : asking[r].pc \in Pcs /\ asking[r].retries \in 0..MaxRetries
    BY AskFields DEF CoreInv, StreamInv, StreamTypes
  <2> QED
    BY <2>1 DEF CoreInv, RouterInv, RouterTypes, CoreTypeOK, Breakers, Pcs
<1>2. CallsWhole /\ ResponseIsOneStream /\ CutNeverAnswers
  BY DEF CoreInv, StreamInv, Streamed, CallsWhole, ResponseIsOneStream, CutNeverAnswers
<1> QED
  BY <1>1, <1>2 DEF CoreInv, RouterInv, BreakersSound, AnswersWhole

LEMMA CoreInvariant == CoreSpec => []CoreInv
<1>1. CoreInit => CoreInv
  BY RouterInit, StreamInit DEF CoreInv
<1>2. CoreInv /\ [CoreNext]_coreVars => CoreInv'
  BY RouterStep, StreamStep DEF CoreInv
<1> QED
  BY <1>1, <1>2, PTL DEF CoreSpec

(* However the failures and successes of concurrent turns interleave, the  *)
(* provider on probation is the one that requests go to, and requests go   *)
(* to one whose breaker is open only if all are (CircuitBreaker and        *)
(* try_failover of the router).                                            *)
THEOREM BreakersStaySound == CoreSpec => []BreakersSound
BY CoreInvariant, InvImplies, PTL

(* What a turn has in hand and in its channel is what its current stream   *)
(* has sent, each call once, with all of its arguments or with what had    *)
(* arrived when the provider said that it was over, and a stream that was  *)
(* cut is never taken for an answer (push_fragment, finish, the retry loop *)
(* of the agent loop and run_or_cancel).                                   *)
THEOREM AnswersStayWhole == CoreSpec => []AnswersWhole
BY CoreInvariant, InvImplies, PTL

=============================================================================
