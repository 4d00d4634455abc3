-------------------------- MODULE HumanPlateProofs --------------------------
(***************************************************************************)
(* Proofs about HumanPlate, for any number of runs, sessions, calls, keys, *)
(* principles and confirmations.                                           *)
(***************************************************************************)
EXTENDS HumanPlate, TLAPS

-----------------------------------------------------------------------------
(* The evaluation of a call.                                               *)

(* What the patterns are made of is a result.                              *)
LEMMA ResultType ==
    ASSUME NEW mode \in Modes, NEW audit \in BOOLEAN, NEW chn \in Seq(Gates)
    PROVE  Result(mode, audit, chn) \in Results
BY DEF Result, Results

(* The chains the patterns use.                                            *)
LEMMA ChainTypes ==
    /\ <<>> \in Seq(Gates)
    /\ <<"Permission">> \in Seq(Gates)
    /\ <<"UserConfirmation">> \in Seq(Gates)
    /\ <<"SandboxIsolation">> \in Seq(Gates)
    /\ <<"Permission", "UserConfirmation">> \in Seq(Gates)
BY DEF Gates

(* GeJu evaluates every pair of stems to a result.                         *)
LEMMA EvaluateType ==
    ASSUME NEW h, NEW e
    PROVE  evaluate(h, e) \in Results
<1>1. /\ Direct \in Results
      /\ Guarded \in Results
      /\ Isolated \in Results
      /\ \A a \in BOOLEAN : Permitted(a) \in Results
      /\ Confirmed \in Results
      /\ Result("Denied", TRUE, <<"Permission">>) \in Results
      /\ Result("Direct", TRUE, <<>>) \in Results
      /\ Result("Guarded", TRUE, <<>>) \in Results
      /\ Result("Guarded", TRUE, <<"Permission", "UserConfirmation">>) \in Results
  BY ResultType, ChainTypes
     DEF Modes, Direct, Guarded, Isolated, Permitted, Confirmed
<1>2. named_pattern(h, e) \in Results
  BY <1>1 DEF named_pattern
<1>3. marvels_semantic(h, e) \in Results
  BY <1>1 DEF marvels_semantic
<1>4. ceremony_semantic(h, e) \in Results
  BY <1>1 DEF ceremony_semantic
<1> QED
  BY <1>1, <1>2, <1>3, <1>4 DEF evaluate

(* A principle leaves a result a result, and never lifts a denial.         *)
LEMMA TightenType ==
    ASSUME NEW res \in Results,
           NEW c \in {EscalateToSandbox, AddPermission, RequireAudit}
    PROVE  /\ tighten(res, c) \in Results
           /\ res.execution_mode = "Denied" => tighten(res, c).execution_mode = "Denied"
<1>1. CASE c = EscalateToSandbox
  <2>1. tighten(res, c) = EscalateTo(res, "Sandbox")
    BY <1>1 DEF tighten, EscalateToSandbox
  <2>2. [res EXCEPT !.execution_mode = "Sandbox"] \in Results
    BY DEF Results, Modes
  <2>3. res.execution_mode = "Denied" => EscalateTo(res, "Sandbox") = res
    BY <2>2 DEF EscalateTo, is_stricter_than, safety_level, SafetyLevels, Results
  <2> QED
    BY <2>1, <2>2, <2>3 DEF EscalateTo
<1>2. CASE c = AddPermission
  <2>1. tighten(res, c) = AddGuard(res, "Permission")
    BY <1>2 DEF tighten, AddPermission
  <2>2. Append(res.approval_chain, "Permission") \in Seq(Gates)
    BY DEF Results, Gates
  <2>3. ASSUME NEW gates \in Seq(Gates)
        PROVE  /\ [res EXCEPT !.approval_chain = gates] \in Results
               /\ [res EXCEPT !.approval_chain = gates].execution_mode
                    = res.execution_mode
    BY DEF Results
  <2>4. AddGuard(res, "Permission")
            \in {res, [res EXCEPT !.approval_chain =
                                Append(res.approval_chain, "Permission")]}
    BY DEF AddGuard
  <2> QED
    BY <2>1, <2>2, <2>3, <2>4
<1>3. CASE c = RequireAudit
  <2>1. tighten(res, c) = [res EXCEPT !.requires_audit = TRUE]
    BY <1>3 DEF tighten, RequireAudit
  <2> QED
    BY <2>1 DEF Results
<1> QED
  BY <1>1, <1>2, <1>3

(* So do all the principles a run applies to a call.                       *)
LEMMA EvaluatedType ==
    ASSUME NEW r, NEW c, NEW open \in BOOLEAN
    PROVE  /\ Evaluated(r, c, open) \in Results
           /\ evaluate(c.ceremony, c.palace).execution_mode = "Denied"
                => Evaluated(r, c, open).execution_mode = "Denied"
<1>1. ASSUME NEW res \in Results, NEW present,
             NEW x \in {EscalateToSandbox, AddPermission, RequireAudit}
      PROVE  /\ ApplyIf(present, res, x) \in Results
             /\ res.execution_mode = "Denied"
                  => ApplyIf(present, res, x).execution_mode = "Denied"
  BY TightenType DEF ApplyIf
<1>2. ASSUME NEW S, NEW res \in Results
      PROVE  /\ Layer4(S, res) \in Results
             /\ res.execution_mode = "Denied" => Layer4(S, res).execution_mode = "Denied"
  BY <1>1 DEF Layer4
<1> QED
  BY <1>2, EvaluateType DEF Evaluated

-----------------------------------------------------------------------------
(* The inductive invariant.  Neither QuestionsAnswerable nor NeverUnasked  *)
(* is inductive: a timeout deletes by id, so ids must be unique; and a     *)
(* call that must be asked about is safe on its way only because the       *)
(* question is still ahead of it or the user's consent is behind it.       *)

Asks(gates) == \E i \in DOMAIN gates : gates[i] = "UserConfirmation"

CallHeld == \A r \in Runs : stage[r] # "idle" => call[r] \in Calls

ChainHeld == \A r \in Runs : stage[r] = "waiting" => chain[r] # <<>>

OneQuestion ==
    /\ \A r \in Runs : stage[r] = "waiting" => ticket[r] < nextId
    /\ \A p \in pending : \A r \in Runs :
            stage[r] = "waiting" /\ ticket[r] = p.id => p.run = r
    /\ \A p, q \in pending : p.run = q.run => p = q

Consented(r) == call[r].key \in consented[SessionOf[r]]

AskedOrConsented ==
    \A r \in Runs : stage[r] \in {"walking", "waiting"} /\ MustAsk(call[r])
                        => Asks(chain[r]) \/ Consented(r)

YesIsConsent ==
    \A r \in Runs : reply[r] = "yes" => stage[r] = "waiting" /\ Consented(r)

MemoryIsConsent == \A s \in Sessions : approvals[s] \subseteq consented[s]

QuestionInv == TypeOK /\ CallHeld /\ ChainHeld /\ OneQuestion /\ QuestionsAnswerable

ConsentInv ==
    AskedOrConsented /\ YesIsConsent /\ MemoryIsConsent /\ NeverUnasked

IInv == QuestionInv /\ ConsentInv

-----------------------------------------------------------------------------
(* What prepare makes of a call: a call that the policy wants asked about, *)
(* or that is evaluated as denied, is refused or has the question ahead.   *)
LEMMA PrepareOutcome ==
    ASSUME NEW r, NEW c, NEW res \in Results
    PROVE  \E st \in {"walking", "cleared", "boxed", "denied"}, gates \in Seq(Gates) :
              /\ prepare(r, c, res) = Outcome(st, gates)
              /\ c.verdict = "Ask" \/ res.execution_mode = "Denied"
                    => st = "denied" \/ (st = "walking" /\ Asks(gates))
<1> DEFINE Good(o, must) ==
        \E st \in {"walking", "cleared", "boxed", "denied"}, gates \in Seq(Gates) :
              /\ o = Outcome(st, gates)
              /\ must => st = "denied" \/ (st = "walking" /\ Asks(gates))
<1> DEFINE must == c.verdict = "Ask" \/ res.execution_mode = "Denied"
<1>1. res.approval_chain \in Seq(Gates) /\ res.execution_mode \in Modes
  BY DEF Results
<1>2. ASSUME NEW m PROVE Good(Outcome("denied", <<>>), m)
  BY ChainTypes
<1>3. ASSUME NEW gates \in Seq(Gates), NEW m, m => Asks(gates)
      PROVE  Good(prepare_guarded(r, c, gates), m)
  BY <1>2, <1>3 DEF prepare_guarded
<1>4. Asks(<<"UserConfirmation">>)
  BY DEF Asks
<1>5. ASSUME NEW gates \in Seq(Gates)
      PROVE  WithConfirmation(gates) \in Seq(Gates) /\ Asks(WithConfirmation(gates))
  <2>1. CASE Asks(gates)
    BY <2>1 DEF WithConfirmation, Asks
  <2>2. CASE ~Asks(gates)
    <3>1. WithConfirmation(gates) = Append(gates, "UserConfirmation")
      BY <2>2 DEF WithConfirmation, Asks
    <3>2. /\ Append(gates, "UserConfirmation") \in Seq(Gates)
          /\ Len(gates) + 1 \in DOMAIN Append(gates, "UserConfirmation")
          /\ Append(gates, "UserConfirmation")[Len(gates) + 1] = "UserConfirmation"
      BY DEF Gates
    <3> QED
      BY <3>1, <3>2 DEF Asks
  <2> QED
    BY <2>1, <2>2
<1>6. ASSUME NEW m, ~m
      PROVE  Good(prepare_sandbox(r, c), m)
  <2>1. CASE sandboxOff
    BY <2>1, <1>3, <1>4, ChainTypes DEF prepare_sandbox
  <2>2. CASE ~sandboxOff
    <3>1. prepare_sandbox(r, c) \in {Outcome("boxed", <<>>), Outcome("denied", <<>>)}
      BY <2>2 DEF prepare_sandbox
    <3>2. Good(Outcome("boxed", <<>>), m)
      BY <1>6, ChainTypes
    <3> QED
      BY <3>1, <3>2, <1>2
  <2> QED
    BY <2>1, <2>2
<1> HIDE DEF Good
<1>7. Good(prepare(r, c, res), must)
  <2>1. CASE Forbidden(r, c)
    BY <2>1, <1>2 DEF prepare
  <2>2. CASE /\ ~Forbidden(r, c)
             /\ c.verdict = "Ask" /\ res.execution_mode # "Denied"
    <3>1. prepare(r, c, res)
            = prepare_guarded(r, c, WithConfirmation(res.approval_chain))
      BY <2>2 DEF prepare
    <3> QED
      BY <3>1, <1>1, <1>3, <1>5
  <2>3. CASE /\ ~Forbidden(r, c)
             /\ ~(c.verdict = "Ask" /\ res.execution_mode # "Denied")
    <3>1. CASE res.execution_mode = "Direct"
      <4>1. prepare(r, c, res) = Outcome("cleared", <<>>)
        BY <2>3, <3>1 DEF prepare
      <4> QED
        BY <4>1, <2>3, <3>1, ChainTypes DEF Good
    <3>2. CASE res.execution_mode = "Guarded"
      <4>1. prepare(r, c, res) = prepare_guarded(r, c, res.approval_chain)
        BY <2>3, <3>2 DEF prepare
      <4> QED
        BY <4>1, <2>3, <3>2, <1>1, <1>3
    <3>3. CASE res.execution_mode = "Sandbox"
      <4>1. prepare(r, c, res) = prepare_sandbox(r, c)
        BY <2>3, <3>3 DEF prepare
      <4> QED
        BY <4>1, <2>3, <3>3, <1>6
    <3>4. CASE res.execution_mode = "Denied"
      <4>1. prepare(r, c, res) = IF gate_is_open(r, "ShangMen")
                                 THEN prepare_guarded(r, c, <<"UserConfirmation">>)
                                 ELSE Outcome("denied", <<>>)
        BY <2>3, <3>4 DEF prepare
      <4> QED
        BY <4>1, <1>2, <1>3, <1>4, ChainTypes
    <3> QED
      BY <1>1, <3>1, <3>2, <3>3, <3>4 DEF Modes
  <2> QED
    BY <2>1, <2>2, <2>3
<1> QED
  BY <1>7 DEF Good

(* Passing a gate that is not a question leaves the question ahead.        *)
LEMMA TailAsks ==
    ASSUME NEW gates \in Seq(Gates), gates # <<>>
    PROVE  /\ Tail(gates) \in Seq(Gates)
           /\ Asks(gates) /\ Head(gates) # "UserConfirmation" => Asks(Tail(gates))
<1>1. Tail(gates) \in Seq(Gates)
  OBVIOUS
<1>2. ASSUME Asks(gates), Head(gates) # "UserConfirmation"
      PROVE  Asks(Tail(gates))
  <2>1. PICK i \in DOMAIN gates : gates[i] = "UserConfirmation"
    BY <1>2 DEF Asks
  <2>2. i \in 2..Len(gates)
    BY <1>2, <2>1
  <2>3. i - 1 \in DOMAIN Tail(gates) /\ Tail(gates)[i - 1] = gates[i]
    BY <2>2
  <2> QED
    BY <2>1, <2>3 DEF Asks
<1> QED
  BY <1>1, <1>2

-----------------------------------------------------------------------------
(* Preservation, one step per action. *)

(* A plate that has prepared nothing, and an empty bus, satisfy it.        *)
LEMMA InitIInv == Init => IInv
<1> SUFFICES ASSUME Init PROVE IInv
  OBVIOUS
<1>1. TypeOK
  BY SessionAssumption, LearnedAssumption, BoundsAssumption
     DEF Init, TypeOK, Stages, Replies
<1>2. CallHeld /\ ChainHeld /\ OneQuestion /\ QuestionsAnswerable
  BY DEF Init, CallHeld, ChainHeld, OneQuestion, QuestionsAnswerable
<1>3. ConsentInv
  BY DEF Init, ConsentInv, AskedOrConsented, YesIsConsent, MemoryIsConsent,
         NeverUnasked
<1> QED
  BY <1>1, <1>2, <1>3 DEF IInv, QuestionInv

(* What a call that is evaluated and prepared becomes.                     *)
LEMMA BeginOutcome ==
    ASSUME NEW r \in Runs, NEW c \in Calls, NEW open \in BOOLEAN, Begin(r, c, open)
    PROVE  \E st \in {"walking", "cleared", "boxed", "denied"}, gates \in Seq(Gates) :
              /\ stage' = [stage EXCEPT ![r] = st]
              /\ chain' = [chain EXCEPT ![r] = gates]
              /\ MustAsk(c) => st = "denied" \/ (st = "walking" /\ Asks(gates))
<1> DEFINE res == Evaluated(r, c, open)
<1>1. /\ res \in Results
      /\ MustAsk(c) => c.verdict = "Ask" \/ res.execution_mode = "Denied"
  BY EvaluatedType DEF MustAsk
<1> HIDE DEF res
<1>2. PICK st \in {"walking", "cleared", "boxed", "denied"}, gates \in Seq(Gates) :
              /\ prepare(r, c, res) = Outcome(st, gates)
              /\ MustAsk(c) => st = "denied" \/ (st = "walking" /\ Asks(gates))
  BY <1>1, PrepareOutcome
<1>3. Outcome(st, gates).stage = st /\ Outcome(st, gates).chain = gates
  BY DEF Outcome
<1> QED
  BY <1>2, <1>3 DEF Begin, res

(* Every step of a run, the gateway, the user or the clock keeps the types. *)
LEMMA TypeStep == QuestionInv /\ [Next]_vars => TypeOK'
<1> SUFFICES ASSUME QuestionInv, [Next]_vars PROVE TypeOK'
  OBVIOUS
<1> USE SessionAssumption, CallsAssumption, LearnedAssumption, BoundsAssumption
<1> USE DEF QuestionInv, TypeOK, Stages, Replies, vars, plate, walk, question
<1>1. ASSUME NEW r \in Runs, NEW c \in Calls, NEW open \in BOOLEAN, Begin(r, c, open)
      PROVE  TypeOK'
  <2>1. PICK st \in {"walking", "cleared", "boxed", "denied"}, gates \in Seq(Gates) :
              /\ stage' = [stage EXCEPT ![r] = st]
              /\ chain' = [chain EXCEPT ![r] = gates]
    BY <1>1, BeginOutcome
  <2>2. call' = [call EXCEPT ![r] = c]
    BY <1>1 DEF Begin
  <2>3. UNCHANGED <<plate, question, cancelled, pending, approvals, nextId,
                    consented>>
    BY <1>1 DEF Begin
  <2> QED
    BY <2>1, <2>2, <2>3
<1>2. ASSUME NEW r \in Runs, PassRule(r)
      PROVE  TypeOK'
  BY <1>2, TailAsks DEF PassRule, AtGate, PassGate
<1>3. ASSUME NEW r \in Runs, ChainPassed(r)
      PROVE  TypeOK'
  BY <1>3 DEF ChainPassed
<1>4. ASSUME NEW r \in Runs, RememberedApproval(r)
      PROVE  TypeOK'
  BY <1>4, TailAsks DEF RememberedApproval, AtGate, PassGate
<1>5. ASSUME NEW r \in Runs, request_confirmation(r)
      PROVE  TypeOK'
  <2>1. /\ nextId \in 1..MaxConfirmations
        /\ nextId' = nextId + 1
        /\ ticket' = [ticket EXCEPT ![r] = nextId]
        /\ stage' = [stage EXCEPT ![r] = "waiting"]
        /\ UNCHANGED <<plate, call, chain, cancelled, approvals, consented>>
    BY <1>5 DEF request_confirmation
  <2>2. pending' \subseteq Confirmations
    <3>1. [id |-> nextId, run |-> r, stale |-> FALSE] \in Confirmations
      BY <2>1 DEF Confirmations
    <3>2. pending' = (pending \ {p \in pending : p.stale})
                        \cup {[id |-> nextId, run |-> r, stale |-> FALSE]}
      BY <1>5 DEF request_confirmation
    <3> QED
      BY <3>1, <3>2
  <2>3. reply' \in [Runs -> Replies]
    BY <1>5 DEF request_confirmation
  <2>4. /\ stage' \in [Runs -> Stages]
        /\ ticket' \in [Runs -> 0..MaxConfirmations]
        /\ nextId' \in 1..(MaxConfirmations + 1)
    BY <2>1
  <2> QED
    BY <2>1, <2>2, <2>3, <2>4
<1>6. ASSUME NEW r \in Runs, Approve(r)
      PROVE  TypeOK'
  <2>1. call[r] \in Calls /\ call[r].key \in Keys
    BY <1>6 DEF Approve, CallHeld, CallRecord
  <2> QED
    BY <1>6, <2>1, TailAsks DEF Approve, PassGate, StopWaiting, ChainHeld
<1>7. ASSUME NEW r \in Runs, Refuse(r)
      PROVE  TypeOK'
  BY <1>7 DEF Refuse, StopWaiting
<1>8. ASSUME NEW r \in Runs, GiveUp(r)
      PROVE  TypeOK'
  BY <1>8 DEF GiveUp, StopWaiting
<1>9. ASSUME NEW r \in Runs, Conclude(r)
      PROVE  TypeOK'
  BY <1>9, ChainTypes DEF Conclude
<1>10. ASSUME NEW r \in Runs, NEW g \in HumanGates, close_gate(r, g)
       PROVE  TypeOK'
  BY <1>10 DEF close_gate
<1>11. ASSUME NEW r \in Runs, with_state(r)
       PROVE  TypeOK'
  BY <1>11 DEF with_state
<1>12. ASSUME NEW p \in pending, NEW t \in BOOLEAN, NEW a \in BOOLEAN,
              handle_confirm(p, t, a)
       PROVE  TypeOK'
  <2>1. p.run \in Runs /\ call[p.run].key \in Keys
    BY DEF Confirmations, QuestionsAnswerable, CallHeld, CallRecord
  <2> QED
    BY <1>12, <2>1 DEF handle_confirm
<1>13. ASSUME NEW r \in Runs, Cancel(r)
       PROVE  TypeOK'
  BY <1>13 DEF Cancel
<1>14. ASSUME NEW s \in Sessions, Disconnect(s)
       PROVE  TypeOK'
  BY <1>14 DEF Disconnect
<1>15. ASSUME NEW s \in Sessions, sweep_destroyed_sessions(s)
       PROVE  TypeOK'
  BY <1>15 DEF sweep_destroyed_sessions
<1>16. ASSUME NEW p \in pending, GrowStale(p)
       PROVE  TypeOK'
  BY <1>16 DEF GrowStale, Confirmations
<1>17. CASE UNCHANGED vars
  BY <1>17
<1> HIDE DEF QuestionInv, TypeOK, vars
<1> QED
  BY <1>1, <1>2, <1>3, <1>4, <1>5, <1>6, <1>7, <1>8, <1>9, <1>10, <1>11, <1>12,
     <1>13, <1>14, <1>15, <1>16, <1>17 DEF Next, RunStep

Matched == CallHeld /\ ChainHeld /\ OneQuestion /\ QuestionsAnswerable

(* Questions and the runs that wait for them stay matched: ids are fresh,  *)
(* a timeout removes its own entry only, and a sweep answers who it drops. *)
LEMMA QuestionStep == QuestionInv /\ [Next]_vars => QuestionInv'
<1> SUFFICES ASSUME QuestionInv, [Next]_vars PROVE Matched'
  BY TypeStep DEF QuestionInv, Matched
<1> USE SessionAssumption, CallsAssumption
<1>0. /\ TypeOK /\ Matched
      /\ \A p \in pending : p.run \in Runs /\ p.id \in 1..MaxConfirmations
  BY DEF QuestionInv, Matched, TypeOK, Confirmations
<1> USE DEF Matched, CallHeld, ChainHeld, OneQuestion, QuestionsAnswerable,
            TypeOK, Stages, Replies, plate, walk, question
<1>1. ASSUME NEW r \in Runs, NEW c \in Calls, NEW open \in BOOLEAN, Begin(r, c, open)
      PROVE  Matched'
  <2>1. PICK st \in {"walking", "cleared", "boxed", "denied"}, gates \in Seq(Gates) :
              /\ stage' = [stage EXCEPT ![r] = st]
              /\ chain' = [chain EXCEPT ![r] = gates]
    BY <1>1, BeginOutcome
  <2>2. stage[r] = "idle" /\ call' = [call EXCEPT ![r] = c]
    BY <1>1 DEF Begin
  <2>3. UNCHANGED <<ticket, reply, pending, nextId>>
    BY <1>1 DEF Begin
  <2> QED
    BY <1>0, <2>1, <2>2, <2>3
<1>2. ASSUME NEW r \in Runs, PassRule(r)
      PROVE  Matched'
  BY <1>0, <1>2 DEF PassRule, AtGate, PassGate
<1>3. ASSUME NEW r \in Runs, ChainPassed(r)
      PROVE  Matched'
  BY <1>0, <1>3 DEF ChainPassed
<1>4. ASSUME NEW r \in Runs, RememberedApproval(r)
      PROVE  Matched'
  BY <1>0, <1>4 DEF RememberedApproval, AtGate, PassGate
<1>5. ASSUME NEW r \in Runs, request_confirmation(r)
      PROVE  Matched'
  <2> DEFINE dropped == {p \in pending : p.stale}
  <2> DEFINE new == [id |-> nextId, run |-> r, stale |-> FALSE]
  <2>1. /\ stage[r] = "walking" /\ chain[r] # <<>>
        /\ nextId' = nextId + 1
        /\ pending' = (pending \ dropped) \cup {new}
        /\ ticket' = [ticket EXCEPT ![r] = nextId]
        /\ reply' = [x \in Runs |->
                        IF x = r THEN "none"
                        ELSE IF \E p \in dropped : p.run = x THEN "dropped"
                        ELSE reply[x]]
        /\ stage' = [stage EXCEPT ![r] = "waiting"]
        /\ UNCHANGED <<call, chain>>
    BY <1>5 DEF request_confirmation, AtGate
  <2>2. new.id = nextId /\ new.run = r
    OBVIOUS
  <2>3. \A p \in pending : p.run # r /\ p.id < nextId
    BY <1>0, <2>1
  <2>4. CallHeld' /\ ChainHeld'
    BY <1>0, <2>1
  <2> HIDE DEF new
  <2>5. OneQuestion'
    <3>1. \A x \in Runs : stage'[x] = "waiting" => ticket'[x] < nextId'
      BY <1>0, <2>1
    <3>2. \A p \in pending' : \A x \in Runs :
              stage'[x] = "waiting" /\ ticket'[x] = p.id => p.run = x
      BY <1>0, <2>1, <2>2, <2>3
    <3>3. \A p, q \in pending' : p.run = q.run => p = q
      BY <1>0, <2>1, <2>2, <2>3
    <3> QED
      BY <3>1, <3>2, <3>3
  <2>6. QuestionsAnswerable'
    <3>1. \A p \in pending' : /\ stage'[p.run] = "waiting"
                              /\ ticket'[p.run] = p.id
                              /\ reply'[p.run] = "none"
      BY <1>0, <2>1, <2>2, <2>3
    <3>2. \A x \in Runs : stage'[x] = "waiting" /\ reply'[x] = "none" =>
              \E p \in pending' : p.run = x
      BY <1>0, <2>1, <2>2, <2>3
    <3> QED
      BY <3>1, <3>2
  <2> QED
    BY <2>4, <2>5, <2>6
<1>6. ASSUME NEW r \in Runs, Approve(r)
      PROVE  Matched'
  BY <1>0, <1>6 DEF Approve, PassGate, StopWaiting
<1>7. ASSUME NEW r \in Runs, Refuse(r)
      PROVE  Matched'
  BY <1>0, <1>7 DEF Refuse, StopWaiting
<1>8. ASSUME NEW r \in Runs, GiveUp(r)
      PROVE  Matched'
  <2>1. /\ stage[r] = "waiting"
        /\ pending' = {p \in pending : p.id # ticket[r]}
        /\ stage' = [stage EXCEPT ![r] = "denied"]
        /\ ticket' = [ticket EXCEPT ![r] = 0]
        /\ reply' = [reply EXCEPT ![r] = "none"]
        /\ UNCHANGED <<call, chain, nextId>>
    BY <1>8 DEF GiveUp, StopWaiting
  <2>2. \A p \in pending : p \in pending' <=> p.run # r
    BY <1>0, <2>1
  <2>3. CallHeld' /\ ChainHeld' /\ OneQuestion'
    BY <1>0, <2>1
  <2>4. QuestionsAnswerable'
    <3>1. ASSUME NEW p \in pending'
          PROVE  stage'[p.run] = "waiting" /\ ticket'[p.run] = p.id /\ reply'[p.run] = "none"
      <4>1. p \in pending /\ p.run \in Runs /\ p.run # r
        BY <1>0, <2>1, <2>2
      <4> QED
        BY <1>0, <2>1, <4>1
    <3>2. ASSUME NEW x \in Runs, stage'[x] = "waiting", reply'[x] = "none"
          PROVE  \E p \in pending' : p.run = x
      <4>1. x # r /\ stage[x] = "waiting" /\ reply[x] = "none"
        BY <1>0, <2>1, <3>2
      <4>2. PICK p \in pending : p.run = x
        BY <1>0, <4>1
      <4> QED
        BY <2>2, <4>1, <4>2
    <3> QED
      BY <3>1, <3>2
  <2> QED
    BY <2>3, <2>4
<1>9. ASSUME NEW r \in Runs, Conclude(r)
      PROVE  Matched'
  BY <1>0, <1>9 DEF Conclude
<1>10. ASSUME NEW r \in Runs, NEW g \in HumanGates, close_gate(r, g)
       PROVE  Matched'
  BY <1>0, <1>10 DEF close_gate
<1>11. ASSUME NEW r \in Runs, with_state(r)
       PROVE  Matched'
  BY <1>0, <1>11 DEF with_state
<1>12. ASSUME NEW p \in pending, NEW t \in BOOLEAN, NEW a \in BOOLEAN,
              handle_confirm(p, t, a)
       PROVE  Matched'
  BY <1>0, <1>12 DEF handle_confirm
<1>13. ASSUME NEW r \in Runs, Cancel(r)
       PROVE  Matched'
  BY <1>0, <1>13 DEF Cancel
<1>14. ASSUME NEW s \in Sessions, Disconnect(s)
       PROVE  Matched'
  BY <1>0, <1>14 DEF Disconnect
<1>15. ASSUME NEW s \in Sessions, sweep_destroyed_sessions(s)
       PROVE  Matched'
  BY <1>0, <1>15 DEF sweep_destroyed_sessions
<1>16. ASSUME NEW p \in pending, GrowStale(p)
       PROVE  Matched'
  <2>1. [p EXCEPT !.stale = TRUE].run = p.run /\ [p EXCEPT !.stale = TRUE].id = p.id
    BY <1>0 DEF Confirmations
  <2> DEFINE older == [p EXCEPT !.stale = TRUE]
  <2>2. /\ pending' = (pending \ {p}) \cup {older}
        /\ UNCHANGED <<stage, call, chain, ticket, reply, nextId>>
    BY <1>16 DEF GrowStale
  <2>3. older.run = p.run /\ older.id = p.id
    BY <2>1
  <2> HIDE DEF older
  <2>4. CallHeld' /\ ChainHeld'
    BY <1>0, <2>2
  <2>5. OneQuestion'
    BY <1>0, <2>2, <2>3
  <2>6. QuestionsAnswerable'
    BY <1>0, <2>2, <2>3
  <2> QED
    BY <2>4, <2>5, <2>6
<1>17. CASE UNCHANGED vars
  BY <1>0, <1>17 DEF vars
<1> HIDE DEF Matched
<1> QED
  BY <1>1, <1>2, <1>3, <1>4, <1>5, <1>6, <1>7, <1>8, <1>9, <1>10, <1>11, <1>12,
     <1>13, <1>14, <1>15, <1>16, <1>17 DEF Next, RunStep

(* Consent is never lost, and nothing but the user's answer creates it.    *)
LEMMA ConsentStep == IInv /\ [Next]_vars => ConsentInv'
<1> SUFFICES ASSUME IInv, [Next]_vars PROVE ConsentInv'
  OBVIOUS
<1> USE SessionAssumption
<1>0. /\ TypeOK /\ Matched /\ ConsentInv
      /\ \A p \in pending : p.run \in Runs
  BY DEF IInv, QuestionInv, Matched, TypeOK, Confirmations
<1> USE DEF ConsentInv, AskedOrConsented, YesIsConsent, MemoryIsConsent, NeverUnasked,
            Consented, TypeOK, Stages, Replies, plate, walk, question
<1>1. ASSUME NEW r \in Runs, NEW c \in Calls, NEW open \in BOOLEAN, Begin(r, c, open)
      PROVE  ConsentInv'
  <2>1. PICK st \in {"walking", "cleared", "boxed", "denied"}, gates \in Seq(Gates) :
              /\ stage' = [stage EXCEPT ![r] = st]
              /\ chain' = [chain EXCEPT ![r] = gates]
              /\ MustAsk(c) => st = "denied" \/ (st = "walking" /\ Asks(gates))
    BY <1>1, BeginOutcome
  <2>2. stage[r] = "idle" /\ call' = [call EXCEPT ![r] = c]
    BY <1>1 DEF Begin
  <2>3. UNCHANGED <<reply, approvals, consented>>
    BY <1>1 DEF Begin
  <2> QED
    BY <1>0, <2>1, <2>2, <2>3
<1>2. ASSUME NEW r \in Runs, PassRule(r)
      PROVE  ConsentInv'
  BY <1>0, <1>2, TailAsks DEF PassRule, AtGate, PassGate
<1>3. ASSUME NEW r \in Runs, ChainPassed(r)
      PROVE  ConsentInv'
  <2>1. ~Asks(<<>>)
    BY DEF Asks
  <2> QED
    BY <1>0, <1>3, <2>1 DEF ChainPassed
<1>4. ASSUME NEW r \in Runs, RememberedApproval(r)
      PROVE  ConsentInv'
  BY <1>0, <1>4 DEF RememberedApproval, AtGate, PassGate
<1>5. ASSUME NEW r \in Runs, request_confirmation(r)
      PROVE  ConsentInv'
  <2>1. /\ stage[r] = "walking"
        /\ stage' = [stage EXCEPT ![r] = "waiting"]
        /\ UNCHANGED <<call, chain, approvals, consented>>
        /\ \A x \in Runs : reply'[x] = "yes" => reply[x] = "yes" /\ x # r
    BY <1>5 DEF request_confirmation, AtGate
  <2> QED
    BY <1>0, <2>1
<1>6. ASSUME NEW r \in Runs, Approve(r)
      PROVE  ConsentInv'
  BY <1>0, <1>6 DEF Approve, PassGate, StopWaiting
<1>7. ASSUME NEW r \in Runs, Refuse(r)
      PROVE  ConsentInv'
  BY <1>0, <1>7 DEF Refuse, StopWaiting
<1>8. ASSUME NEW r \in Runs, GiveUp(r)
      PROVE  ConsentInv'
  BY <1>0, <1>8 DEF GiveUp, StopWaiting
<1>9. ASSUME NEW r \in Runs, Conclude(r)
      PROVE  ConsentInv'
  BY <1>0, <1>9 DEF Conclude
<1>10. ASSUME NEW r \in Runs, NEW g \in HumanGates, close_gate(r, g)
       PROVE  ConsentInv'
  BY <1>0, <1>10 DEF close_gate
<1>11. ASSUME NEW r \in Runs, with_state(r)
       PROVE  ConsentInv'
  BY <1>0, <1>11 DEF with_state
<1>12. ASSUME NEW p \in pending, NEW t \in BOOLEAN, NEW a \in BOOLEAN,
              handle_confirm(p, t, a)
       PROVE  ConsentInv'
  <2>1. p.run \in Runs /\ stage[p.run] = "waiting"
    BY <1>0 DEF Matched, QuestionsAnswerable
  <2>2. /\ UNCHANGED <<stage, call, chain, approvals>>
        /\ \A s \in Sessions : consented[s] \subseteq consented'[s]
        /\ \A x \in Runs : reply'[x] = "yes" =>
                \/ x # p.run /\ reply[x] = "yes"
                \/ x = p.run /\ call[x].key \in consented'[SessionOf[x]]
    BY <1>0, <1>12, <2>1 DEF handle_confirm
  <2> QED
    BY <1>0, <2>1, <2>2
<1>13. ASSUME NEW r \in Runs, Cancel(r)
       PROVE  ConsentInv'
  BY <1>0, <1>13 DEF Cancel
<1>14. ASSUME NEW s \in Sessions, Disconnect(s)
       PROVE  ConsentInv'
  BY <1>0, <1>14 DEF Disconnect
<1>15. ASSUME NEW s \in Sessions, sweep_destroyed_sessions(s)
       PROVE  ConsentInv'
  BY <1>0, <1>15 DEF sweep_destroyed_sessions
<1>16. ASSUME NEW p \in pending, GrowStale(p)
       PROVE  ConsentInv'
  BY <1>0, <1>16 DEF GrowStale
<1>17. CASE UNCHANGED vars
  BY <1>0, <1>17 DEF vars
<1> HIDE DEF ConsentInv
<1> QED
  BY <1>1, <1>2, <1>3, <1>4, <1>5, <1>6, <1>7, <1>8, <1>9, <1>10, <1>11, <1>12,
     <1>13, <1>14, <1>15, <1>16, <1>17 DEF Next, RunStep

-----------------------------------------------------------------------------
(* The theorems. *)

(* The inductive invariant holds in every reachable state.                 *)
LEMMA Invariance == Spec => []IInv
<1>1. IInv /\ [Next]_vars => IInv'
  BY QuestionStep, ConsentStep DEF IInv
<1> QED
  BY <1>1, InitIInv, PTL DEF Spec

(* The plate's state, the session bus and the histories keep their types.  *)
THEOREM TypeCorrect == Spec => []TypeOK
<1>1. IInv => TypeOK
  BY DEF IInv, QuestionInv
<1> QED
  BY <1>1, Invariance, PTL

(* Whatever the number of runs, sessions and questions: every entry of     *)
(* pending_confirmations has its waiter and every unanswered waiter its    *)
(* entry, under timeouts, cancellation, sweeps and the stale cleanup.      *)
THEOREM QuestionsAreAnswerable == Spec => []QuestionsAnswerable
<1>1. IInv => QuestionsAnswerable
  BY DEF IInv, QuestionInv
<1> QED
  BY <1>1, Invariance, PTL

(* For every tool, pattern and set of principles: a call the policy wants  *)
(* asked about, or that GeJu denies, runs only after a user of its session *)
(* has approved this tool and input.                                       *)
THEOREM NothingRunsUnasked == Spec => []NeverUnasked
<1>1. IInv => NeverUnasked
  BY DEF IInv, ConsentInv
<1> QED
  BY <1>1, Invariance, PTL

-----------------------------------------------------------------------------
(* Refusals.  What refuses a call is fixed before the chain is walked, and *)
(* no gate of the run opens or closes while a call is on its way.          *)

Admitted(r, c) ==
    /\ ~Forbidden(r, c)
    /\ evaluate(c.ceremony, c.palace).execution_mode = "Denied"
            => gate_is_open(r, "ShangMen")

RefusalInv ==
    \A r \in Runs :
        /\ stage[r] \notin {"idle", "denied"} => Admitted(r, call[r])
        /\ stage[r] = "boxed" => call[r].boxable /\ ~sandboxOff

(* prepare lets on only what is admitted, and boxes only what a working    *)
(* sandbox can take.                                                       *)
LEMMA PrepareAdmits ==
    ASSUME NEW r, NEW c, NEW res \in Results, NEW st, NEW gates,
           prepare(r, c, res) = Outcome(st, gates), st # "denied"
    PROVE  /\ ~Forbidden(r, c)
           /\ res.execution_mode = "Denied" => gate_is_open(r, "ShangMen")
           /\ st = "boxed" => c.boxable /\ ~sandboxOff
<1>1. ASSUME NEW a, NEW b, NEW x, NEW y, Outcome(a, x) = Outcome(b, y)
      PROVE  a = b
  BY <1>1 DEF Outcome
<1>2. ~Forbidden(r, c)
  BY <1>1 DEF prepare
<1>3. res.execution_mode = "Denied" => gate_is_open(r, "ShangMen")
  BY <1>1, <1>2 DEF prepare
<1>4. ASSUME NEW g, prepare_guarded(r, c, g) = Outcome("boxed", gates)
      PROVE  FALSE
  <2>1. CASE GatesBlock(r, c)
    BY <1>1, <1>4, <2>1 DEF prepare_guarded
  <2>2. CASE ~GatesBlock(r, c)
    BY <1>1, <1>4, <2>2 DEF prepare_guarded
  <2> QED
    BY <2>1, <2>2
<1>5. ASSUME st = "boxed"
      PROVE  prepare(r, c, res) = prepare_sandbox(r, c)
  BY <1>1, <1>2, <1>4, <1>5 DEF prepare, Results, Modes
<1>6. st = "boxed" => c.boxable /\ ~sandboxOff
  BY <1>1, <1>4, <1>5 DEF prepare_sandbox
<1> QED
  BY <1>2, <1>3, <1>6

(* Every step keeps what is on its way admitted.                           *)
LEMMA RefusalStep == TypeOK /\ RefusalInv /\ [Next]_vars => RefusalInv'
<1> SUFFICES ASSUME TypeOK, RefusalInv, [Next]_vars PROVE RefusalInv'
  OBVIOUS
<1> USE DEF RefusalInv, Admitted, Forbidden, gate_is_open, TypeOK, Stages, plate, walk,
            question
<1>1. ASSUME NEW r \in Runs, NEW c \in Calls, NEW open \in BOOLEAN, Begin(r, c, open)
      PROVE  RefusalInv'
  <2> DEFINE res == Evaluated(r, c, open)
  <2>1. /\ res \in Results
        /\ evaluate(c.ceremony, c.palace).execution_mode = "Denied"
                => res.execution_mode = "Denied"
    BY EvaluatedType
  <2>2. /\ stage' = [stage EXCEPT ![r] = prepare(r, c, res).stage]
        /\ call' = [call EXCEPT ![r] = c]
        /\ UNCHANGED <<closed, sandboxOff>>
    BY <1>1 DEF Begin
  <2> HIDE DEF res
  <2>3. PICK st \in {"walking", "cleared", "boxed", "denied"}, gates \in Seq(Gates) :
              /\ prepare(r, c, res) = Outcome(st, gates)
              /\ c.verdict = "Ask" \/ res.execution_mode = "Denied"
                    => st = "denied" \/ (st = "walking" /\ Asks(gates))
    BY <2>1, PrepareOutcome
  <2>4. prepare(r, c, res).stage = st
    BY <2>3 DEF Outcome
  <2>5. /\ st # "denied" => Admitted(r, c)
        /\ st = "boxed" => c.boxable /\ ~sandboxOff
    BY <2>1, <2>3, PrepareAdmits
  <2> QED
    BY <2>2, <2>4, <2>5
<1>2. ASSUME NEW r \in Runs,
             sandboxOff' = sandboxOff, closed' = closed, call' = call,
             \A x \in Runs : x # r => stage'[x] = stage[x],
             stage'[r] \in {stage[r], "walking", "waiting", "cleared", "denied"},
             stage[r] \notin {"idle", "denied"}
      PROVE  RefusalInv'
  BY <1>2
<1>3. ASSUME NEW r \in Runs,
             PassRule(r) \/ ChainPassed(r) \/ RememberedApproval(r)
                \/ request_confirmation(r) \/ Approve(r) \/ Refuse(r) \/ GiveUp(r)
      PROVE  RefusalInv'
  <2>1. /\ sandboxOff' = sandboxOff /\ closed' = closed /\ call' = call
        /\ \A x \in Runs : x # r => stage'[x] = stage[x]
        /\ stage'[r] \in {stage[r], "walking", "waiting", "cleared", "denied"}
        /\ stage[r] \notin {"idle", "denied"}
    <3>1. CASE PassRule(r) \/ RememberedApproval(r)
      BY <3>1 DEF PassRule, RememberedApproval, AtGate
    <3>2. CASE request_confirmation(r)
      BY <3>2 DEF request_confirmation, AtGate
    <3>3. CASE ChainPassed(r)
      BY <3>3 DEF ChainPassed
    <3>4. CASE Approve(r)
      BY <3>4 DEF Approve
    <3>5. CASE Refuse(r) \/ GiveUp(r)
      BY <3>5 DEF Refuse, GiveUp
    <3> QED
      BY <1>3, <3>1, <3>2, <3>3, <3>4, <3>5
  <2> QED
    BY <1>2, <2>1
<1>4. ASSUME NEW r \in Runs, Conclude(r)
      PROVE  RefusalInv'
  BY <1>4 DEF Conclude
<1>5. ASSUME NEW r \in Runs, NEW g \in HumanGates, close_gate(r, g)
      PROVE  RefusalInv'
  BY <1>5 DEF close_gate
<1>6. ASSUME NEW r \in Runs, with_state(r)
      PROVE  RefusalInv'
  BY <1>6 DEF with_state
<1>7. CASE UNCHANGED <<sandboxOff, closed, stage, call>>
  <2>1. /\ sandboxOff' = sandboxOff
        /\ closed' = closed
        /\ stage' = stage
        /\ call' = call
    BY <1>7
  <2> QED
    BY <2>1
<1> HIDE DEF RefusalInv
<1>8. ASSUME NEW r \in Runs, Cancel(r)
      PROVE  UNCHANGED <<sandboxOff, closed, stage, call>>
  BY <1>8 DEF Cancel
<1>9. ASSUME NEW p \in pending, NEW t \in BOOLEAN, NEW a \in BOOLEAN,
             handle_confirm(p, t, a) \/ GrowStale(p)
      PROVE  UNCHANGED <<sandboxOff, closed, stage, call>>
  BY <1>9 DEF handle_confirm, GrowStale
<1>10. ASSUME NEW s \in Sessions, Disconnect(s) \/ sweep_destroyed_sessions(s)
       PROVE  UNCHANGED <<sandboxOff, closed, stage, call>>
  BY <1>10 DEF Disconnect, sweep_destroyed_sessions
<1>11. CASE UNCHANGED vars
  BY <1>7, <1>11 DEF vars
<1> QED
  BY <1>1, <1>3, <1>4, <1>5, <1>6, <1>7, <1>8, <1>9, <1>10, <1>11 DEF Next, RunStep

(* What a deny rule, the Verifier's list, a closed gate or the sandbox     *)
(* refuses stays refused, for every set of calls, gates and principles.    *)
THEOREM RefusalsAreFinal == Spec => []RefusalsHold
<1>1. Init => RefusalInv
  BY DEF Init, RefusalInv
<1>2. RefusalInv => RefusalsHold
  BY DEF RefusalInv, Admitted, Forbidden, RefusalsHold
<1> QED
  BY <1>1, <1>2, TypeCorrect, RefusalStep, PTL DEF Spec

-----------------------------------------------------------------------------
(* The chain's SandboxIsolation arm, which would return before any gate    *)
(* behind it is asked, is dead code for the pairs the tools declare.       *)

Walkable == Gates \ {"SandboxIsolation"}

NoIsolation == \A r \in Runs : chain[r] \in Seq(Walkable)

(* No declared pair evaluates to a chain with SandboxIsolation.            *)
LEMMA DeclaredChains ==
    ASSUME NEW c \in Calls
    PROVE  evaluate(c.ceremony, c.palace).approval_chain \in Seq(Walkable)
<1>1. <<c.ceremony, c.palace>> \in DeclaredPairs
  BY PairsAssumption
<1>2. \/ c.ceremony = c.palace /\ c.ceremony \in Ceremonies
      \/ c.ceremony = "Ren" /\ c.palace = "Geng"
      \/ c.ceremony = "Gui" /\ c.palace = "Xin"
      \/ c.ceremony = "Wu" /\ c.palace \in {"Ren", "Ji"}
  BY <1>1 DEF DeclaredPairs
<1>3. evaluate(c.ceremony, c.palace)
        \in {Direct, Guarded, Result("Denied", TRUE, <<"Permission">>)}
  <2>1. CASE c.ceremony = c.palace /\ c.ceremony \in Ceremonies
    BY <2>1 DEF evaluate, IsNamed, named_pattern, Ceremonies
  <2>2. CASE c.ceremony = "Ren" /\ c.palace = "Geng"
    BY <2>2 DEF evaluate, IsNamed, named_pattern, Ceremonies
  <2>3. CASE c.ceremony = "Gui" /\ c.palace = "Xin"
    BY <2>3 DEF evaluate, IsNamed, ceremony_semantic, Ceremonies, Marvels
  <2>4. CASE c.ceremony = "Wu" /\ c.palace \in {"Ren", "Ji"}
    BY <2>4 DEF evaluate, IsNamed, named_pattern, ceremony_semantic, Ceremonies, Marvels
  <2> QED
    BY <1>2, <2>1, <2>2, <2>3, <2>4
<1>4. <<>> \in Seq(Walkable) /\ <<"Permission">> \in Seq(Walkable)
  BY DEF Walkable, Gates
<1>5. /\ Direct.approval_chain = <<>>
      /\ Guarded.approval_chain = <<>>
      /\ Result("Denied", TRUE, <<"Permission">>).approval_chain = <<"Permission">>
  BY DEF Direct, Guarded, Result
<1> QED
  BY <1>3, <1>4, <1>5

(* Principles add Permission gates only.                                   *)
LEMMA TightenedChains ==
    ASSUME NEW res \in Results, res.approval_chain \in Seq(Walkable),
           NEW c \in {EscalateToSandbox, AddPermission, RequireAudit}
    PROVE  tighten(res, c).approval_chain \in Seq(Walkable)
<1>1. CASE c = EscalateToSandbox
  BY <1>1 DEF tighten, EscalateTo, EscalateToSandbox, Results
<1>2. CASE c = AddPermission
  <2>1. tighten(res, c) = AddGuard(res, "Permission")
    BY <1>2 DEF tighten, AddPermission
  <2>2. Append(res.approval_chain, "Permission") \in Seq(Walkable)
    BY DEF Walkable, Gates
  <2> QED
    BY <2>1, <2>2 DEF AddGuard, Results
<1>3. CASE c = RequireAudit
  BY <1>3 DEF tighten, RequireAudit, Results
<1> QED
  BY <1>1, <1>2, <1>3

(* So a call's chain is walkable when prepare is done with it.             *)
LEMMA PreparedChains ==
    ASSUME NEW r, NEW c \in Calls, NEW open \in BOOLEAN
    PROVE  prepare(r, c, Evaluated(r, c, open)).chain \in Seq(Walkable)
<1> DEFINE res == Evaluated(r, c, open)
<1>1. res \in Results /\ res.approval_chain \in Seq(Walkable)
  <2>1. ASSUME NEW y \in Results, y.approval_chain \in Seq(Walkable), NEW present,
               NEW x \in {EscalateToSandbox, AddPermission, RequireAudit}
        PROVE  /\ ApplyIf(present, y, x) \in Results
               /\ ApplyIf(present, y, x).approval_chain \in Seq(Walkable)
    BY <2>1, TightenType, TightenedChains DEF ApplyIf
  <2>2. ASSUME NEW S, NEW y \in Results, y.approval_chain \in Seq(Walkable)
        PROVE  Layer4(S, y) \in Results /\ Layer4(S, y).approval_chain \in Seq(Walkable)
    BY <2>1, <2>2 DEF Layer4
  <2> QED
    BY <2>2, EvaluateType, DeclaredChains DEF Evaluated
<1> HIDE DEF res
<1>2. /\ <<>> \in Seq(Walkable)
      /\ <<"UserConfirmation">> \in Seq(Walkable)
      /\ WithConfirmation(res.approval_chain) \in Seq(Walkable)
  <2>1. Append(res.approval_chain, "UserConfirmation") \in Seq(Walkable)
    BY <1>1 DEF Walkable, Gates
  <2> QED
    BY <1>1, <2>1 DEF WithConfirmation, Walkable, Gates
<1>3. ASSUME NEW s, NEW gates \in Seq(Walkable)
      PROVE  Outcome(s, gates).chain \in Seq(Walkable)
  BY DEF Outcome
<1>4. ASSUME NEW gates \in Seq(Walkable)
      PROVE  prepare_guarded(r, c, gates).chain \in Seq(Walkable)
  BY <1>2, <1>3 DEF prepare_guarded
<1>5. prepare_sandbox(r, c).chain \in Seq(Walkable)
  BY <1>2, <1>3, <1>4 DEF prepare_sandbox
<1>6. prepare(r, c, res).chain \in Seq(Walkable)
  <2>1. res.execution_mode \in Modes
    BY <1>1 DEF Results
  <2> QED
    BY <1>1, <1>2, <1>3, <1>4, <1>5, <2>1 DEF prepare, Modes
<1> QED
  BY <1>6 DEF res

(* No run ever reaches SandboxIsolation on an approval chain: a question   *)
(* that is on the chain is not skipped by an early return into the sandbox *)
(* path, and the specification's lack of a step for that gate loses none   *)
(* of the code's behaviour.                                                *)
THEOREM WalkNeverIsolates == Spec => []NoIsolation
<1>1. Init => NoIsolation
  BY DEF Init, NoIsolation
<1>2. IInv => TypeOK /\ ChainHeld
  BY DEF IInv, QuestionInv
<1>3. TypeOK /\ ChainHeld /\ NoIsolation /\ [Next]_vars => NoIsolation'
  <2> SUFFICES ASSUME TypeOK, ChainHeld, NoIsolation, [Next]_vars PROVE NoIsolation'
    OBVIOUS
  <2>1. ASSUME NEW r \in Runs, NEW gates \in Seq(Walkable),
               chain' = [chain EXCEPT ![r] = gates]
        PROVE  NoIsolation'
    BY <2>1 DEF NoIsolation, TypeOK
  <2>2. ASSUME NEW r \in Runs, NEW c \in Calls, NEW open \in BOOLEAN, Begin(r, c, open)
        PROVE  NoIsolation'
    BY <2>1, <2>2, PreparedChains DEF Begin
  <2>3. ASSUME NEW r \in Runs, PassRule(r) \/ RememberedApproval(r) \/ Approve(r)
        PROVE  NoIsolation'
    <3>1. chain[r] # <<>> /\ chain' = [chain EXCEPT ![r] = Tail(chain[r])]
      BY <2>3 DEF PassRule, RememberedApproval, Approve, PassGate, AtGate, ChainHeld,
                  TypeOK
    <3>2. chain[r] \in Seq(Walkable)
      BY DEF NoIsolation
    <3>3. Tail(chain[r]) \in Seq(Walkable)
      BY <3>1, <3>2
    <3> QED
      BY <2>1, <3>1, <3>3
  <2>4. ASSUME NEW r \in Runs, Conclude(r)
        PROVE  NoIsolation'
    <3>1. <<>> \in Seq(Walkable)
      OBVIOUS
    <3> QED
      BY <2>1, <2>4, <3>1 DEF Conclude
  <2>5. CASE UNCHANGED chain
    BY <2>5 DEF NoIsolation
  <2>6. ASSUME NEW r \in Runs,
               ChainPassed(r) \/ request_confirmation(r) \/ Refuse(r) \/ GiveUp(r)
                 \/ with_state(r) \/ Cancel(r) \/ (\E g \in HumanGates : close_gate(r, g))
        PROVE  UNCHANGED chain
    BY <2>6 DEF ChainPassed, request_confirmation, Refuse, GiveUp, with_state, Cancel,
                close_gate, walk
  <2>7. ASSUME NEW p \in pending, NEW t \in BOOLEAN, NEW a \in BOOLEAN,
               handle_confirm(p, t, a) \/ GrowStale(p)
        PROVE  UNCHANGED chain
    BY <2>7 DEF handle_confirm, GrowStale, walk
  <2>8. ASSUME NEW s \in Sessions, Disconnect(s) \/ sweep_destroyed_sessions(s)
        PROVE  UNCHANGED chain
    BY <2>8 DEF Disconnect, sweep_destroyed_sessions, walk
  <2>9. CASE UNCHANGED vars
    BY <2>5, <2>9 DEF vars
  <2> QED
    BY <2>2, <2>3, <2>4, <2>5, <2>6, <2>7, <2>8, <2>9 DEF Next, RunStep
<1> QED
  BY <1>1, <1>2, <1>3, Invariance, PTL DEF Spec
=============================================================================
