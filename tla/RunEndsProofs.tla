---------------------------- MODULE RunEndsProofs ---------------------------
(***************************************************************************)
(* Proofs about AgentLoop, for any number of turns, retries, reminders,    *)
(* runs, criteria and steer messages, and about RinSocket, for any         *)
(* clients, whatever each of them may send, any number of notices and      *)
(* events, and any capacities.                                             *)
(***************************************************************************)
EXTENDS AgentLoop, RinSocket, SequenceTheorems, TLAPS

-----------------------------------------------------------------------------
(* AgentLoop.                                                              *)

Has(s, x) == \E i \in 1..Len(s) : s[i] = x

(* In a turn the counter is within max_turns.                              *)
TurnCounted ==
    /\ pc = "top" => turn <= MaxTurns
    /\ pc \notin {"idle", "top", "broke", "returned"} => turn \in 1..MaxTurns

(* Only a checkpoint has messages in its hand, and they, with what was     *)
(* folded, are all that had been pushed when it drained the queue.         *)
HandPlaced == pc # "place" => hand = <<>>
Drained == pc = "place" => \A id \in 1..seen : Has(folded, id) \/ Has(hand, id)
Placed ==
    pc \in {"compact", "infer"} =>
        \A id \in 1..seen : priority[id] # "Later" => Has(folded, id)

SteerInv ==
    SteerConserved /\ SteerInOrder /\ HandPlaced /\ Drained /\ Placed

(* A response in a history is of an earlier run, or of a turn of this run  *)
(* that is completed; a turn is completed by the end of its stream.        *)
Known(h) ==
    \A i \in 1..Len(h) :
        h[i].type = "assistant" =>
            /\ h[i].run <= runs
            /\ h[i].run = runs => h[i].n \in completed

ResponseInv ==
    /\ Known(history) /\ Known(stored)
    /\ \A t \in completed : t <= turn
    /\ pc \in {"checkpoint", "place", "compact", "infer"} => turn \notin completed
    /\ pc \in {"endedCalls", "endedText"} /\ turn \in completed
          => Has(history, Assistant(runs, turn))
    /\ pc = "returned" /\ turn \in completed
          => Has(stored, Assistant(runs, turn))

LoopInv == TypeOK /\ TurnCounted /\ SteerInv /\ ResponseInv

-----------------------------------------------------------------------------
(* Type correctness.                                                       *)

(* What the loop puts into a history is an entry.                          *)
LEMMA EntryTypes ==
    /\ \A r \in 0..MaxRuns : User(r) \in Entries
    /\ \A id \in Nat : Steer(id) \in Entries
    /\ \A r \in 0..MaxRuns, n \in Nat : Assistant(r, n) \in Entries
    /\ \A r \in 0..MaxRuns, n \in Nat : Tools(r, n) \in Entries
    /\ Note \in Entries
BY BoundsAssumption DEF Entries, User, Steer, Assistant, Tools, Note

(* Folding messages appends a steer entry for each of them.                *)
LEMMA FoldedSeq ==
    ASSUME NEW h \in Seq(Entries), NEW N \in Nat, NEW ids \in Seq(1..N)
    PROVE  /\ Folded(h, ids) \in Seq(Entries)
           /\ Len(Folded(h, ids)) = Len(h) + Len(ids)
           /\ \A i \in 1..Len(h) : Folded(h, ids)[i] = h[i]
           /\ \A i \in 1..Len(Folded(h, ids)) :
                 i \notin 1..Len(h) => Folded(h, ids)[i].type = "steer"
<1> DEFINE t == [i \in 1..Len(ids) |-> Steer(ids[i])]
<1>1. \A i \in 1..Len(ids) : Steer(ids[i]) \in Entries
  BY EntryTypes
<1>2. t \in Seq(Entries) /\ Len(t) = Len(ids)
  BY <1>1, IsASeq
<1>3. \A i \in 1..Len(ids) : t[i].type = "steer"
  BY DEF Steer
<1>4. Folded(h, ids) = h \o t
  BY DEF Folded
<1> HIDE DEF t
<1>5. /\ h \o t \in Seq(Entries)
      /\ Len(h \o t) = Len(h) + Len(t)
      /\ \A i \in 1..(Len(h) + Len(t)) :
            (h \o t)[i] = IF i <= Len(h) THEN h[i] ELSE t[i - Len(h)]
  BY <1>2, ConcatProperties
<1>6. ASSUME NEW i \in 1..Len(h \o t), i \notin 1..Len(h)
      PROVE  (h \o t)[i].type = "steer"
  <2>1. i - Len(h) \in 1..Len(ids) /\ (h \o t)[i] = t[i - Len(h)]
    BY <1>2, <1>5, <1>6
  <2> QED
    BY <2>1, <1>3
<1> QED
  BY <1>2, <1>4, <1>5, <1>6

(* The cap keeps entries.                                                  *)
LEMMA CappedSeq ==
    ASSUME NEW h \in Seq(Entries)
    PROVE  /\ Capped(h) \in Seq(Entries)
           /\ \A i \in 1..Len(Capped(h)) : Has(h, Capped(h)[i])
<1>1. CASE ~(Len(h) > HistoryCap)
  BY <1>1 DEF Capped, Has
<1>2. CASE Len(h) > HistoryCap
  <2> DEFINE m == Len(h) - HistoryCap + 1
  <2>1. m \in 1..Len(h) /\ Len(h) \in Nat
    BY <1>2, BoundsAssumption
  <2>2. Capped(h) = SubSeq(h, m, Len(h))
    BY <1>2 DEF Capped
  <2> HIDE DEF m
  <2>3. /\ SubSeq(h, m, Len(h)) \in Seq(Entries)
        /\ Len(SubSeq(h, m, Len(h))) = Len(h) - m + 1
        /\ \A i \in 1..(Len(h) - m + 1) : SubSeq(h, m, Len(h))[i] = h[m + i - 1]
    BY <2>1, SubSeqProperties
  <2>4. \A i \in 1..(Len(h) - m + 1) : m + i - 1 \in 1..Len(h)
    BY <2>1
  <2> QED
    BY <2>2, <2>3, <2>4 DEF Has
<1> QED
  BY <1>1, <1>2

(* A part of a history has some of its entries.                            *)
LEMMA PartSeq ==
    ASSUME NEW S, NEW h \in Seq(S), NEW I
    PROVE  /\ At(h, I) \in Seq(S)
           /\ \A i \in 1..Len(At(h, I)) : \E k \in (1..Len(h)) \cap I : At(h, I)[i] = h[k]
           /\ \A k \in (1..Len(h)) \cap I : Has(At(h, I), h[k])
<1>1. PICK f : Places(f, At(h, I), h, I, Len(h))
  BY AtPlaces
<1>2. \A i \in 1..Len(At(h, I)) : \E k \in (1..Len(h)) \cap I : At(h, I)[i] = h[k]
  BY <1>1 DEF Places
<1>3. ASSUME NEW k \in (1..Len(h)) \cap I PROVE Has(At(h, I), h[k])
  <2>1. PICK j \in 1..Len(At(h, I)) : f[j] = k
    BY <1>1 DEF Places
  <2>2. At(h, I)[j] = h[f[j]]
    BY <1>1 DEF Places
  <2> QED
    BY <2>1, <2>2 DEF Has
<1> QED
  BY <1>2, <1>3, AtPlaces

TypeInv == TypeOK /\ TurnCounted

LEMMA TypeStep == TypeInv /\ [Next]_vars => TypeInv'
<1> SUFFICES ASSUME TypeInv, [Next]_vars PROVE TypeInv'
  OBVIOUS
<1> USE BoundsAssumption DEF TypeInv, TypeOK, TurnCounted
<1>0. Len(priority) \in Nat /\ turn \in Nat /\ runs \in 0..MaxRuns
  OBVIOUS
<1>f. ASSUME NEW h \in Seq(Entries), fold_all_steer(h)
      PROVE  /\ history' \in Seq(Entries)
             /\ folded' \in Seq(1..Len(priority)) /\ queue' \in Seq(1..Len(priority))
             /\ seen' \in 0..Len(priority)
             /\ hand' = hand /\ priority' = priority
  <2>1. Folded(h, queue) \in Seq(Entries)
    BY FoldedSeq, <1>0
  <2>2. folded \o queue \in Seq(1..Len(priority)) /\ <<>> \in Seq(1..Len(priority))
    OBVIOUS
  <2> QED
    BY <1>f, <1>0, <2>1, <2>2 DEF fold_all_steer
<1>1. CASE Start
  <2>1. User(runs + 1) \in Entries
    BY <1>1, EntryTypes DEF Start
  <2>2. Append(stored, User(runs + 1)) \in Seq(Entries)
    BY <2>1
  <2>3. history' \in Seq(Entries) /\ stored' \in Seq(Entries)
    BY <1>1, <2>2 DEF Start, save_history_now
  <2>4. /\ pc' = "top" /\ turn' = 0 /\ retries' = 0 /\ nudges' = 0 /\ runs' \in 0..MaxRuns
        /\ cancelled' = FALSE /\ touched' = FALSE /\ completed' = {}
        /\ UNCHANGED <<queue, hand, priority, folded, seen, unchecked>>
    BY <1>1 DEF Start, Leave, steer
  <2>5. completed' \subseteq 1..MaxTurns /\ turn' <= MaxTurns /\ turn' \in 0..(MaxTurns + 1)
    BY <2>4
  <2>6. retries' \in 0..MaxRetries /\ nudges' \in 0..MaxNudges
    BY <2>4
  <2>7. cancelled' \in BOOLEAN /\ touched' \in BOOLEAN
    BY <2>4
  <2> QED
    BY <2>3, <2>4, <2>5, <2>6, <2>7
<1>2. CASE NextTurn
  BY <1>2 DEF NextTurn, Leave, steer, gates
<1>3. CASE HitMaxTurns
  BY <1>3, <1>f DEF HitMaxTurns, Leave, save_history_now, gates
<1>4. CASE drain_steer
  BY <1>4, <1>0 DEF drain_steer, Leave, gates
<1>5. CASE PlaceNext
  <2> DEFINE next == OfPriority(hand, {"Next"})
             later == OfPriority(hand, {"Later"})
  <2>1. next \in Seq(1..Len(priority)) /\ later \in Seq(1..Len(priority))
    BY AtPlaces DEF OfPriority
  <2>2. /\ queue' = later \o queue /\ folded' = folded \o next
        /\ history' = Folded(history, next) /\ hand' = <<>> /\ pc = "place" /\ pc' = "compact"
        /\ UNCHANGED <<gates, turn, retries, cancelled, stored, runs, priority, seen, completed>>
    BY <1>5 DEF PlaceNext, requeue_steer, Leave
  <2> HIDE DEF next, later
  <2>3. /\ later \o queue \in Seq(1..Len(priority)) /\ folded \o next \in Seq(1..Len(priority))
        /\ <<>> \in Seq(1..Len(priority))
        /\ Folded(history, next) \in Seq(Entries)
    BY <1>0, <2>1, FoldedSeq
  <2> QED
    BY <2>2, <2>3 DEF gates
<1>6. CASE PlaceNow
  <2>1. /\ folded \o hand \in Seq(1..Len(priority)) /\ <<>> \in Seq(1..Len(priority))
        /\ Folded(history, hand) \in Seq(Entries)
    BY <1>0, FoldedSeq
  <2> QED
    BY <1>6, <2>1 DEF PlaceNow, save_history_now, Leave, gates
<1>7. CASE NoCompaction
  BY <1>7 DEF NoCompaction, EnterInference, Leave, steer, gates
<1>8. CASE Summarised
  <2>1. history' \in Seq(Entries)
    <3>1. PICK I : history' = <<Note>> \o At(history, I)
      BY <1>8 DEF Summarised
    <3>2. At(history, I) \in Seq(Entries) /\ <<Note>> \in Seq(Entries)
      BY PartSeq, EntryTypes
    <3> QED
      BY <3>1, <3>2
  <2>2. /\ retries' = 0 /\ pc' = "infer" /\ pc = "compact"
        /\ UNCHANGED <<steer, gates, turn, cancelled, stored, runs, completed>>
    BY <1>8 DEF Summarised, EnterInference, Leave
  <2> QED
    BY <2>1, <2>2 DEF steer, gates
<1>9. CASE FitInstead
  <2>1. history' \in Seq(Entries)
    <3>1. PICK I : history' = At(history, I)
      BY <1>9 DEF FitInstead
    <3> QED
      BY <3>1, PartSeq
  <2> QED
    BY <1>9, <2>1 DEF FitInstead, EnterInference, Leave, steer, gates
<1>10. CASE CompactionCancelled
  BY <1>10 DEF CompactionCancelled, Leave, steer, gates
<1>11. CASE StreamTruncated \/ RetryCancelled \/ StreamFailed \/ EndedCancelled
  <2>1. SaveAndReturn(history) /\ UNCHANGED <<gates, turn, retries, cancelled, runs, completed>>
    BY <1>11 DEF StreamTruncated, RetryCancelled, StreamFailed, EndedCancelled
  <2> QED
    BY <2>1, <1>f DEF SaveAndReturn, save_history_now, Leave, gates
<1>12. CASE RetryStream
  BY <1>12 DEF RetryStream, steer, gates
<1>13. ASSUME NEW r \in {"text", "calls", "empty"}, StreamEnded(r) PROVE TypeInv'
  <2>1. Append(history, Assistant(runs, turn)) \in Seq(Entries)
    BY <1>0, EntryTypes
  <2>2. history' \in Seq(Entries) /\ completed' \subseteq 1..MaxTurns
    BY <1>13, <2>1 DEF StreamEnded
  <2> QED
    BY <1>13, <2>2 DEF StreamEnded, Leave, steer, gates
<1>14. CASE Proceed
  BY <1>14 DEF Proceed, Leave, steer, gates
<1>15. CASE CriteriaReminder
  BY <1>15 DEF CriteriaReminder, Leave, steer, gates
<1>16. CASE VerifierReminder
  BY <1>16 DEF VerifierReminder, Leave, steer
<1>17. CASE WrapUp
  BY <1>17, <1>f DEF WrapUp, Leave, gates
<1>18. ASSUME NEW w \in BOOLEAN, NEW c \in 0..MaxCriteria, RunTools(w, c) PROVE TypeInv'
  <2>1. PICK cards \in {<<>>, <<Tools(runs, turn)>>} : ToolsDone(cards) \/ RepeatStopped(cards)
    BY <1>18 DEF RunTools
  <2>2. cards \in Seq(Entries)
    <3>1. Tools(runs, turn) \in Entries
      BY <1>0, EntryTypes
    <3>2. <<>> \in Seq(Entries) /\ <<Tools(runs, turn)>> \in Seq(Entries)
      BY <3>1
    <3> QED
      BY <2>1, <3>2
  <2>3. history \o cards \in Seq(Entries)
    BY <2>2
  <2>4. CASE ToolsDone(cards)
    <3>1. Capped(history \o cards) \in Seq(Entries)
      BY <2>3, CappedSeq
    <3>2. history' \in Seq(Entries) /\ stored' \in Seq(Entries)
      BY <2>4, <3>1 DEF ToolsDone, save_history_now
    <3> QED
      BY <1>18, <2>4, <3>2 DEF RunTools, ToolsDone, Leave, steer
  <2>5. CASE RepeatStopped(cards)
    BY <1>18, <2>3, <2>5, <1>f DEF RunTools, RepeatStopped, save_history_now, Leave
  <2> QED
    BY <2>1, <2>4, <2>5
<1>19. CASE post_loop
  BY <1>19 DEF post_loop, Leave, steer, gates
<1>20. ASSUME NEW p \in Priorities, push_steer(p) PROVE TypeInv'
  <2> DEFINE N == Len(priority)
  <2>1. /\ priority' \in Seq(Priorities) /\ Len(priority') = N + 1 /\ N + 1 <= MaxSteers
        /\ UNCHANGED <<gates, pc, hand, turn, retries, cancelled, history, stored, runs, folded, seen, completed>>
        /\ queue' = Append(queue, N + 1)
    BY <1>20, <1>0 DEF push_steer
  <2>2. 1..N \subseteq 1..(N + 1) /\ N + 1 \in 1..(N + 1)
    BY <1>0
  <2>3. /\ queue \in Seq(1..(N + 1)) /\ hand \in Seq(1..(N + 1)) /\ folded \in Seq(1..(N + 1))
    BY <2>2, SeqMonotonic
  <2>4. Append(queue, N + 1) \in Seq(1..(N + 1)) /\ seen \in 0..(N + 1)
    BY <2>2, <2>3, <1>0
  <2> HIDE DEF N
  <2> QED
    BY <2>1, <2>3, <2>4 DEF gates
<1>21. CASE Cancel
  BY <1>21 DEF Cancel, steer, gates
<1>22. CASE clear_criteria
  BY <1>22 DEF clear_criteria, steer
<1>23. CASE UNCHANGED vars
  BY <1>23 DEF vars
<1> QED
  BY <1>1, <1>2, <1>3, <1>4, <1>5, <1>6, <1>7, <1>8, <1>9, <1>10, <1>11, <1>12, <1>13, <1>14,
     <1>15, <1>16, <1>17, <1>18, <1>19, <1>20, <1>21, <1>22, <1>23 DEF Next, RunStep
-----------------------------------------------------------------------------
(* Steer messages.                                                         *)

LEMMA HasConcat ==
    ASSUME NEW S, NEW s \in Seq(S), NEW t \in Seq(S), NEW x
    PROVE  Has(s \o t, x) <=> Has(s, x) \/ Has(t, x)
<1>1. /\ Len(s \o t) = Len(s) + Len(t) /\ Len(s) \in Nat /\ Len(t) \in Nat
      /\ \A i \in 1..(Len(s) + Len(t)) :
            (s \o t)[i] = IF i <= Len(s) THEN s[i] ELSE t[i - Len(s)]
  BY ConcatProperties
<1>2. ASSUME Has(s \o t, x) PROVE Has(s, x) \/ Has(t, x)
  <2>1. PICK i \in 1..(Len(s) + Len(t)) : (s \o t)[i] = x
    BY <1>1, <1>2 DEF Has
  <2>2. CASE i <= Len(s)
    BY <1>1, <2>1, <2>2 DEF Has
  <2>3. CASE ~(i <= Len(s))
    <3>1. i - Len(s) \in 1..Len(t) /\ t[i - Len(s)] = x
      BY <1>1, <2>1, <2>3
    <3> QED
      BY <3>1 DEF Has
  <2> QED
    BY <2>2, <2>3
<1>3. ASSUME Has(s, x) PROVE Has(s \o t, x)
  BY <1>1, <1>3 DEF Has
<1>4. ASSUME Has(t, x) PROVE Has(s \o t, x)
  <2>1. PICK i \in 1..Len(t) : t[i] = x
    BY <1>4 DEF Has
  <2>2. i + Len(s) \in 1..Len(s \o t) /\ (s \o t)[i + Len(s)] = x
    BY <1>1, <2>1
  <2> QED
    BY <2>2 DEF Has
<1> QED
  BY <1>2, <1>3, <1>4

(* What is where in a line of four parts.                                  *)
LEMMA FourParts ==
    ASSUME NEW S, NEW a \in Seq(S), NEW b \in Seq(S), NEW c \in Seq(S), NEW d \in Seq(S),
           NEW line, line = (a \o b) \o (c \o d)
    PROVE  /\ line \in Seq(S)
           /\ Len(line) = Len(a) + Len(b) + Len(c) + Len(d)
           /\ \A i \in 1..Len(a) : line[i] = a[i]
           /\ \A i \in 1..Len(b) : line[Len(a) + i] = b[i]
           /\ \A i \in 1..Len(c) : line[Len(a) + Len(b) + i] = c[i]
           /\ \A i \in 1..Len(d) : line[Len(a) + Len(b) + Len(c) + i] = d[i]
<1> DEFINE ab == a \o b
           cd == c \o d
           all == ab \o cd
<1>0. Len(a) \in Nat /\ Len(b) \in Nat /\ Len(c) \in Nat /\ Len(d) \in Nat
  OBVIOUS
<1>1. /\ ab \in Seq(S) /\ Len(ab) = Len(a) + Len(b)
      /\ \A i \in 1..(Len(a) + Len(b)) : ab[i] = IF i <= Len(a) THEN a[i] ELSE b[i - Len(a)]
  BY ConcatProperties
<1>2. /\ cd \in Seq(S) /\ Len(cd) = Len(c) + Len(d)
      /\ \A i \in 1..(Len(c) + Len(d)) : cd[i] = IF i <= Len(c) THEN c[i] ELSE d[i - Len(c)]
  BY ConcatProperties
<1> HIDE DEF ab, cd
<1>3. /\ all \in Seq(S) /\ Len(all) = Len(ab) + Len(cd)
      /\ \A i \in 1..(Len(ab) + Len(cd)) : all[i] = IF i <= Len(ab) THEN ab[i] ELSE cd[i - Len(ab)]
  <2>1. ab \in Seq(S) /\ cd \in Seq(S)
    BY <1>1, <1>2
  <2> QED
    BY <2>1, ConcatProperties
<1> HIDE DEF all
<1>4. Len(all) = Len(a) + Len(b) + Len(c) + Len(d)
  BY <1>0, <1>1, <1>2, <1>3
<1>ab. ASSUME NEW k \in 1..(Len(a) + Len(b)) PROVE all[k] = ab[k]
  <2>1. k \in 1..(Len(ab) + Len(cd)) /\ k <= Len(ab)
    BY <1>0, <1>1, <1>2
  <2> QED
    BY <2>1, <1>3
<1>5. ASSUME NEW i \in 1..Len(a) PROVE all[i] = a[i]
  <2>1. i \in 1..(Len(a) + Len(b)) /\ i <= Len(a)
    BY <1>0
  <2>2. all[i] = ab[i]
    BY <2>1, <1>ab
  <2>3. ab[i] = a[i]
    BY <2>1, <1>1
  <2> QED
    BY <2>2, <2>3
<1>6. ASSUME NEW i \in 1..Len(b) PROVE all[Len(a) + i] = b[i]
  <2> DEFINE k == Len(a) + i
  <2>1. k \in 1..(Len(a) + Len(b)) /\ ~(k <= Len(a)) /\ k - Len(a) = i
    BY <1>0
  <2> HIDE DEF k
  <2>2. all[k] = ab[k]
    BY <2>1, <1>ab
  <2>3. ab[k] = b[k - Len(a)]
    BY <2>1, <1>1
  <2> QED
    BY <2>1, <2>2, <2>3 DEF k
<1>c. ASSUME NEW i \in 1..Len(cd) PROVE all[Len(ab) + i] = cd[i]
  <2>1. Len(ab) \in Nat /\ Len(cd) \in Nat
    BY <1>1, <1>2
  <2>2. /\ Len(ab) + i \in 1..(Len(ab) + Len(cd)) /\ ~(Len(ab) + i <= Len(ab))
        /\ (Len(ab) + i) - Len(ab) = i
    BY <2>1
  <2> QED
    BY <2>2, <1>3
<1>7. ASSUME NEW i \in 1..Len(c) PROVE all[Len(a) + Len(b) + i] = c[i]
  <2>1. i \in 1..Len(cd) /\ cd[i] = c[i] /\ Len(a) + Len(b) + i = Len(ab) + i
    BY <1>0, <1>1, <1>2
  <2> QED
    BY <2>1, <1>c
<1>8. ASSUME NEW i \in 1..Len(d) PROVE all[Len(a) + Len(b) + Len(c) + i] = d[i]
  <2>1. /\ Len(c) + i \in 1..Len(cd) /\ cd[Len(c) + i] = d[i]
        /\ Len(a) + Len(b) + Len(c) + i = Len(ab) + (Len(c) + i)
    <3>1. /\ Len(c) + i \in 1..(Len(c) + Len(d)) /\ ~(Len(c) + i <= Len(c))
          /\ (Len(c) + i) - Len(c) = i
      BY <1>0
    <3>2. cd[Len(c) + i] = d[i]
      BY <3>1, <1>2
    <3>3. Len(a) + Len(b) + Len(c) + i = Len(ab) + (Len(c) + i)
      BY <1>0, <1>1
    <3> QED
      BY <3>1, <3>2, <3>3, <1>2
  <2> QED
    BY <2>1, <1>c
<1> QED
  BY <1>3, <1>4, <1>5, <1>6, <1>7, <1>8 DEF all, ab, cd
(* A checkpoint that folds the part I of its hand h and gives the rest J   *)
(* back moves messages of the line only past messages of the other part.   *)
MovedApart(old, new, h, I, J) ==
    /\ Len(new) = Len(old)
    /\ \E g \in [1..Len(new) -> 1..Len(old)] :
          /\ \A i \in 1..Len(new) : new[i] = old[g[i]]
          /\ \A k \in 1..Len(old) : \E i \in 1..Len(new) : g[i] = k
          /\ \A i, j \in 1..Len(new) : i < j =>
                \/ g[i] < g[j]
                \/ \E x \in (1..Len(h)) \cap I, y \in (1..Len(h)) \cap J :
                      new[i] = h[x] /\ new[j] = h[y]

LEMMA SplitHand ==
    ASSUME NEW S, NEW a \in Seq(S), NEW h \in Seq(S), NEW q \in Seq(S), NEW I, NEW J,
           \A n \in 1..Len(h) : n \in I <=> n \notin J
    PROVE  MovedApart((a \o h) \o (<<>> \o q), (a \o At(h, I)) \o (At(h, J) \o q), h, I, J)
<1> DEFINE u == At(h, I)
           v == At(h, J)
           e == <<>>
           old == (a \o h) \o (e \o q)
           new == (a \o u) \o (v \o q)
<1>1. u \in Seq(S) /\ v \in Seq(S) /\ Len(u) + Len(v) = Len(h)
  BY AtPlaces, AtLengths
<1>u. u \in Seq(S) /\ v \in Seq(S)
  BY <1>1
<1>2. PICK f : Places(f, u, h, I, Len(h))
  BY AtPlaces
<1>3. PICK w : Places(w, v, h, J, Len(h))
  BY AtPlaces
<1>e. e \in Seq(S) /\ Len(e) = 0
  OBVIOUS
<1>n. new = (a \o u) \o (v \o q) /\ old = (a \o h) \o (e \o q)
  OBVIOUS
<1> HIDE DEF u, v, e, new, old
<1>4. /\ Len(new) = Len(a) + Len(u) + Len(v) + Len(q)
      /\ \A i \in 1..Len(a) : new[i] = a[i]
      /\ \A i \in 1..Len(u) : new[Len(a) + i] = u[i]
      /\ \A i \in 1..Len(v) : new[Len(a) + Len(u) + i] = v[i]
      /\ \A i \in 1..Len(q) : new[Len(a) + Len(u) + Len(v) + i] = q[i]
  BY SMTT(60), <1>u, <1>n, FourParts
<1>5. /\ Len(old) = Len(a) + Len(h) + Len(e) + Len(q)
      /\ \A i \in 1..Len(a) : old[i] = a[i]
      /\ \A i \in 1..Len(h) : old[Len(a) + i] = h[i]
      /\ \A i \in 1..Len(q) : old[Len(a) + Len(h) + Len(e) + i] = q[i]
  BY <1>e, <1>n, FourParts
<1>6. PICK la \in Nat, lh \in Nat, lq \in Nat, lu \in Nat, lv \in Nat :
         /\ la = Len(a) /\ lh = Len(h) /\ lq = Len(q) /\ lu = Len(u) /\ lv = Len(v)
         /\ lu + lv = lh
  BY <1>1
<1> DEFINE g == [i \in 1..(la + lh + lq) |->
                   IF i <= la \/ i > la + lh THEN i
                   ELSE IF i <= la + lu THEN la + f[i - la]
                   ELSE la + w[i - la - lu]]
<1>7. Len(new) = la + lh + lq /\ Len(old) = la + lh + lq
  <2>1. Len(new) = la + lu + lv + lq
    BY <1>4, <1>6
  <2>2. Len(old) = la + lh + 0 + lq
    BY <1>5, <1>6, <1>e
  <2>3. la + lu + lv + lq = la + lh + lq /\ la + lh + 0 + lq = la + lh + lq
    BY SMTT(60), <1>6
  <2> QED
    BY <2>1, <2>2, <2>3
<1>8. /\ \A i \in 1..lu : f[i] \in 1..lh /\ f[i] \in I /\ u[i] = h[f[i]]
      /\ \A i \in 1..lv : w[i] \in 1..lh /\ w[i] \in J /\ v[i] = h[w[i]]
      /\ \A i, j \in 1..lu : i < j => f[i] < f[j]
      /\ \A i, j \in 1..lv : i < j => w[i] < w[j]
      /\ \A k \in (1..lh) \cap I : \E j \in 1..lu : f[j] = k
      /\ \A k \in (1..lh) \cap J : \E j \in 1..lv : w[j] = k
  BY <1>2, <1>3, <1>6 DEF Places
(* The four parts of the new line.                                         *)
<1>p1. ASSUME NEW i \in 1..la PROVE g[i] = i /\ new[i] = old[i]
  BY <1>4, <1>5, <1>6
<1>p2. ASSUME NEW i \in 1..lu
       PROVE  /\ g[la + i] = la + f[i] /\ new[la + i] = h[f[i]]
              /\ old[la + f[i]] = h[f[i]]
  <2>1. /\ la + i \in 1..(la + lh + lq) /\ ~(la + i <= la \/ la + i > la + lh)
        /\ la + i <= la + lu /\ (la + i) - la = i
    BY <1>6
  <2>2. g[la + i] = la + f[i]
    BY <2>1
  <2> QED
    BY <2>2, <1>4, <1>5, <1>6, <1>8
<1>p3. ASSUME NEW i \in 1..lv
       PROVE  /\ g[la + lu + i] = la + w[i] /\ new[la + lu + i] = h[w[i]]
              /\ old[la + w[i]] = h[w[i]]
  <2>1. /\ la + lu + i \in 1..(la + lh + lq) /\ ~(la + lu + i <= la \/ la + lu + i > la + lh)
        /\ ~(la + lu + i <= la + lu) /\ (la + lu + i) - la - lu = i
    BY <1>6
  <2>2. g[la + lu + i] = la + w[i]
    BY <2>1
  <2> QED
    BY ZenonT(60), <2>2, <1>4, <1>5, <1>6, <1>8
<1>p4. ASSUME NEW i \in 1..lq
       PROVE  g[la + lh + i] = la + lh + i /\ new[la + lh + i] = old[la + lh + i]
  <2>1. la + lh + i \in 1..(la + lh + lq) /\ la + lh + i > la + lh
    BY <1>6
  <2>2. g[la + lh + i] = la + lh + i
    BY <2>1
  <2>3. la + lu + lv + i = la + lh + i
    BY SMTT(60), <1>6
  <2>4. new[la + lu + lv + i] = q[i]
    BY <1>4, <1>6
  <2>5. old[la + lh + Len(e) + i] = q[i]
    BY <1>5, <1>6
  <2>6. la + lh + Len(e) + i = la + lh + i
    BY <1>6, <1>e
  <2> QED
    BY <2>2, <2>3, <2>4, <2>5, <2>6
<1> HIDE DEF g
<1>9. ASSUME NEW i \in 1..(la + lh + lq)
      PROVE  \/ i \in 1..la
             \/ \E k \in 1..lu : i = la + k
             \/ \E k \in 1..lv : i = la + lu + k
             \/ \E k \in 1..lq : i = la + lh + k
  <2>1. CASE i <= la
    BY <2>1
  <2>2. CASE i > la /\ i <= la + lu
    <3>1. i - la \in 1..lu /\ i = la + (i - la)
      BY <2>2
    <3> QED BY <3>1
  <2>3. CASE i > la + lu /\ i <= la + lh
    <3>1. i - la - lu \in 1..lv /\ i = la + lu + (i - la - lu)
      BY <2>3, <1>6
    <3> QED BY <3>1
  <2>4. CASE i > la + lh
    <3>1. i - la - lh \in 1..lq /\ i = la + lh + (i - la - lh)
      BY <2>4
    <3> QED BY <3>1
  <2> QED
    BY <2>1, <2>2, <2>3, <2>4
<1> DEFINE N == la + lh + lq
<1>10. ASSUME NEW i \in 1..N
       PROVE  g[i] \in 1..N /\ new[i] = old[g[i]]
  <2>1. CASE i \in 1..la
    BY <2>1, <1>p1
  <2>2. ASSUME NEW k \in 1..lu, i = la + k PROVE g[i] \in 1..N /\ new[i] = old[g[i]]
    <3>1. f[k] \in 1..lh
      BY <1>8
    <3>2. la + f[k] \in 1..N
      BY <3>1
    <3> QED
      BY <2>2, <1>p2, <3>2
  <2>3. ASSUME NEW k \in 1..lv, i = la + lu + k PROVE g[i] \in 1..N /\ new[i] = old[g[i]]
    <3>1. w[k] \in 1..lh
      BY <1>8
    <3>2. la + w[k] \in 1..N
      BY <3>1
    <3> QED
      BY <2>3, <1>p3, <3>2
  <2>4. ASSUME NEW k \in 1..lq, i = la + lh + k PROVE g[i] \in 1..N /\ new[i] = old[g[i]]
    BY <2>4, <1>p4
  <2> QED
    BY <2>1, <2>2, <2>3, <2>4, <1>9
<1>11. g \in [1..N -> 1..N]
  <2>1. g = [i \in 1..N |-> g[i]]
    BY DEF g
  <2> QED
    BY <2>1, <1>10
<1>12. ASSUME NEW k \in 1..N
       PROVE  \E i \in 1..N : g[i] = k
  <2>1. CASE k <= la
    <3>1. k \in 1..la
      BY <2>1
    <3> QED
      BY <3>1, <1>p1
  <2>2. CASE k > la /\ k <= la + lh /\ k - la \in I
    <3>1. k - la \in (1..lh) \cap I
      BY <2>2
    <3>2. PICK j \in 1..lu : f[j] = k - la
      BY <3>1, <1>8
    <3>3. g[la + j] = la + (k - la)
      BY <3>2, <1>p2
    <3>4. la + j \in 1..N /\ la + (k - la) = k
      BY <1>6
    <3> QED
      BY <3>3, <3>4
  <2>3. CASE k > la /\ k <= la + lh /\ k - la \notin I
    <3>1. k - la \in (1..lh) \cap J
      <4>1. k - la \in 1..lh
        BY <2>3
      <4> QED
        BY <4>1, <2>3, <1>6
    <3>2. PICK j \in 1..lv : w[j] = k - la
      BY <3>1, <1>8
    <3>3. g[la + lu + j] = la + (k - la)
      BY <3>2, <1>p3
    <3>4. la + lu + j \in 1..N /\ la + (k - la) = k
      BY <1>6
    <3> QED
      BY <3>3, <3>4
  <2>4. CASE k > la + lh
    <3>1. k - la - lh \in 1..lq /\ la + lh + (k - la - lh) = k
      BY <2>4
    <3> QED
      BY <3>1, <1>p4
  <2> QED
    BY <2>1, <2>2, <2>3, <2>4
<1>13. ASSUME NEW i \in 1..N, NEW j \in 1..N, i < j
       PROVE  \/ g[i] < g[j]
              \/ \E x \in (1..lh) \cap I, y \in (1..lh) \cap J : new[i] = h[x] /\ new[j] = h[y]
  <2>1. CASE i \in 1..la
    <3>1. g[i] = i
      BY <2>1, <1>p1
    <3>2. CASE j \in 1..la
      BY <3>1, <3>2, <1>p1, <1>13
    <3>3. ASSUME NEW k \in 1..lu, j = la + k PROVE g[i] < g[j]
      <4>1. g[j] = la + f[k] /\ f[k] \in 1..lh
        BY <3>3, <1>p2, <1>8
      <4> QED
        BY <4>1, <3>1, <2>1
    <3>4. ASSUME NEW k \in 1..lv, j = la + lu + k PROVE g[i] < g[j]
      <4>1. g[j] = la + w[k] /\ w[k] \in 1..lh
        BY <3>4, <1>p3, <1>8
      <4> QED
        BY <4>1, <3>1, <2>1
    <3>5. ASSUME NEW k \in 1..lq, j = la + lh + k PROVE g[i] < g[j]
      BY <3>5, <3>1, <1>p4, <1>13
    <3> QED
      BY <3>2, <3>3, <3>4, <3>5, <1>9
  <2>2. ASSUME NEW k \in 1..lu, i = la + k
        PROVE  \/ g[i] < g[j]
               \/ \E x \in (1..lh) \cap I, y \in (1..lh) \cap J : new[i] = h[x] /\ new[j] = h[y]
    <3>1. g[i] = la + f[k] /\ f[k] \in 1..lh /\ f[k] \in I /\ new[i] = h[f[k]]
      BY <2>2, <1>p2, <1>8
    <3>2. CASE j \in 1..la
      BY <2>2, <3>2, <1>13
    <3>3. ASSUME NEW m \in 1..lu, j = la + m PROVE g[i] < g[j]
      <4>1. k < m
        BY <2>2, <3>3, <1>13
      <4>2. g[j] = la + f[m] /\ f[k] < f[m] /\ f[m] \in 1..lh
        BY <3>3, <4>1, <1>p2, <1>8
      <4> QED
        BY SMTT(60), <4>2, <3>1
    <3>4. ASSUME NEW m \in 1..lv, j = la + lu + m
          PROVE  \E x \in (1..lh) \cap I, y \in (1..lh) \cap J : new[i] = h[x] /\ new[j] = h[y]
      <4>1. new[j] = h[w[m]] /\ w[m] \in (1..lh) \cap J
        BY <3>4, <1>p3, <1>8
      <4> QED
        BY <4>1, <3>1
    <3>5. ASSUME NEW m \in 1..lq, j = la + lh + m PROVE g[i] < g[j]
      <4>1. g[j] = la + lh + m
        BY <3>5, <1>p4
      <4> QED
        BY SMTT(60), <3>1, <4>1
    <3> QED
      BY <3>2, <3>3, <3>4, <3>5, <1>9
  <2>3. ASSUME NEW k \in 1..lv, i = la + lu + k PROVE g[i] < g[j]
    <3>1. g[i] = la + w[k] /\ w[k] \in 1..lh
      BY <2>3, <1>p3, <1>8
    <3>2. CASE j \in 1..la
      BY <2>3, <3>2, <1>13
    <3>3. ASSUME NEW m \in 1..lu, j = la + m PROVE FALSE
      BY <2>3, <3>3, <1>13
    <3>4. ASSUME NEW m \in 1..lv, j = la + lu + m PROVE g[i] < g[j]
      <4>1. k < m
        BY <2>3, <3>4, <1>13
      <4>2. g[j] = la + w[m] /\ w[k] < w[m] /\ w[m] \in 1..lh
        BY <3>4, <4>1, <1>p3, <1>8
      <4> QED
        BY <4>2, <3>1
    <3>5. ASSUME NEW m \in 1..lq, j = la + lh + m PROVE g[i] < g[j]
      <4>1. g[j] = la + lh + m
        BY <3>5, <1>p4
      <4> QED
        BY <3>1, <4>1
    <3> QED
      BY <3>2, <3>3, <3>4, <3>5, <1>9
  <2>4. ASSUME NEW k \in 1..lq, i = la + lh + k PROVE g[i] < g[j]
    <3>1. j - la - lh \in 1..lq /\ la + lh + (j - la - lh) = j
      BY <2>4, <1>13
    <3>2. g[j] = j /\ g[i] = i
      BY <3>1, <2>4, <1>p4
    <3> QED
      BY <3>2, <1>13
  <2> QED
    BY <2>1, <2>2, <2>3, <2>4, <1>9
<1>14. MovedApart(old, new, h, I, J)
  <2> HIDE DEF N
  <2>1. Len(new) = N /\ Len(old) = N /\ lh = Len(h)
    BY <1>6, <1>7 DEF N
  <2>2. /\ \A i \in 1..N : new[i] = old[g[i]]
        /\ \A k \in 1..N : \E i \in 1..N : g[i] = k
        /\ \A i, j \in 1..N : i < j =>
                   \/ g[i] < g[j]
                   \/ \E x \in (1..Len(h)) \cap I, y \in (1..Len(h)) \cap J :
                         new[i] = h[x] /\ new[j] = h[y]
    BY <1>10, <1>12, <1>13, <1>6
  <2>3. g \in [1..Len(new) -> 1..Len(old)]
    BY <2>1, <1>11
  <2>4. \A i \in 1..Len(new) : new[i] = old[g[i]]
    <3> SUFFICES ASSUME NEW i \in 1..Len(new) PROVE new[i] = old[g[i]]
      OBVIOUS
    <3> QED
      BY <2>1, <2>2
  <2>5. \A k \in 1..Len(old) : \E i \in 1..Len(new) : g[i] = k
    <3> SUFFICES ASSUME NEW k \in 1..Len(old) PROVE \E i \in 1..Len(new) : g[i] = k
      OBVIOUS
    <3> QED
      BY <2>1, <2>2
  <2>6. \A i, j \in 1..Len(new) : i < j =>
                   \/ g[i] < g[j]
                   \/ \E x \in (1..Len(h)) \cap I, y \in (1..Len(h)) \cap J :
                         new[i] = h[x] /\ new[j] = h[y]
    <3> SUFFICES ASSUME NEW i \in 1..Len(new), NEW j \in 1..Len(new), i < j
                 PROVE  \/ g[i] < g[j]
                        \/ \E x \in (1..Len(h)) \cap I, y \in (1..Len(h)) \cap J :
                              new[i] = h[x] /\ new[j] = h[y]
      OBVIOUS
    <3>1. i \in 1..N /\ j \in 1..N
      BY <2>1
    <3> QED
      BY <3>1, <2>2, ZenonT(60)
  <2> QED
    BY <2>1, <2>3, <2>4, <2>5, <2>6, Zenon DEF MovedApart
<1> QED
  BY <1>14 DEF new, old, u, v, e

LEMMA LineType ==
    ASSUME TypeOK
    PROVE  /\ Len(priority) \in Nat /\ Line \in Seq(1..Len(priority))
           /\ \A i \in 1..Len(Line) : Line[i] \in 1..Len(priority) /\ priority[Line[i]] \in Priorities
<1> DEFINE N == Len(priority)
<1>1. /\ N \in Nat /\ folded \in Seq(1..N) /\ hand \in Seq(1..N) /\ queue \in Seq(1..N)
      /\ \A n \in 1..N : priority[n] \in Priorities
  BY DEF TypeOK
<1> HIDE DEF N
<1>2. Line \in Seq(1..N)
  BY <1>1 DEF Line
<1>3. \A i \in 1..Len(Line) : Line[i] \in 1..N
  BY <1>2, ElementOfSeq
<1> QED
  BY <1>1, <1>2, <1>3 DEF N

(* A step that leaves the line as it is keeps it complete and in order.    *)
LEMMA LineKept ==
    ASSUME SteerConserved, SteerInOrder, Line' = Line, priority' = priority
    PROVE  SteerConserved' /\ SteerInOrder'
BY DEF SteerConserved, SteerInOrder

LEMMA FoldAllKeepsLine ==
    ASSUME TypeOK, SteerInv, hand = <<>>, NEW h, fold_all_steer(h)
    PROVE  SteerConserved' /\ SteerInOrder' /\ hand' = <<>>
<1>1. /\ folded \in Seq(1..Len(priority)) /\ queue \in Seq(1..Len(priority))
      /\ folded \o queue \in Seq(1..Len(priority))
  BY DEF TypeOK
<1>2. folded' = folded \o queue /\ hand' = <<>> /\ queue' = <<>> /\ priority' = priority
  BY DEF fold_all_steer
<1>3. Line = folded \o queue
  BY <1>1, ConcatEmptySeq DEF Line
<1>4. Line' = folded \o queue
  BY <1>1, <1>2, ConcatEmptySeq DEF Line
<1> QED
  BY <1>2, <1>3, <1>4, LineKept DEF SteerInv

LEMMA PushKeepsLine ==
    ASSUME TypeOK, SteerInv, NEW p \in Priorities, push_steer(p)
    PROVE  SteerConserved' /\ SteerInOrder'
<1> DEFINE N == Len(priority)
<1>1. /\ N \in Nat /\ folded \in Seq(Nat) /\ hand \in Seq(Nat) /\ queue \in Seq(Nat)
      /\ priority \in Seq(Priorities)
  BY SeqMonotonic DEF TypeOK
<1>2. /\ priority' = Append(priority, p) /\ queue' = Append(queue, N + 1)
      /\ folded' = folded /\ hand' = hand
  BY DEF push_steer
<1>3. Line' = Append(Line, N + 1)
  <2>1. N + 1 \in Nat /\ <<N + 1>> \in Seq(Nat) /\ folded \o hand \in Seq(Nat)
    BY <1>1
  <2>2. queue' = queue \o <<N + 1>>
    BY <1>1, <1>2, <2>1, AppendIsConcat
  <2>3. Line' = (folded \o hand) \o (queue \o <<N + 1>>)
    BY <1>2, <2>2 DEF Line
  <2>4. Line' = ((folded \o hand) \o queue) \o <<N + 1>>
    BY <1>1, <2>1, <2>3, ConcatAssociative, SMTT(40)
  <2> QED
    BY <1>1, <2>1, <2>4, AppendIsConcat, SMTT(40) DEF Line
<1>4. /\ Line \in Seq(1..N) /\ Len(Line) = N
      /\ \A id \in 1..N : \E i \in 1..N : Line[i] = id
      /\ \A i, j \in 1..N : i < j /\ priority[Line[i]] = priority[Line[j]] => Line[i] < Line[j]
  BY LineType DEF SteerInv, SteerConserved, SteerInOrder
<1>5. /\ Len(priority') = N + 1 /\ priority'[N + 1] = p
      /\ \A i \in 1..N : priority'[i] = priority[i]
  BY <1>1, <1>2
<1>6. \A i \in 1..N : Line[i] \in 1..N
  BY <1>4, LineType
<1>7. /\ Len(Line') = N + 1 /\ Line'[N + 1] = N + 1
      /\ \A i \in 1..N : Line'[i] = Line[i]
  BY <1>1, <1>3, <1>4
<1> HIDE DEF N
<1>8. SteerConserved'
  <2> SUFFICES ASSUME NEW id \in 1..(N + 1) PROVE \E i \in 1..(N + 1) : Line'[i] = id
    BY <1>5, <1>7 DEF SteerConserved
  <2>1. CASE id = N + 1
    BY <2>1, <1>1, <1>7
  <2>2. CASE id \in 1..N
    BY <2>2, <1>1, <1>4, <1>7
  <2> QED
    BY <2>1, <2>2, <1>1
<1>9. SteerInOrder'
  <2> SUFFICES ASSUME NEW i \in 1..(N + 1), NEW j \in 1..(N + 1), i < j,
                      priority'[Line'[i]] = priority'[Line'[j]]
               PROVE  Line'[i] < Line'[j]
    BY <1>7 DEF SteerInOrder
  <2>1. i \in 1..N
    BY <1>1
  <2>2. CASE j = N + 1
    <3>1. Line'[i] \in 1..N /\ Line'[j] = N + 1
      BY <2>1, <2>2, <1>6, <1>7
    <3> QED
      BY <3>1, <1>1
  <2>3. CASE j \in 1..N
    <3>1. Line'[i] = Line[i] /\ Line'[j] = Line[j]
      BY <2>1, <2>3, <1>7
    <3>2. priority[Line[i]] = priority[Line[j]]
      BY <2>1, <2>3, <3>1, <1>5, <1>6
    <3> QED
      BY <2>1, <2>3, <3>1, <3>2, <1>4
  <2> QED
    BY <2>2, <2>3, <1>1
<1> QED
  BY <1>8, <1>9

(* At a checkpoint without a Now message, the hand is Next and Later.      *)
LEMMA HandSplit ==
    ASSUME TypeOK, OfPriority(hand, {"Now"}) = <<>>
    PROVE  \A i \in 1..Len(hand) :
              /\ priority[hand[i]] \in {"Next", "Later"}
              /\ hand[i] \in 1..Len(priority)
<1> SUFFICES ASSUME NEW i \in 1..Len(hand), priority[hand[i]] = "Now" PROVE FALSE
  BY SMTT(60) DEF TypeOK, Priorities
<1> DEFINE I == {k \in 1..Len(hand) : priority[hand[k]] \in {"Now"}}
<1>1. i \in (1..Len(hand)) \cap I
  OBVIOUS
<1>2. Has(At(hand, I), hand[i])
  <2> HIDE DEF I
  <2> QED
    BY <1>1, PartSeq DEF TypeOK
<1>3. At(hand, I) = <<>>
  BY DEF OfPriority
<1> QED
  BY <1>2, <1>3 DEF Has

LEMMA PlaceNextKeepsLine ==
    ASSUME TypeOK, SteerInv, PlaceNext
    PROVE  SteerConserved' /\ SteerInOrder'
<1> DEFINE N == Len(priority)
           I == {k \in 1..Len(hand) : priority[hand[k]] \in {"Next"}}
           J == {k \in 1..Len(hand) : priority[hand[k]] \in {"Later"}}
           e == <<>>
           old == (folded \o hand) \o (e \o queue)
           new == (folded \o At(hand, I)) \o (At(hand, J) \o queue)
<1>1. /\ N \in Nat /\ folded \in Seq(1..N) /\ hand \in Seq(1..N) /\ queue \in Seq(1..N)
      /\ priority \in Seq(Priorities)
  BY DEF TypeOK
<1>2. /\ folded' = folded \o At(hand, I) /\ queue' = At(hand, J) \o queue
      /\ hand' = <<>> /\ priority' = priority /\ OfPriority(hand, {"Now"}) = <<>>
  BY DEF PlaceNext, requeue_steer, OfPriority
<1>3. \A n \in 1..Len(hand) : n \in I <=> n \notin J
  BY <1>2, HandSplit
<1>4. Line = old
  BY <1>1, ConcatEmptySeq DEF Line
<1>5. Line' = new
  <2>1. folded \o At(hand, I) \in Seq(1..N)
    BY <1>1, AtPlaces
  <2> QED
    BY <1>2, <2>1, ConcatEmptySeq DEF Line
<1>6. /\ \A x \in (1..Len(hand)) \cap I : hand[x] \in 1..N /\ priority[hand[x]] = "Next"
      /\ \A y \in (1..Len(hand)) \cap J : hand[y] \in 1..N /\ priority[hand[y]] = "Later"
  BY SMTT(60), <1>1
<1>7. MovedApart(old, new, hand, I, J)
  <2> HIDE DEF I, J
  <2> QED
    BY <1>1, <1>3, SplitHand
<1> HIDE DEF I, J, old, new
<1>8. PICK g \in [1..Len(new) -> 1..Len(old)] :
            /\ \A i \in 1..Len(new) : new[i] = old[g[i]]
            /\ \A k \in 1..Len(old) : \E i \in 1..Len(new) : g[i] = k
            /\ \A i, j \in 1..Len(new) : i < j =>
                  \/ g[i] < g[j]
                  \/ \E x \in (1..Len(hand)) \cap I, y \in (1..Len(hand)) \cap J :
                        new[i] = hand[x] /\ new[j] = hand[y]
  BY <1>7 DEF MovedApart
<1>9. /\ Len(old) = N /\ Len(new) = N
      /\ \A id \in 1..N : \E k \in 1..N : old[k] = id
      /\ \A i, j \in 1..N : i < j /\ priority[old[i]] = priority[old[j]] => old[i] < old[j]
  BY <1>4, <1>7 DEF MovedApart, SteerInv, SteerConserved, SteerInOrder
<1> HIDE DEF N
<1>10. SteerConserved'
  <2> SUFFICES ASSUME NEW id \in 1..N PROVE \E i \in 1..N : new[i] = id
    BY <1>2, <1>5, <1>9 DEF SteerConserved, N
  <2>1. PICK k \in 1..N : old[k] = id
    BY <1>9
  <2>2. PICK i \in 1..N : g[i] = k
    BY <1>8, <1>9
  <2>3. new[i] = id
    BY <1>8, <1>9, <2>1, <2>2
  <2> QED
    BY <2>3
<1>11. SteerInOrder'
  <2> SUFFICES ASSUME NEW i \in 1..N, NEW j \in 1..N, i < j, priority[new[i]] = priority[new[j]]
               PROVE  new[i] < new[j]
    BY <1>2, <1>5, <1>9 DEF SteerInOrder
  <2>1. CASE g[i] < g[j]
    <3>1. /\ g[i] \in 1..N /\ g[j] \in 1..N
          /\ new[i] = old[g[i]] /\ new[j] = old[g[j]]
      BY <1>8, <1>9
    <3> QED
      BY <2>1, <3>1, <1>9
  <2>2. ASSUME NEW x \in (1..Len(hand)) \cap I, NEW y \in (1..Len(hand)) \cap J,
               new[i] = hand[x], new[j] = hand[y]
        PROVE  FALSE
    BY <2>2, <1>6
  <2> QED
    BY SMTT(60), <2>1, <2>2, <1>8, <1>9
<1> QED
  BY <1>10, <1>11

(* Every message is in one of the three parts of the line.                 *)
LEMMA Somewhere ==
    ASSUME TypeOK, SteerConserved, NEW id \in 1..Len(priority)
    PROVE  Has(folded, id) \/ Has(hand, id) \/ Has(queue, id)
<1>1. Has(Line, id)
  BY DEF SteerConserved, Has
<1>2. /\ folded \in Seq(1..Len(priority)) /\ hand \in Seq(1..Len(priority))
      /\ queue \in Seq(1..Len(priority)) /\ folded \o hand \in Seq(1..Len(priority))
  BY DEF TypeOK
<1>3. Has((folded \o hand) \o queue, id)
  BY <1>1 DEF Line
<1>4. Has(folded \o hand, id) \/ Has(queue, id)
  <2> DEFINE s == folded \o hand
  <2>1. s \in Seq(1..Len(priority)) /\ Has(s \o queue, id)
    BY <1>2, <1>3
  <2> HIDE DEF s
  <2>2. Has(s, id) \/ Has(queue, id)
    BY <1>2, <2>1, HasConcat
  <2> QED
    BY <2>2 DEF s
<1>5. Has(folded \o hand, id) => Has(folded, id) \/ Has(hand, id)
  BY <1>2, HasConcat
<1> QED
  BY <1>4, <1>5

LEMMA SteerStep == TypeOK /\ SteerInv /\ [Next]_vars => SteerInv'
<1> SUFFICES ASSUME TypeOK, SteerInv, [Next]_vars PROVE SteerInv'
  OBVIOUS
<1>k. ASSUME UNCHANGED steer PROVE SteerConserved' /\ SteerInOrder'
  BY <1>k, LineKept DEF steer, SteerInv, Line
<1>f. ASSUME NEW h, fold_all_steer(h), pc # "place", pc' \in {"broke", "returned", "top"}
      PROVE  SteerInv'
  <2>1. hand = <<>>
    BY <1>f DEF SteerInv, HandPlaced
  <2> QED
    BY <1>f, <2>1, FoldAllKeepsLine DEF SteerInv, HandPlaced, Drained, Placed
<1>u. ASSUME UNCHANGED steer, pc # "place", pc' \notin {"place", "compact", "infer"}
      PROVE  SteerInv'
  BY <1>u, <1>k DEF SteerInv, HandPlaced, Drained, Placed, steer
<1>1. CASE Start
  BY <1>1, <1>u DEF Start, Leave
<1>2. CASE NextTurn
  BY <1>2, <1>u DEF NextTurn, Leave
<1>3. CASE HitMaxTurns
  BY <1>3, <1>f DEF HitMaxTurns, Leave
<1>4. CASE drain_steer
  <2>1. /\ pc = "checkpoint" /\ hand = <<>> /\ hand' = queue /\ queue' = <<>>
        /\ folded' = folded /\ priority' = priority /\ seen' = Len(priority)
        /\ pc' = IF queue = <<>> THEN "compact" ELSE "place"
    BY <1>4 DEF drain_steer, Leave, SteerInv, HandPlaced
  <2>2. SteerConserved' /\ SteerInOrder'
    <3>1. /\ folded \in Seq(1..Len(priority)) /\ queue \in Seq(1..Len(priority))
          /\ folded \o queue \in Seq(1..Len(priority))
      BY DEF TypeOK
    <3>2. Line = folded \o queue /\ Line' = folded \o queue
      BY <2>1, <3>1, ConcatEmptySeq DEF Line
    <3> QED
      BY <2>1, <3>2, LineKept DEF SteerInv
  <2>3. \A id \in 1..seen' : Has(folded', id) \/ Has(hand', id)
    <3> SUFFICES ASSUME NEW id \in 1..Len(priority) PROVE Has(folded, id) \/ Has(queue, id)
      BY <2>1
    <3>1. ~Has(hand, id)
      BY <2>1 DEF Has
    <3> QED
      BY <3>1, Somewhere DEF SteerInv
  <2>4. pc' = "compact" => \A id : ~Has(hand', id)
    BY <2>1 DEF Has
  <2>5. HandPlaced'
    BY <2>1 DEF HandPlaced
  <2>6. Drained'
    BY <2>3 DEF Drained
  <2>7. Placed'
    BY <2>1, <2>3, <2>4 DEF Placed
  <2> QED
    BY <2>2, <2>5, <2>6, <2>7 DEF SteerInv
<1>5. CASE PlaceNext
  <2> DEFINE I == {k \in 1..Len(hand) : priority[hand[k]] \in {"Next"}}
  <2>1. /\ pc = "place" /\ pc' = "compact" /\ hand' = <<>> /\ priority' = priority /\ seen' = seen
        /\ folded' = folded \o At(hand, I) /\ OfPriority(hand, {"Now"}) = <<>>
    BY <1>5 DEF PlaceNext, Leave, OfPriority
  <2>2. SteerConserved' /\ SteerInOrder'
    BY <1>5, PlaceNextKeepsLine
  <2>3. ASSUME NEW id \in 1..seen, priority[id] # "Later" PROVE Has(folded', id)
    <3>1. /\ folded \in Seq(1..Len(priority)) /\ hand \in Seq(1..Len(priority))
      BY DEF TypeOK
    <3>2. At(hand, I) \in Seq(1..Len(priority))
      BY <3>1, AtPlaces
    <3>3. CASE Has(folded, id)
      BY <3>1, <3>2, <3>3, <2>1, HasConcat
    <3>4. CASE Has(hand, id)
      <4>1. PICK k \in 1..Len(hand) : hand[k] = id
        BY <3>4 DEF Has
      <4>2. k \in (1..Len(hand)) \cap I
        BY <4>1, <2>1, <2>3, HandSplit
      <4>3. Has(At(hand, I), id)
        <5> HIDE DEF I
        <5> QED
          BY <3>1, <4>1, <4>2, PartSeq
      <4> QED
        BY <3>1, <3>2, <4>3, <2>1, HasConcat
    <3> QED
      BY <3>3, <3>4, <2>1 DEF SteerInv, Drained
  <2> QED
    BY <2>1, <2>2, <2>3 DEF SteerInv, HandPlaced, Drained, Placed
<1>6. CASE PlaceNow
  <2>1. /\ pc' = "returned" /\ folded' = folded \o hand /\ hand' = <<>>
        /\ queue' = queue /\ priority' = priority
    BY <1>6 DEF PlaceNow, Leave
  <2>2. Line' = Line
    <3>1. folded \o hand \in Seq(1..Len(priority))
      BY DEF TypeOK
    <3> QED
      BY <2>1, <3>1, ConcatEmptySeq DEF Line
  <2> QED
    BY <2>1, <2>2, LineKept DEF SteerInv, HandPlaced, Drained, Placed
<1>7. CASE NoCompaction \/ Summarised \/ FitInstead \/ RetryStream
  <2>1. pc \in {"compact", "infer"} /\ pc' = "infer" /\ UNCHANGED steer
    BY <1>7 DEF NoCompaction, Summarised, FitInstead, RetryStream, EnterInference, Leave
  <2> QED
    BY <2>1, <1>k DEF SteerInv, HandPlaced, Drained, Placed, steer
<1>10. CASE CompactionCancelled
  BY <1>10, <1>u DEF CompactionCancelled, Leave
<1>11. CASE StreamTruncated \/ RetryCancelled \/ StreamFailed \/ EndedCancelled
  <2>1. SaveAndReturn(history) /\ pc \in {"infer", "endedCalls", "endedText"}
    BY <1>11 DEF StreamTruncated, RetryCancelled, StreamFailed, EndedCancelled
  <2> QED
    BY <2>1, <1>f DEF SaveAndReturn, Leave
<1>13. ASSUME NEW r \in {"text", "calls", "empty"}, StreamEnded(r) PROVE SteerInv'
  BY <1>13, <1>u DEF StreamEnded, Leave
<1>14. CASE Proceed
  BY <1>14, <1>u DEF Proceed, Leave
<1>15. CASE CriteriaReminder
  BY <1>15, <1>u DEF CriteriaReminder, Leave
<1>16. CASE VerifierReminder
  BY <1>16, <1>u DEF VerifierReminder, Leave
<1>17. CASE WrapUp
  BY <1>17, <1>f DEF WrapUp, Leave
<1>18. ASSUME NEW w \in BOOLEAN, NEW c \in 0..MaxCriteria, RunTools(w, c) PROVE SteerInv'
  <2>1. PICK cards \in {<<>>, <<Tools(runs, turn)>>} : ToolsDone(cards) \/ RepeatStopped(cards)
    BY <1>18 DEF RunTools
  <2>2. pc = "tools"
    BY <1>18 DEF RunTools
  <2>3. CASE ToolsDone(cards)
    BY <2>2, <2>3, <1>u DEF ToolsDone, Leave
  <2>4. CASE RepeatStopped(cards)
    BY <2>2, <2>4, <1>f DEF RepeatStopped, Leave
  <2> QED
    BY <2>1, <2>3, <2>4
<1>19. CASE post_loop
  BY <1>19, <1>u DEF post_loop, Leave
<1>20. ASSUME NEW p \in Priorities, push_steer(p) PROVE SteerInv'
  <2>1. SteerConserved' /\ SteerInOrder'
    BY <1>20, PushKeepsLine
  <2>2. /\ UNCHANGED <<pc, hand, folded, seen>>
        /\ priority \in Seq(Priorities) /\ seen \in 0..Len(priority)
        /\ priority' = Append(priority, p)
    BY <1>20 DEF push_steer, TypeOK
  <2>3. \A id \in 1..seen : priority'[id] = priority[id]
    BY <2>2
  <2> QED
    BY <2>1, <2>2, <2>3 DEF SteerInv, HandPlaced, Drained, Placed
<1>21. CASE Cancel \/ clear_criteria \/ UNCHANGED vars
  <2>1. UNCHANGED steer /\ pc' = pc
    BY <1>21 DEF Cancel, clear_criteria, vars, steer
  <2> QED
    BY <2>1, <1>k DEF SteerInv, HandPlaced, Drained, Placed, steer
<1> QED
  BY <1>1, <1>2, <1>3, <1>4, <1>5, <1>6, <1>7, <1>10, <1>11, <1>13, <1>14,
     <1>15, <1>16, <1>17, <1>18, <1>19, <1>20, <1>21 DEF Next, RunStep
-----------------------------------------------------------------------------
(* Responses.                                                              *)

(* A history whose responses are all in another one, or that are known.    *)
LEMMA KnownFolded ==
    ASSUME TypeOK, NEW h \in Seq(Entries), Known(h)
    PROVE  /\ Known(Folded(h, queue)) /\ Known(Folded(h, hand))
           /\ \A I : Known(Folded(h, At(hand, I)))
           /\ \A x : Has(h, x) => Has(Folded(h, queue), x)
<1>1. /\ Len(priority) \in Nat /\ queue \in Seq(1..Len(priority)) /\ hand \in Seq(1..Len(priority))
  BY DEF TypeOK
<1>2. ASSUME NEW ids \in Seq(1..Len(priority))
      PROVE  Known(Folded(h, ids)) /\ \A x : Has(h, x) => Has(Folded(h, ids), x)
  <2>1. /\ Folded(h, ids) \in Seq(Entries)
        /\ Len(Folded(h, ids)) = Len(h) + Len(ids)
        /\ \A i \in 1..Len(h) : Folded(h, ids)[i] = h[i]
        /\ \A i \in 1..Len(Folded(h, ids)) :
              i \notin 1..Len(h) => Folded(h, ids)[i].type = "steer"
    BY <1>1, FoldedSeq
  <2>2. Len(h) \in Nat /\ Len(ids) \in Nat
    OBVIOUS
  <2>3. Known(Folded(h, ids))
    <3> SUFFICES ASSUME NEW i \in 1..Len(Folded(h, ids)), Folded(h, ids)[i].type = "assistant"
                 PROVE  /\ Folded(h, ids)[i].run <= runs
                        /\ Folded(h, ids)[i].run = runs => Folded(h, ids)[i].n \in completed
      BY DEF Known
    <3>1. i \in 1..Len(h)
      BY <2>1
    <3> QED
      BY <2>1, <3>1 DEF Known
  <2>4. ASSUME NEW x, Has(h, x) PROVE Has(Folded(h, ids), x)
    <3>1. PICK i \in 1..Len(h) : h[i] = x
      BY <2>4 DEF Has
    <3>2. i \in 1..Len(Folded(h, ids)) /\ Folded(h, ids)[i] = x
      BY <2>1, <2>2, <3>1
    <3> QED
      BY <3>2 DEF Has
  <2> QED
    BY <2>3, <2>4
<1>3. \A I : At(hand, I) \in Seq(1..Len(priority))
  BY <1>1, AtPlaces
<1> QED
  BY <1>1, <1>2, <1>3

LEMMA KnownAppend ==
    ASSUME NEW h \in Seq(Entries), Known(h), NEW x \in Entries, x.type # "assistant"
    PROVE  Known(Append(h, x)) /\ Known(h \o <<x>>) /\ Known(<<x>> \o h)
<1>1. Len(h) \in Nat /\ <<x>> \in Seq(Entries) /\ Len(<<x>>) = 1 /\ <<x>>[1] = x
  OBVIOUS
<1>2. Append(h, x) = h \o <<x>>
  BY AppendIsConcat
<1>3. ASSUME NEW i \in 1..Len(h \o <<x>>) PROVE (h \o <<x>>)[i] = x \/ \E k \in 1..Len(h) : (h \o <<x>>)[i] = h[k]
  BY <1>1
<1>4. ASSUME NEW i \in 1..Len(<<x>> \o h) PROVE (<<x>> \o h)[i] = x \/ \E k \in 1..Len(h) : (<<x>> \o h)[i] = h[k]
  <2>1. Len(<<x>> \o h) = 1 + Len(h)
    BY <1>1
  <2>2. CASE i = 1
    BY <1>1, <2>2
  <2>3. CASE i # 1
    <3>1. i - 1 \in 1..Len(h) /\ (<<x>> \o h)[i] = h[i - 1]
      BY <1>1, <2>1, <2>3
    <3> QED
      BY <3>1
  <2> QED
    BY <2>2, <2>3
<1> QED
  BY <1>2, <1>3, <1>4 DEF Known

LEMMA KnownPart ==
    ASSUME NEW h \in Seq(Entries), Known(h), NEW g \in Seq(Entries),
           \A i \in 1..Len(g) : Has(h, g[i])
    PROVE  Known(g)
BY DEF Known, Has

(* An entry that is known to be of this run is of a completed turn.        *)
LEMMA KnownCompleted ==
    ASSUME NEW h \in Seq(Entries), Known(h), Has(h, Assistant(runs, turn))
    PROVE  turn \in completed
BY DEF Known, Has, Assistant
LEMMA ResponseStep == TypeInv /\ ResponseInv /\ [Next]_vars => ResponseInv'
<1> SUFFICES ASSUME TypeInv, ResponseInv, [Next]_vars PROVE ResponseInv'
  OBVIOUS
<1>0. /\ TypeOK /\ history \in Seq(Entries) /\ stored \in Seq(Entries)
      /\ turn \in Nat /\ runs \in Nat /\ runs \in 0..MaxRuns /\ completed \subseteq Nat
  BY BoundsAssumption DEF TypeInv, TypeOK
<1>k. ASSUME NEW h, NEW g, Known(h), Known(g), history' = h, stored' = g, UNCHANGED <<runs, completed>>
      PROVE  Known(history)' /\ Known(stored)'
  BY <1>k DEF Known
<1>u. ASSUME UNCHANGED <<history, stored, runs, completed, turn>>,
             \/ pc' = pc
             \/ pc' \in {"idle", "top", "stop", "tools"}
             \/ pc \in {"checkpoint", "place", "compact", "infer"} /\ pc' \in {"place", "compact", "infer"}
      PROVE  ResponseInv'
  BY <1>u, <1>k DEF ResponseInv, Has
(* A response that is complete is in the history that is saved.            *)
<1>r. ASSUME NEW h \in Seq(Entries), Known(h), SaveAndReturn(h), UNCHANGED <<turn, runs, completed>>,
             turn \in completed => Has(h, Assistant(runs, turn))
      PROVE  ResponseInv'
  <2>1. history' = Folded(h, queue) /\ stored' = Folded(h, queue) /\ pc' = "returned"
    BY <1>r DEF SaveAndReturn, fold_all_steer, save_history_now, Leave
  <2>2. /\ Known(Folded(h, queue))
        /\ turn \in completed => Has(Folded(h, queue), Assistant(runs, turn))
    BY <1>0, <1>r, KnownFolded
  <2>3. Known(history)' /\ Known(stored)'
    BY <1>r, <2>1, <2>2, <1>k
  <2>4. (turn \in completed => Has(stored, Assistant(runs, turn)))'
    BY <1>r, <2>1, <2>2 DEF Has, Assistant
  <2>5. \A t \in completed' : t <= turn'
    BY <1>r DEF ResponseInv
  <2> QED
    BY <2>1, <2>3, <2>4, <2>5 DEF ResponseInv
<1>1. CASE Start
  <2>1. /\ runs' = runs + 1 /\ completed' = {} /\ turn' = 0 /\ pc' = "top"
        /\ history' = Append(stored, User(runs + 1)) /\ stored' = history'
        /\ User(runs + 1) \in Entries
    <3>1. runs + 1 \in 0..MaxRuns
      BY <1>1, <1>0, BoundsAssumption DEF Start
    <3> QED
      BY <1>1, <3>1, EntryTypes DEF Start, save_history_now, Leave
  <2>2. Known(Append(stored, User(runs + 1)))
    BY <1>0, <2>1, KnownAppend DEF ResponseInv, User
  <2>3. /\ Append(stored, User(runs + 1)) \in Seq(Entries)
        /\ \A i \in 1..Len(Append(stored, User(runs + 1))) : Append(stored, User(runs + 1))[i].run \in Nat
    <3>1. Append(stored, User(runs + 1)) \in Seq(Entries)
      BY <1>0, <2>1
    <3>2. \A x \in Entries : x.run \in Nat
      BY BoundsAssumption DEF Entries
    <3> QED
      BY <3>1, <3>2, ElementOfSeq
  <2>4. Known(history)' /\ Known(stored)'
    <3> DEFINE h == Append(stored, User(runs + 1))
    <3>1. /\ Known(h) /\ history' = h /\ stored' = h
          /\ \A i \in 1..Len(h) : h[i].run \in Nat
      BY <2>1, <2>2, <2>3
    <3> HIDE DEF h
    <3> QED
      BY SMTT(60), <1>0, <2>1, <3>1 DEF Known
  <2> QED
    BY <2>1, <2>4 DEF ResponseInv
<1>2. CASE NextTurn
  <2>1. /\ turn' = turn + 1 /\ pc' = "checkpoint" /\ UNCHANGED <<history, stored, runs, completed>>
    BY <1>2 DEF NextTurn, Leave
  <2>2. \A n \in completed : n <= turn' /\ n # turn'
    BY <1>0, <2>1 DEF ResponseInv
  <2> QED
    BY <2>1, <2>2, <1>k DEF ResponseInv
<1>3. CASE HitMaxTurns
  <2>1. /\ turn' = turn + 1 /\ history' = Folded(history, queue) /\ pc' = "broke"
        /\ (stored' = stored \/ stored' = history') /\ UNCHANGED <<runs, completed>>
    BY <1>3 DEF HitMaxTurns, fold_all_steer, save_history_now, Leave
  <2>2. Known(Folded(history, queue))
    BY <1>0, KnownFolded DEF ResponseInv
  <2>3. Known(history)' /\ Known(stored)'
    BY <2>1, <2>2, <1>k DEF ResponseInv
  <2>4. \A n \in completed : n <= turn'
    BY <1>0, <2>1 DEF ResponseInv
  <2> QED
    BY <2>1, <2>3, <2>4 DEF ResponseInv
<1>4. CASE drain_steer
  BY <1>4, <1>u DEF drain_steer, Leave
<1>5. CASE PlaceNext
  <2>1. PICK I : /\ history' = Folded(history, At(hand, I)) /\ pc = "place" /\ pc' = "compact"
                 /\ UNCHANGED <<stored, runs, completed, turn>>
    BY <1>5 DEF PlaceNext, OfPriority, Leave
  <2>2. Known(Folded(history, At(hand, I)))
    BY <1>0, KnownFolded DEF ResponseInv
  <2>3. Known(history)' /\ Known(stored)'
    BY <2>1, <2>2, <1>k DEF ResponseInv
  <2> QED
    BY <2>1, <2>3 DEF ResponseInv
<1>6. CASE PlaceNow
  <2>1. /\ history' = Folded(history, hand) /\ stored' = history' /\ pc = "place" /\ pc' = "returned"
        /\ UNCHANGED <<runs, completed, turn>>
    BY <1>6 DEF PlaceNow, save_history_now, Leave
  <2>2. Known(Folded(history, hand))
    BY <1>0, KnownFolded DEF ResponseInv
  <2>3. Known(history)' /\ Known(stored)'
    BY <2>1, <2>2, <1>k DEF ResponseInv
  <2> QED
    BY <2>1, <2>3 DEF ResponseInv
<1>7. CASE NoCompaction
  BY <1>7, <1>u DEF NoCompaction, EnterInference, Leave
<1>8. CASE Summarised
  <2>1. PICK I : history' = <<Note>> \o At(history, I)
    BY <1>8 DEF Summarised
  <2>2. pc = "compact" /\ pc' = "infer" /\ UNCHANGED <<stored, runs, completed, turn>>
    BY <1>8 DEF Summarised, EnterInference, Leave
  <2>3. At(history, I) \in Seq(Entries) /\ Known(At(history, I))
    BY <1>0, PartSeq, KnownPart DEF ResponseInv, Has
  <2>4. Known(<<Note>> \o At(history, I))
    BY <2>3, EntryTypes, KnownAppend DEF Note
  <2>5. Known(history)' /\ Known(stored)'
    BY <2>1, <2>2, <2>4, <1>k DEF ResponseInv
  <2> QED
    BY <2>2, <2>5 DEF ResponseInv
<1>9. CASE FitInstead
  <2>1. PICK I : history' = At(history, I)
    BY <1>9 DEF FitInstead
  <2>2. pc = "compact" /\ pc' = "infer" /\ UNCHANGED <<stored, runs, completed, turn>>
    BY <1>9 DEF FitInstead, EnterInference, Leave
  <2>3. Known(At(history, I))
    BY <1>0, PartSeq, KnownPart DEF ResponseInv, Has
  <2>5. Known(history)' /\ Known(stored)'
    BY <2>1, <2>2, <2>3, <1>k DEF ResponseInv
  <2> QED
    BY <2>2, <2>5 DEF ResponseInv
<1>10. CASE CompactionCancelled
  <2>1. pc = "compact" /\ pc' = "returned" /\ UNCHANGED <<history, stored, runs, completed, turn>>
    BY <1>10 DEF CompactionCancelled, Leave
  <2> QED
    BY <2>1, <1>k DEF ResponseInv
<1>11. CASE StreamTruncated \/ RetryCancelled \/ StreamFailed \/ EndedCancelled
  <2>1. /\ SaveAndReturn(history) /\ UNCHANGED <<turn, runs, completed>>
        /\ pc \in {"infer", "endedCalls", "endedText"}
    BY <1>11 DEF StreamTruncated, RetryCancelled, StreamFailed, EndedCancelled
  <2>2. Known(history) /\ (turn \in completed => Has(history, Assistant(runs, turn)))
    BY <2>1 DEF ResponseInv
  <2> QED
    BY <1>0, <2>1, <2>2, <1>r
<1>12. CASE RetryStream
  BY <1>12, <1>u DEF RetryStream
<1>13. ASSUME NEW r \in {"text", "calls", "empty"}, StreamEnded(r) PROVE ResponseInv'
  <2>1. /\ pc = "infer" /\ pc' \in {"endedCalls", "endedText"} /\ UNCHANGED <<stored, runs, turn>>
        /\ \/ UNCHANGED <<history, completed>>
           \/ history' = Append(history, Assistant(runs, turn)) /\ completed' = completed \cup {turn}
    BY <1>13 DEF StreamEnded, Leave
  <2>2. turn \notin completed
    BY <2>1 DEF ResponseInv
  <2>3. CASE UNCHANGED <<history, completed>>
    BY <2>1, <2>2, <2>3, <1>k DEF ResponseInv
  <2>4. CASE history' = Append(history, Assistant(runs, turn)) /\ completed' = completed \cup {turn}
    <3>1. Assistant(runs, turn) \in Entries
      BY <1>0, EntryTypes
    <3>2. /\ Len(history') = Len(history) + 1 /\ Len(history) \in Nat
          /\ \A i \in 1..Len(history) : history'[i] = history[i]
          /\ history'[Len(history) + 1] = Assistant(runs, turn)
      BY <1>0, <2>4, <3>1
    <3>3. Has(history', Assistant(runs', turn'))
      BY <2>1, <3>2 DEF Has
    <3>4. Known(history)'
      <4> SUFFICES ASSUME NEW i \in 1..Len(history'), history'[i].type = "assistant"
                   PROVE  /\ history'[i].run <= runs
                          /\ history'[i].run = runs => history'[i].n \in completed'
        BY <2>1 DEF Known
      <4>1. CASE i \in 1..Len(history)
        <5>1. history'[i] = history[i]
          BY <4>1, <3>2
        <5> QED
          BY <4>1, <5>1, <2>4 DEF ResponseInv, Known
      <4>2. CASE i = Len(history) + 1
        BY <4>2, <3>2, <2>4, <1>0 DEF Assistant
      <4> QED
        BY <4>1, <4>2, <3>2
    <3>5. Known(stored)'
      BY <2>1, <2>4 DEF ResponseInv, Known
    <3>6. \A n \in completed' : n <= turn'
      BY <1>0, <2>1, <2>4 DEF ResponseInv
    <3> QED
      BY <2>1, <3>3, <3>4, <3>5, <3>6 DEF ResponseInv, Has, Assistant
  <2> QED
    BY <2>1, <2>3, <2>4
<1>14. CASE Proceed
  BY <1>14, <1>u DEF Proceed, Leave
<1>15. CASE CriteriaReminder
  BY <1>15, <1>u DEF CriteriaReminder, Leave
<1>16. CASE VerifierReminder
  BY <1>16, <1>u DEF VerifierReminder, Leave
<1>17. CASE WrapUp
  <2>1. /\ history' = Folded(history, queue) /\ pc' \in {"broke", "top"}
        /\ UNCHANGED <<stored, runs, completed, turn>>
    BY <1>17 DEF WrapUp, fold_all_steer, Leave
  <2>2. Known(Folded(history, queue))
    BY <1>0, KnownFolded DEF ResponseInv
  <2>3. Known(history)' /\ Known(stored)'
    BY <2>1, <2>2, <1>k DEF ResponseInv
  <2> QED
    BY <2>1, <2>3 DEF ResponseInv
<1>18. ASSUME NEW w \in BOOLEAN, NEW c \in 0..MaxCriteria, RunTools(w, c) PROVE ResponseInv'
  <2>1. PICK cards \in {<<>>, <<Tools(runs, turn)>>} : ToolsDone(cards) \/ RepeatStopped(cards)
    BY <1>18 DEF RunTools
  <2>2. UNCHANGED <<runs, completed, turn>> /\ Tools(runs, turn) \in Entries /\ Known(history)
    BY <1>18, <1>0, EntryTypes DEF RunTools, ResponseInv
  <2>3. history \o cards \in Seq(Entries) /\ Known(history \o cards)
    <3>1. CASE cards = <<>>
      BY <1>0, <2>2, <3>1
    <3>2. CASE cards = <<Tools(runs, turn)>>
      <4>1. Known(history \o <<Tools(runs, turn)>>)
        BY <1>0, <2>2, KnownAppend DEF Tools
      <4> QED
        BY <1>0, <2>2, <3>2, <4>1
    <3> QED
      BY <2>1, <3>1, <3>2
  <2>4. CASE ToolsDone(cards)
    <3>1. Known(Capped(history \o cards))
      BY <2>3, CappedSeq, KnownPart
    <3>2. /\ history' = Capped(history \o cards) /\ stored' = history' /\ pc' = "top"
      BY <2>4 DEF ToolsDone, save_history_now, Leave
    <3>3. Known(history)' /\ Known(stored)'
      BY <2>2, <3>1, <3>2, <1>k
    <3> QED
      BY <2>2, <3>2, <3>3 DEF ResponseInv
  <2>5. CASE RepeatStopped(cards)
    <3>1. Known(Folded(history \o cards, queue))
      BY <1>0, <2>3, KnownFolded
    <3>2. /\ history' = Folded(history \o cards, queue) /\ stored' = history' /\ pc' = "broke"
      BY <2>5 DEF RepeatStopped, fold_all_steer, save_history_now, Leave
    <3>3. Known(history)' /\ Known(stored)'
      BY <2>2, <3>1, <3>2, <1>k
    <3> QED
      BY <2>2, <3>2, <3>3 DEF ResponseInv
  <2> QED
    BY <2>1, <2>4, <2>5
<1>19. CASE post_loop
  <2>1. stored' = history /\ pc' = "idle" /\ UNCHANGED <<history, runs, completed, turn>>
    BY <1>19 DEF post_loop, Leave
  <2>2. Known(history)' /\ Known(stored)'
    BY <2>1, <1>k DEF ResponseInv
  <2> QED
    BY <2>1, <2>2 DEF ResponseInv
<1>20. ASSUME NEW p \in Priorities, push_steer(p) PROVE ResponseInv'
  BY <1>20, <1>u DEF push_steer
<1>21. CASE Cancel \/ clear_criteria \/ UNCHANGED vars
  BY <1>21, <1>u DEF Cancel, clear_criteria, vars
<1> QED
  BY <1>1, <1>2, <1>3, <1>4, <1>5, <1>6, <1>7, <1>8, <1>9, <1>10, <1>11, <1>12, <1>13, <1>14,
     <1>15, <1>16, <1>17, <1>18, <1>19, <1>20, <1>21 DEF Next, RunStep

-----------------------------------------------------------------------------
(* The theorems.                                                           *)

LEMMA InvInit == Init => TypeInv /\ SteerInv /\ ResponseInv
<1> SUFFICES ASSUME Init PROVE TypeInv /\ SteerInv /\ ResponseInv
  OBVIOUS
<1>1. TypeInv
  <2>1. /\ <<>> \in Seq(Priorities) /\ Len(<<>>) = 0
        /\ <<>> \in Seq(Entries) /\ \A N : <<>> \in Seq(1..N)
    OBVIOUS
  <2>2. \A n \in Nat : 0 \in 0..n
    OBVIOUS
  <2>3. /\ MaxCriteria \in Nat /\ MaxTurns + 1 \in Nat /\ MaxRetries \in Nat
        /\ MaxNudges \in Nat /\ MaxRuns \in Nat /\ MaxSteers \in Nat /\ 0 <= MaxSteers
    BY BoundsAssumption
  <2>4. /\ seen \in 0..Len(priority) /\ unchecked \in 0..MaxCriteria
        /\ turn \in 0..(MaxTurns + 1) /\ retries \in 0..MaxRetries
        /\ nudges \in 0..MaxNudges /\ runs \in 0..MaxRuns
    BY <2>1, <2>2, <2>3 DEF Init
  <2>5. /\ priority \in Seq(Priorities) /\ Len(priority) <= MaxSteers
        /\ queue \in Seq(1..Len(priority)) /\ hand \in Seq(1..Len(priority))
        /\ folded \in Seq(1..Len(priority))
        /\ history \in Seq(Entries) /\ stored \in Seq(Entries)
    BY <2>1, <2>3 DEF Init
  <2>6. /\ cancelled \in BOOLEAN /\ touched \in BOOLEAN
        /\ completed \subseteq 1..MaxTurns
        /\ pc = "idle"
    BY DEF Init
  <2> QED
    BY <2>4, <2>5, <2>6 DEF TypeInv, TypeOK, TurnCounted
<1>2. SteerInv
  <2>1. Line = <<>> /\ Len(Line) = 0 /\ Len(priority) = 0
    BY DEF Init, Line
  <2> QED
    BY <2>1 DEF Init, SteerInv, SteerConserved, SteerInOrder, HandPlaced, Drained, Placed
<1>3. ResponseInv
  BY DEF Init, ResponseInv, Known
<1> QED
  BY <1>1, <1>2, <1>3

(* The inductive invariant holds of every behaviour.                       *)
LEMMA InvHolds == Spec => [](TypeInv /\ SteerInv /\ ResponseInv)
<1>1. TypeInv /\ SteerInv /\ ResponseInv /\ [Next]_vars => (TypeInv /\ SteerInv /\ ResponseInv)'
  BY TypeStep, SteerStep, ResponseStep DEF TypeInv
<1> QED
  BY <1>1, InvInit, PTL DEF Spec

(* Steer messages are handled (fold_steer_at_checkpoint, fold_all_steer,   *)
(* requeue_steer): whatever the run does and however it ends, no message   *)
(* is lost or doubled, those of one priority keep their order, and no LLM  *)
(* call is made while one that the checkpoint should have folded is not.   *)
THEOREM SteersAreHandled == Spec => []SteerHandled
<1>1. TypeInv /\ SteerInv => SteerHandled
  BY DEF TypeInv, SteerInv, SteerHandled, Placed, CheckpointComplete, Has
<1> QED
  BY <1>1, InvHolds, PTL

(* An early return leaves the response of the turn in the sessions table   *)
(* if and only if its stream ended normally (Agent::run).                  *)
THEOREM ResponsesAreKept == Spec => []ResponseKept
<1>1. TypeInv /\ ResponseInv => ResponseKept
  <2> SUFFICES ASSUME TypeInv, ResponseInv, pc = "returned"
               PROVE  turn \in completed <=> Has(stored, Assistant(runs, turn))
    BY DEF ResponseKept, Has
  <2>1. stored \in Seq(Entries) /\ Known(stored)
    BY DEF TypeInv, TypeOK, ResponseInv
  <2>2. Has(stored, Assistant(runs, turn)) => turn \in completed
    BY <2>1, KnownCompleted
  <2>3. turn \in completed => Has(stored, Assistant(runs, turn))
    BY DEF ResponseInv
  <2> QED
    BY <2>2, <2>3
<1> QED
  BY <1>1, InvHolds, PTL

-----------------------------------------------------------------------------
(* The loop implements Conversation.                                       *)

(* The front of a concatenation, and the rest.                             *)
LEMMA FrontAndRest ==
    ASSUME NEW S, NEW a \in Seq(S), NEW b \in Seq(S)
    PROVE  /\ SubSeq(a \o b, 1, Len(a)) = a
           /\ SubSeq(a \o b, Len(a) + 1, Len(a \o b)) = b
<1> DEFINE w == a \o b
<1>1. /\ w \in Seq(S) /\ Len(w) = Len(a) + Len(b) /\ Len(a) \in Nat /\ Len(b) \in Nat
      /\ \A i \in 1..(Len(a) + Len(b)) : w[i] = IF i <= Len(a) THEN a[i] ELSE b[i - Len(a)]
  BY ConcatProperties
<1> HIDE DEF w
<1>2. SubSeq(w, 1, Len(a)) = a
  <2>1. \A i \in 1..Len(a) : w[i] \in S /\ w[i] = a[i]
    BY <1>1
  <2>2. /\ SubSeq(w, 1, Len(a)) \in Seq(S) /\ Len(SubSeq(w, 1, Len(a))) = Len(a)
        /\ \A i \in 1..Len(a) : SubSeq(w, 1, Len(a))[i] = w[i]
    BY <1>1, <2>1, SubSeqProperties
  <2> QED
    BY <2>1, <2>2, SeqEqual
<1>3. SubSeq(w, Len(a) + 1, Len(w)) = b
  <2> DEFINE t == SubSeq(w, Len(a) + 1, Len(w))
  <2>1. \A i \in (Len(a) + 1)..Len(w) : w[i] \in S
    BY <1>1
  <2>2. /\ t \in Seq(S) /\ Len(t) = Len(b)
        /\ \A i \in 1..Len(b) : t[i] = w[Len(a) + i]
    BY <1>1, <2>1, SubSeqProperties
  <2>3. \A i \in 1..Len(b) : w[Len(a) + i] = b[i]
    BY <1>1, SMTT(40)
  <2> HIDE DEF t
  <2>4. \A i \in 1..Len(t) : t[i] = b[i]
    BY <2>2, <2>3
  <2>5. t = b
    BY <2>2, <2>4, SeqEqual
  <2> QED
    BY <2>5 DEF t
<1> QED
  BY <1>2, <1>3 DEF w

(* Parts are the same in both specifications.                              *)
LEMMA TalkAt == \A s, I : Talk!At(s, I) = At(s, I)
BY DEF At, Talk!At

(* A step that says all, or all but the Later messages, of a front of the  *)
(* line is a step of the conversation.                                     *)
LEMMA SaysFront ==
    ASSUME NEW u \in BOOLEAN, NEW N \in Nat,
           NEW a \in Seq(1..N), a # <<>>, NEW b \in Seq(1..N), hand \o queue = a \o b,
           NEW I, NEW J, \A i \in 1..Len(a) : i \in J <=> u /\ priority[a[i]] = "Later",
           \A i \in 1..Len(a) : i \in I <=> i \notin J,
           folded' = folded \o At(a, I),
           hand' \o queue' = At(a, J) \o b,
           priority' = priority
    PROVE  Talk!Say(u)
<1> DEFINE w == hand \o queue
           later == {i \in 1..Len(a) : u /\ priority[a[i]] = "Later"}
<1>1. /\ SubSeq(w, 1, Len(a)) = a /\ SubSeq(w, Len(a) + 1, Len(w)) = b
      /\ Len(a) \in 1..Len(w)
  <2>1. Len(a \o b) = Len(a) + Len(b) /\ Len(a) \in Nat /\ Len(b) \in Nat /\ Len(a) # 0
    BY ConcatProperties, EmptySeq
  <2> QED
    BY <2>1, FrontAndRest
<1>2. At(a, I) = At(a, (1..Len(a)) \ later)
  <2>1. \A i \in 1..Len(a) : i \in I <=> i \in (1..Len(a)) \ later
    OBVIOUS
  <2> HIDE DEF later
  <2> QED
    BY <2>1, AtSame
<1>3. At(a, J) = At(a, later)
  <2>1. \A i \in 1..Len(a) : i \in J <=> i \in later
    OBVIOUS
  <2> HIDE DEF later
  <2> QED
    BY <2>1, AtSame
<1>4. /\ folded' = folded \o At(SubSeq(w, 1, Len(a)), (1..Len(a)) \
               {i \in 1..Len(a) : u /\ priority[SubSeq(w, 1, Len(a))[i]] = "Later"})
      /\ hand' \o queue' = At(SubSeq(w, 1, Len(a)),
               {i \in 1..Len(a) : u /\ priority[SubSeq(w, 1, Len(a))[i]] = "Later"})
                   \o SubSeq(w, Len(a) + 1, Len(w))
  BY <1>1, <1>2, <1>3
<1> DEFINE Part(n) ==
             /\ folded' = folded \o At(SubSeq(w, 1, n), (1..n) \
                      {i \in 1..n : u /\ priority[SubSeq(w, 1, n)[i]] = "Later"})
             /\ hand' \o queue' = At(SubSeq(w, 1, n),
                      {i \in 1..n : u /\ priority[SubSeq(w, 1, n)[i]] = "Later"})
                          \o SubSeq(w, n + 1, Len(w))
<1>5. Part(Len(a))
  BY <1>4
<1>6. Talk!Say(u) <=> \E n \in 1..Len(w) : Part(n) /\ priority' = priority
  BY TalkAt DEF Talk!Say
<1>7. Len(a) \in 1..Len(w)
  BY <1>1
<1> HIDE DEF Part, w
<1>8. Part(Len(a)) /\ priority' = priority
  BY <1>5
<1> QED
  BY <1>6, <1>7, <1>8, Zenon

(* What is folded as a whole is said as a whole.                           *)
LEMMA SaysAll ==
    ASSUME NEW N \in Nat, NEW a \in Seq(1..N), NEW b \in Seq(1..N), hand \o queue = a \o b,
           folded \in Seq(1..N), folded' = folded \o a,
           hand' \o queue' = b, priority' = priority
    PROVE  Talk!Say(FALSE) \/ UNCHANGED <<priority, hand \o queue, folded>>
<1>1. CASE a = <<>>
  BY <1>1, ConcatEmptySeq
<1>2. CASE a # <<>>
  <2>1. At(a, 1..Len(a)) = a
    BY AtAll
  <2>2. At(a, {}) = <<>>
    BY AtNone
  <2>3. hand' \o queue' = At(a, {}) \o b
    BY <2>2, ConcatEmptySeq
  <2> DEFINE I == 1..Len(a)
             J == {}
  <2>4. /\ \A i \in 1..Len(a) : i \in J <=> FALSE /\ priority[a[i]] = "Later"
        /\ \A i \in 1..Len(a) : i \in I <=> i \notin J
    OBVIOUS
  <2>5. folded' = folded \o At(a, I) /\ hand' \o queue' = At(a, J) \o b
    BY <2>1, <2>3
  <2> HIDE DEF I, J
  <2> QED
    BY <1>2, <2>4, <2>5, SaysFront
<1> QED
  BY <1>1, <1>2

TalkStep == [Talk!Push \/ \E u \in BOOLEAN : Talk!Say(u)]_(Talk!conversation)

LEMMA SayIsTalk ==
    ASSUME NEW u \in BOOLEAN, Talk!Say(u)
    PROVE  TalkStep
BY DEF TalkStep

LEMMA StutterIsTalk ==
    ASSUME UNCHANGED <<priority, hand \o queue, folded>>
    PROVE  TalkStep
BY DEF TalkStep, Talk!conversation

LEMMA TalkSteps == TypeInv /\ SteerInv /\ [Next]_vars => TalkStep
<1> SUFFICES ASSUME TypeInv, SteerInv, [Next]_vars PROVE TalkStep
  OBVIOUS
<1> DEFINE N == Len(priority)
<1>0. /\ TypeOK /\ N \in Nat /\ priority \in Seq(Priorities)
      /\ queue \in Seq(1..N) /\ hand \in Seq(1..N) /\ folded \in Seq(1..N)
  BY DEF TypeInv, TypeOK
<1>f. ASSUME NEW h, fold_all_steer(h), pc # "place" PROVE TalkStep
  <2>1. /\ folded' = folded \o queue /\ queue' = <<>> /\ hand' = hand /\ priority' = priority
        /\ hand = <<>>
    BY <1>f DEF fold_all_steer, SteerInv, HandPlaced
  <2>2. <<>> \in Seq(1..N) /\ hand \o queue = queue \o <<>> /\ hand' \o queue' = <<>>
    BY <1>0, <2>1, ConcatEmptySeq
  <2>3. Talk!Say(FALSE) \/ UNCHANGED <<priority, hand \o queue, folded>>
    <3> HIDE DEF N
    <3> QED
      BY <1>0, <2>1, <2>2, SaysAll
  <2> QED
    BY <2>3, SayIsTalk, StutterIsTalk
<1>s. ASSUME UNCHANGED <<priority, hand, queue, folded>> PROVE TalkStep
  BY <1>s, StutterIsTalk
<1>1. CASE \/ Start \/ NextTurn \/ NoCompaction \/ Summarised \/ FitInstead
           \/ CompactionCancelled \/ RetryStream \/ Proceed \/ CriteriaReminder
           \/ VerifierReminder \/ post_loop \/ Cancel \/ clear_criteria
  BY <1>1, <1>s DEF Start, NextTurn, NoCompaction, Summarised, FitInstead,
     CompactionCancelled, RetryStream, Proceed, CriteriaReminder,
     VerifierReminder, post_loop, Cancel, clear_criteria, steer
<1>2. CASE HitMaxTurns \/ WrapUp
  BY <1>2, <1>f DEF HitMaxTurns, WrapUp
<1>3. CASE StreamTruncated \/ RetryCancelled \/ StreamFailed \/ EndedCancelled
  BY <1>3, <1>f DEF StreamTruncated, RetryCancelled, StreamFailed, EndedCancelled, SaveAndReturn
<1>4. ASSUME NEW r, StreamEnded(r) PROVE TalkStep
  BY <1>4, <1>s DEF StreamEnded, steer
<1>5. ASSUME NEW wr, NEW c, RunTools(wr, c) PROVE TalkStep
  BY <1>5, <1>s, <1>f DEF RunTools, ToolsDone, RepeatStopped, steer
<1>6. CASE drain_steer
  <2>1. hand = <<>> /\ hand' = queue /\ queue' = <<>> /\ UNCHANGED <<priority, folded>>
    BY <1>6 DEF drain_steer, SteerInv, HandPlaced
  <2>2. hand' \o queue' = hand \o queue
    BY <1>0, <2>1, ConcatEmptySeq
  <2> QED
    BY <2>1, <2>2, StutterIsTalk
<1>7. CASE PlaceNow
  <2>1. /\ folded' = folded \o hand /\ hand' = <<>> /\ queue' = queue /\ priority' = priority
    BY <1>7 DEF PlaceNow
  <2>2. hand' \o queue' = queue
    BY <1>0, <2>1, ConcatEmptySeq
  <2>3. Talk!Say(FALSE) \/ UNCHANGED <<priority, hand \o queue, folded>>
    <3> HIDE DEF N
    <3> QED
      BY <1>0, <2>1, <2>2, SaysAll
  <2> QED
    BY <2>3, SayIsTalk, StutterIsTalk
<1>8. CASE PlaceNext
  <2> DEFINE I == {k \in 1..Len(hand) : priority[hand[k]] \in {"Next"}}
             J == {k \in 1..Len(hand) : priority[hand[k]] \in {"Later"}}
  <2>1. /\ folded' = folded \o At(hand, I) /\ queue' = At(hand, J) \o queue
        /\ hand' = <<>> /\ priority' = priority /\ OfPriority(hand, {"Now"}) = <<>>
    BY <1>8 DEF PlaceNext, requeue_steer, OfPriority
  <2>2. /\ \A i \in 1..Len(hand) : i \in J <=> TRUE /\ priority[hand[i]] = "Later"
        /\ \A i \in 1..Len(hand) : i \in I <=> i \notin J
    BY <1>0, <2>1, HandSplit
  <2> HIDE DEF I, J
  <2>3. /\ At(hand, I) \in Seq(1..N) /\ At(hand, J) \in Seq(1..N)
    BY <1>0, AtPlaces
  <2>4. hand' \o queue' = At(hand, J) \o queue
    <3>1. At(hand, J) \o queue \in Seq(1..N)
      BY <1>0, <2>3, ConcatProperties
    <3> QED
      BY <2>1, <3>1, ConcatEmptySeq
  <2>5. CASE hand = <<>>
    <3>1. At(hand, I) = <<>> /\ At(hand, J) = <<>>
      <4>1. \A n \in 1..Len(hand) : n \notin I /\ n \notin J
        BY <2>5
      <4> HIDE DEF N
      <4> QED
        BY <1>0, <4>1, AtNone
    <3> QED
      BY <1>0, <2>1, <2>4, <2>5, <3>1, ConcatEmptySeq, StutterIsTalk
  <2>6. CASE hand # <<>>
    <3>1. Talk!Say(TRUE)
      <4> HIDE DEF N
      <4> QED
        BY <1>0, <2>1, <2>2, <2>4, <2>6, SaysFront
    <3> QED
      BY <3>1, SayIsTalk
  <2> QED
    BY <2>5, <2>6
<1>9. ASSUME NEW p \in Priorities, push_steer(p) PROVE TalkStep
  <2>1. /\ priority' = Append(priority, p) /\ queue' = Append(queue, N + 1)
        /\ UNCHANGED <<hand, folded>> /\ p \in {"Now", "Next", "Later"}
    BY <1>9 DEF push_steer, Priorities
  <2>2. hand' \o queue' = Append(hand \o queue, N + 1)
    <3>1. /\ hand \in Seq(Nat) /\ queue \in Seq(Nat) /\ N + 1 \in Nat
      BY <1>0
    <3> HIDE DEF N
    <3>2. hand \o Append(queue, N + 1) = Append(hand \o queue, N + 1)
      BY <3>1
    <3> QED
      BY <2>1, <3>2
  <2>3. Talk!Push
    BY <2>1, <2>2 DEF Talk!Push
  <2> QED
    BY <2>3 DEF TalkStep
<1>10. CASE UNCHANGED vars
  BY <1>10, <1>s DEF vars
<1> QED
  BY <1>1, <1>2, <1>3, <1>4, <1>5, <1>6, <1>7, <1>8, <1>9, <1>10 DEF Next, RunStep

(* The steer queue of the loop is a conversation, however the drains, the  *)
(* requeues and the exits of its runs interleave with pushes.              *)
THEOREM LoopConverses == Spec => ImplementsConversation
<1>1. Init => Talk!Silence
  <2> SUFFICES ASSUME Init PROVE Talk!Silence
    OBVIOUS
  <2>1. <<>> \o <<>> = <<>>
    OBVIOUS
  <2> QED
    BY <2>1 DEF Init, Talk!Silence
<1>2. TypeInv /\ SteerInv /\ [Next]_vars
        => [Talk!Push \/ \E u \in BOOLEAN : Talk!Say(u)]_(Talk!conversation)
  BY TalkSteps DEF TalkStep
<1> QED
  BY <1>1, <1>2, InvHolds, PTL DEF Spec, ImplementsConversation, Talk!Converses

-----------------------------------------------------------------------------
(* RinSocket.                                                              *)

Stages == {"off", "idle", "lock", "newline", "waits", "over"}
Names == (UNION Uses) \cup {"none", "event", "agent", "question", "resolved"}
TaskStates == [pc : Stages, item : Names \X Nat]
Pieces == [line : Names \X Nat, by : Writers, part : {"json", "newline"}]

RinTypes ==
    /\ socket \in [Clients -> {"none", "open", "closed"}]
    /\ inbox \in [Clients -> Seq(UNION Uses)]
    /\ unsent \in [Clients -> SUBSET (UNION Uses)]
    /\ writer \in [Clients -> [Writers -> TaskStates]]
    /\ owner \in [Clients -> Writers \cup {"none"}]
    /\ notices \in Nat
    /\ passed \in [Clients -> Nat] /\ joined \in [Clients -> Nat]
    /\ emitted \in [Clients -> Nat] /\ taken \in [Clients -> Nat]
    /\ wire \in [Clients -> Seq(Pieces)]

(* The owner of the mutex is the task between the two pieces of its line,  *)
(* and the wire ends with the first of them.                               *)
Mutex(c) ==
    /\ \A t \in Writers : writer[c][t].pc = "newline" <=> owner[c] = t
    /\ owner[c] = "none" /\ socket[c] = "open" => Len(wire[c]) % 2 = 0
    /\ owner[c] # "none" =>
          /\ Len(wire[c]) % 2 = 1
          /\ wire[c][Len(wire[c])] = Piece(c, owner[c], "json")
    /\ \A i \in 1..Len(wire[c]) :
          IF i % 2 = 1 THEN wire[c][i].part = "json"
          ELSE wire[c][i] = [wire[c][i - 1] EXCEPT !.part = "newline"]

(* Before the connection there is nothing of it.                           *)
Unborn(c) ==
    socket[c] = "none" =>
        wire[c] = <<>> /\ inbox[c] = <<>> /\ \A t \in Writers : writer[c][t] = NotYet

(* A request is handled once: what it starts is off until then.            *)
Due(c, m) == m \in unsent[c] \/ \E i \in 1..Len(inbox[c]) : inbox[c][i] = m

Once(c) ==
    /\ \A i, j \in 1..Len(inbox[c]) : inbox[c][i] = inbox[c][j] => i = j
    /\ \A i \in 1..Len(inbox[c]) : inbox[c][i] \notin unsent[c]
    /\ Due(c, "hello") => writer[c]["hello"].pc = "off" /\ writer[c]["ask"].pc = "off"
    /\ Due(c, "agent") => writer[c]["run"].pc = "off"
    /\ writer[c]["reader"].item = <<"agent", 0>> => ~Due(c, "agent") /\ writer[c]["run"].pc = "off"
    /\ \A t \in Writers \ {"reader"} : writer[c][t].item # <<"agent", 0>>

(* What the first k pieces tell a client of its run; those of an open      *)
(* connection tell all that its forwarder has passed.                      *)
AgentTold(c, k) ==
    \E j \in 1..k : wire[c][j].line = <<"agent", 0>> /\ wire[c][j].part = "newline"

EventTold(c, n, k) ==
    \E j \in 1..k : wire[c][j].by = "run" /\ wire[c][j].line[2] = n /\ wire[c][j].part = "newline"

RunKnown(c) ==
    socket[c] = "open" /\ writer[c]["run"].pc # "off" =>
        /\ AgentTold(c, Len(wire[c]))
        /\ writer[c]["run"].pc = "idle" =>
              \A n \in 1..writer[c]["run"].item[2] : EventTold(c, n, Len(wire[c]))
        /\ \A n \in 1..(writer[c]["run"].item[2] - 1) : EventTold(c, n, Len(wire[c]))

RunLines(c) ==
    \A i \in 1..Len(wire[c]) : wire[c][i].by = "run" =>
        /\ AgentTold(c, i - 1)
        /\ \A n \in 1..(wire[c][i].line[2] - 1) : EventTold(c, n, i - 1)

(* The notices a forwarder has passed: the lines of those it wrote, in     *)
(* order, and the one it is about to write.                                *)
Forwarded(c) ==
    writer[c]["cron"].pc \in {"idle", "lock", "newline"} =>
        /\ \A i, j \in Text(c, "cron") : i < j => wire[c][i].line[2] < wire[c][j].line[2]
        /\ \A i \in Text(c, "cron") : wire[c][i].line[2] <= passed[c]
        /\ writer[c]["cron"].pc = "lock" =>
              /\ writer[c]["cron"].item[2] <= passed[c]
              /\ \A i \in Text(c, "cron") : wire[c][i].line[2] < writer[c]["cron"].item[2]
        /\ \A n \in (joined[c] + 1)..passed[c] :
              \/ writer[c]["cron"].pc = "lock" /\ n = writer[c]["cron"].item[2]
              \/ \E i \in Text(c, "cron") : wire[c][i].line[2] = n
              \/ n <= notices - Retained

Counts(c) ==
    /\ passed[c] \in joined[c]..notices
    /\ taken[c] \in 0..Len(wire[c]) /\ Len(wire[c]) - taken[c] <= Room

ClientInv(c) ==
    /\ Mutex(c) /\ Unborn(c) /\ Once(c) /\ RunKnown(c) /\ RunLines(c) /\ Forwarded(c) /\ Counts(c)

RinInv == RinTypes /\ \A c \in Clients : ClientInv(c)

-----------------------------------------------------------------------------
(* Types.                                                                  *)

LEMMA StageTypes ==
    /\ \A w \in Names, n \in Nat, p \in Stages : Stage(p, w, n) \in TaskStates
    /\ \A n \in Nat : Awaits(n) \in TaskStates
    /\ \A w \in Names, n \in Nat : OfLine(w, n) \in TaskStates
    /\ Left \in TaskStates /\ NotYet \in TaskStates
<1>1. \A w \in Names, n \in Nat, p \in Stages : Stage(p, w, n) \in TaskStates
  <2>1. \A w \in Names, n \in Nat : <<w, n>> \in Names \X Nat
    OBVIOUS
  <2> QED
    BY <2>1 DEF Stage, TaskStates
<1>2. /\ {"idle", "lock", "off", "over"} \subseteq Stages
      /\ {"event", "none"} \subseteq Names
  BY DEF Stages, Names
<1> QED
  BY <1>1, <1>2 DEF Awaits, OfLine, Left, NotYet

LEMMA TaskFields ==
    ASSUME NEW x \in TaskStates
    PROVE  /\ x.pc \in Stages /\ x.item \in Names \X Nat /\ x.item[2] \in Nat
           /\ \A p \in Stages : [x EXCEPT !.pc = p] \in TaskStates
BY DEF TaskStates

LEMMA LineTypes ==
    /\ \A n \in Nat : OfLine("event", n + 1) \in TaskStates
    /\ OfLine("resolved", 0) \in TaskStates /\ OfLine("question", 0) \in TaskStates
    /\ Stage("waits", "none", 0) \in TaskStates
    /\ {"reader", "cron", "run", "ask", "hello"} \subseteq Writers
<1>1. {"event", "none", "resolved", "question"} \subseteq Names /\ "waits" \in Stages
  BY DEF Names, Stages
<1>2. \A n \in Nat : n + 1 \in Nat
  OBVIOUS
<1> QED
  BY <1>1, <1>2, StageTypes DEF Writers

(* Tasks of a client are given new states.                                 *)
LEMMA SetTasks ==
    ASSUME RinTypes, NEW c \in Clients, NEW t \in Writers, NEW u \in Writers,
           NEW x \in TaskStates, NEW y \in TaskStates
    PROVE  /\ [writer EXCEPT ![c][t] = x] \in [Clients -> [Writers -> TaskStates]]
           /\ [writer EXCEPT ![c][t] = x, ![c][u] = y] \in [Clients -> [Writers -> TaskStates]]
BY DEF RinTypes

LEMMA WrittenTypes ==
    ASSUME RinTypes, NEW c \in Clients, NEW t \in Writers
    PROVE  /\ Written(c, t) \in [Writers -> TaskStates]
           /\ Broken(c, t) \in [Writers -> TaskStates]
<1>1. writer[c] \in [Writers -> TaskStates]
  BY DEF RinTypes
<1>2. writer[c][t].item[2] \in Nat
  BY <1>1, TaskFields
<1>3. /\ Awaits(writer[c][t].item[2]) \in TaskStates
      /\ Left \in TaskStates
      /\ Awaits(0) \in TaskStates
  BY <1>2, StageTypes
<1>4. Written(c, t) \in [Writers -> TaskStates]
  BY <1>1, <1>3 DEF Written, Writers
<1> QED
  BY <1>1, <1>3, <1>4 DEF Broken, Writers

LEMMA TypesStep == RinTypes /\ [RinNext]_rinVars => RinTypes'
<1> SUFFICES ASSUME RinTypes, [RinNext]_rinVars PROVE RinTypes'
  OBVIOUS
<1> USE DEF clientVars, noticeVars
<1>1. CASE spawn_cron_forwarder
  BY <1>1 DEF spawn_cron_forwarder, RinTypes
<1>2. ASSUME NEW c \in Clients, handle_rin_connection(c) PROVE RinTypes'
  <2>1. writer' \in [Clients -> [Writers -> TaskStates]]
    BY <1>2, StageTypes, LineTypes, SetTasks DEF handle_rin_connection
  <2> QED
    BY <1>2, <2>1 DEF handle_rin_connection, RinTypes
<1>3. ASSUME NEW c \in Clients, NEW m \in UNION Uses, Request(c, m) PROVE RinTypes'
  BY SMTT(60), <1>3 DEF Request, RinTypes
<1>4. ASSUME NEW c \in Clients, ClientReads(c) \/ ClientCloses(c) \/ Emit(c) PROVE RinTypes'
  <2>1. CASE ClientReads(c)
    <3>1. taken' \in [Clients -> Nat]
      BY <2>1 DEF ClientReads, RinTypes
    <3> QED
      BY <2>1, <3>1 DEF ClientReads, RinTypes
  <2>2. CASE ClientCloses(c)
    BY <2>2 DEF ClientCloses, RinTypes
  <2>3. CASE Emit(c)
    BY SMTT(60), <2>3 DEF Emit, RinTypes
  <2> QED
    BY <1>4, <2>1, <2>2, <2>3
<1>t. ASSUME NEW c \in Clients PROVE writer[c] \in [Writers -> TaskStates]
  BY DEF RinTypes
<1>5. ASSUME NEW c \in Clients, NEW t \in Writers, WriteJson(c, t) PROVE RinTypes'
  <2>1. writer[c][t] \in TaskStates /\ "newline" \in Stages
    BY <1>t DEF Stages
  <2>2. [writer[c][t] EXCEPT !.pc = "newline"] \in TaskStates /\ writer[c][t].item \in Names \X Nat
    BY <2>1, TaskFields
  <2>3. Piece(c, t, "json") \in Pieces
    BY <2>2 DEF Piece, Pieces
  <2>4. writer' \in [Clients -> [Writers -> TaskStates]]
    BY <1>5, <1>t, <2>2 DEF WriteJson, RinTypes
  <2>5. wire' \in [Clients -> Seq(Pieces)] /\ owner' \in [Clients -> Writers \cup {"none"}]
    BY <1>5, <2>3 DEF WriteJson, HoldsOn, RinTypes
  <2> QED
    BY <1>5, <2>4, <2>5 DEF WriteJson, RinTypes
<1>6. ASSUME NEW c \in Clients, NEW t \in Writers, WriteNewline(c, t) PROVE RinTypes'
  <2>1. Piece(c, t, "newline") \in Pieces
    BY <1>t, TaskFields DEF Piece, Pieces
  <2> QED
    BY SMTT(60), <1>6, <2>1, WrittenTypes DEF WriteNewline, RinTypes
<1>7. ASSUME NEW c \in Clients, NEW t \in Writers, WriteFails(c, t) PROVE RinTypes'
  BY <1>7, WrittenTypes DEF WriteFails, RinTypes
<1>8. ASSUME NEW c \in Clients, spawn_conn_cron_forwarder(c) PROVE RinTypes'
  <2>1. /\ passed[c] \in Nat /\ passed[c] + 1 \in Nat /\ passed \in [Clients -> Nat]
        /\ notices \in Nat /\ Retained \in Nat
    BY RinAssumption DEF RinTypes
  <2>2. CASE notices - passed[c] > Retained
    <3>1. notices - Retained \in Nat
      BY <2>1, <2>2
    <3>2. passed' = [passed EXCEPT ![c] = notices - Retained] /\ writer' = writer
      BY <1>8, <2>2 DEF spawn_conn_cron_forwarder, CatchUp
    <3>3. passed' \in [Clients -> Nat]
      BY <2>1, <3>1, <3>2
    <3> QED
      BY <1>8, <3>2, <3>3 DEF spawn_conn_cron_forwarder, RinTypes
  <2>3. CASE ~(notices - passed[c] > Retained)
    <3>1. passed' = [passed EXCEPT ![c] = passed[c] + 1]
      BY <1>8, <2>3 DEF spawn_conn_cron_forwarder
    <3>2. passed' \in [Clients -> Nat]
      BY <2>1, <3>1
    <3>3. writer' = [writer EXCEPT ![c]["cron"] = OfLine("event", passed[c] + 1)]
      BY <1>8, <2>3 DEF spawn_conn_cron_forwarder
    <3>4. writer' \in [Clients -> [Writers -> TaskStates]]
      BY <2>1, <3>3, LineTypes, SetTasks
    <3> QED
      BY <1>8, <3>2, <3>4 DEF spawn_conn_cron_forwarder, RinTypes
  <2> QED
    BY <2>2, <2>3
<1>9. ASSUME NEW c \in Clients, Answer(c) PROVE RinTypes'
  <2>1. inbox[c] # <<>> /\ inbox[c] \in Seq(UNION Uses)
    BY <1>9 DEF Answer, Takes, RinTypes
  <2>2. Head(inbox[c]) \in UNION Uses /\ Tail(inbox[c]) \in Seq(UNION Uses)
    BY <2>1
  <2>3. OfLine(Head(inbox[c]), 0) \in TaskStates
    BY <2>2, StageTypes DEF Names
  <2> QED
    BY <1>9, <2>2, <2>3 DEF Answer, Takes, Started, RinTypes
<1>10. ASSUME NEW c \in Clients, NEW known \in BOOLEAN, Hello(c, known) PROVE RinTypes'
  <2>1. Tail(inbox[c]) \in Seq(UNION Uses)
    BY <1>10 DEF Hello, Takes, RinTypes
  <2> QED
    <3>1. writer' \in [Clients -> [Writers -> TaskStates]]
      <4>1. \/ writer' = [writer EXCEPT ![c]["hello"] = OfLine("resolved", 0)]
            \/ writer' = [writer EXCEPT ![c]["ask"] = OfLine("question", 0),
                                        ![c]["hello"] = Stage("waits", "none", 0)]
        BY <1>10 DEF Hello
      <4>2. CASE writer' = [writer EXCEPT ![c]["hello"] = OfLine("resolved", 0)]
        BY <4>2, LineTypes, SetTasks
      <4>3. CASE writer' = [writer EXCEPT ![c]["ask"] = OfLine("question", 0),
                                          ![c]["hello"] = Stage("waits", "none", 0)]
        BY <4>3, LineTypes, SetTasks
      <4> QED
        BY <4>1, <4>2, <4>3
    <3> QED
      BY <1>10, <2>1, <3>1 DEF Hello, Takes, RinTypes
<1>11. ASSUME NEW c \in Clients, resolve_workspace(c) \/ ReaderEnds(c) PROVE RinTypes'
  <2> QED
    <3>1. writer' \in [Clients -> [Writers -> TaskStates]]
      <4>1. CASE resolve_workspace(c)
        BY <4>1, LineTypes, SetTasks DEF resolve_workspace
      <4>2. CASE ReaderEnds(c)
        <5>1. Left \in TaskStates
          BY StageTypes
        <5> QED
          BY <4>2, <5>1, LineTypes, SetTasks DEF ReaderEnds
      <4> QED
        BY <1>11, <4>1, <4>2
    <3> QED
      BY <1>11, <3>1 DEF resolve_workspace, ReaderEnds, RinTypes
<1>12. ASSUME NEW c \in Clients, ForwardEvent(c) PROVE RinTypes'
  <2>1. writer[c]["run"].item[2] \in Nat
    BY <1>t, LineTypes, TaskFields
  <2> QED
    <3>1. writer' \in [Clients -> [Writers -> TaskStates]]
      BY <1>12, <2>1, LineTypes, SetTasks DEF ForwardEvent
    <3> QED
      BY <1>12, <3>1 DEF ForwardEvent, RinTypes
<1>13. CASE UNCHANGED rinVars
  BY <1>13 DEF rinVars, RinTypes
<1> QED
  BY <1>1, <1>2, <1>3, <1>4, <1>5, <1>6, <1>7, <1>8, <1>9, <1>10, <1>11, <1>12, <1>13
     DEF RinNext, RinTask

-----------------------------------------------------------------------------
(* What a step leaves alone.                                               *)

Same(d) ==
    /\ socket'[d] = socket[d] /\ inbox'[d] = inbox[d] /\ unsent'[d] = unsent[d]
    /\ writer'[d] = writer[d] /\ owner'[d] = owner[d]
    /\ passed'[d] = passed[d] /\ joined'[d] = joined[d]
    /\ taken'[d] = taken[d] /\ wire'[d] = wire[d]
    /\ notices' = notices

LEMMA MutexKept ==
    ASSUME NEW c \in Clients, Mutex(c), wire'[c] = wire[c], owner'[c] = owner[c],
           socket'[c] = "open" => socket[c] = "open" \/ wire[c] = <<>>,
           \A t \in Writers :
              /\ writer'[c][t].pc = "newline" <=> writer[c][t].pc = "newline"
              /\ writer[c][t].pc = "newline" => writer'[c][t].item = writer[c][t].item,
           owner[c] \in Writers \cup {"none"}
    PROVE  Mutex(c)'
<1>1. Len(<<>>) % 2 = 0
  OBVIOUS
<1>2. (\A t \in Writers : writer[c][t].pc = "newline" <=> owner[c] = t)'
  BY DEF Mutex
<1>3. (owner[c] = "none" /\ socket[c] = "open" => Len(wire[c]) % 2 = 0)'
  BY <1>1 DEF Mutex
<1>4. (owner[c] # "none" => Len(wire[c]) % 2 = 1 /\ wire[c][Len(wire[c])] = Piece(c, owner[c], "json"))'
  BY DEF Mutex, Piece
<1>5. (\A i \in 1..Len(wire[c]) :
          IF i % 2 = 1 THEN wire[c][i].part = "json"
          ELSE wire[c][i] = [wire[c][i - 1] EXCEPT !.part = "newline"])'
  BY DEF Mutex
<1> QED
  BY <1>2, <1>3, <1>4, <1>5 DEF Mutex

LEMMA OnceKept ==
    ASSUME NEW c \in Clients, Once(c), inbox'[c] = inbox[c], unsent'[c] = unsent[c],
           \A t \in Writers : writer'[c][t].pc = "off" <=> writer[c][t].pc = "off",
           \A t \in Writers : writer'[c][t].item # <<"agent", 0>> \/ writer'[c][t].item = writer[c][t].item
    PROVE  Once(c)'
<1>1. {"hello", "ask", "run", "reader"} \subseteq Writers
  BY DEF Writers
<1> QED
  BY <1>1 DEF Once, Due

LEMMA LinesKept ==
    ASSUME NEW c \in Clients, RunLines(c), wire'[c] = wire[c]
    PROVE  RunLines(c)'
<1> SUFFICES ASSUME NEW i \in 1..Len(wire[c]), wire[c][i].by = "run"
             PROVE  (AgentTold(c, i - 1) /\ \A n \in 1..(wire[c][i].line[2] - 1) : EventTold(c, n, i - 1))'
  BY DEF RunLines
<1>1. AgentTold(c, i - 1) /\ \A n \in 1..(wire[c][i].line[2] - 1) : EventTold(c, n, i - 1)
  BY DEF RunLines
<1> QED
  BY <1>1 DEF AgentTold, EventTold

LEMMA RunKept ==
    ASSUME NEW c \in Clients, RunKnown(c), wire'[c] = wire[c],
           socket'[c] = "open" => socket[c] = "open",
           writer'[c]["run"] = writer[c]["run"]
    PROVE  RunKnown(c)'
<1> SUFFICES ASSUME socket'[c] = "open", writer'[c]["run"].pc # "off"
             PROVE  (/\ AgentTold(c, Len(wire[c]))
                     /\ writer[c]["run"].pc = "idle" =>
                           \A n \in 1..writer[c]["run"].item[2] : EventTold(c, n, Len(wire[c]))
                     /\ \A n \in 1..(writer[c]["run"].item[2] - 1) : EventTold(c, n, Len(wire[c])))'
  BY DEF RunKnown
<1> QED
  BY SMTT(40) DEF RunKnown, AgentTold, EventTold

LEMMA ForwardedKept ==
    ASSUME NEW c \in Clients, Forwarded(c),
           Text(c, "cron")' = Text(c, "cron"),
           \A i \in Text(c, "cron") : wire'[c][i] = wire[c][i],
           writer'[c]["cron"].item[2] = writer[c]["cron"].item[2],
           writer[c]["cron"].pc # "lock" => writer'[c]["cron"].pc # "lock",
           writer[c]["cron"].pc = "lock" => writer'[c]["cron"].pc = "lock",
           writer'[c]["cron"].pc \in {"idle", "lock", "newline"}
               => writer[c]["cron"].pc \in {"idle", "lock", "newline"},
           passed'[c] = passed[c], joined'[c] = joined[c], notices' = notices
    PROVE  Forwarded(c)'
<1> SUFFICES ASSUME writer'[c]["cron"].pc \in {"idle", "lock", "newline"}
             PROVE  Forwarded(c)'
  BY DEF Forwarded
<1> DEFINE T == Text(c, "cron")
<1>1. /\ \A i, j \in T : i < j => wire'[c][i].line[2] < wire'[c][j].line[2]
      /\ \A i \in T : wire'[c][i].line[2] <= passed'[c]
      /\ writer'[c]["cron"].pc = "lock" =>
            /\ writer'[c]["cron"].item[2] <= passed'[c]
            /\ \A i \in T : wire'[c][i].line[2] < writer'[c]["cron"].item[2]
  BY DEF Forwarded
<1>2. \A n \in (joined'[c] + 1)..passed'[c] :
            \/ writer'[c]["cron"].pc = "lock" /\ n = writer'[c]["cron"].item[2]
            \/ \E i \in T : wire'[c][i].line[2] = n
            \/ n <= notices' - Retained
  BY DEF Forwarded
<1>3. Text(c, "cron")' = T
  OBVIOUS
<1> HIDE DEF T
<1> QED
  BY <1>1, <1>2, <1>3 DEF Forwarded

LEMMA CountsKept ==
    ASSUME NEW c \in Clients, Counts(c), wire'[c] = wire[c], taken'[c] = taken[c],
           passed'[c] = passed[c], joined'[c] = joined[c], notices' = notices
    PROVE  Counts(c)'
BY DEF Counts

LEMMA Elsewhere ==
    ASSUME RinTypes, NEW d \in Clients, ClientInv(d), Same(d)
    PROVE  ClientInv(d)'
<1>1. Mutex(d)'
  BY MutexKept DEF ClientInv, Same, RinTypes
<1>2. Once(d)'
  BY OnceKept DEF ClientInv, Same
<1>3. RunKnown(d)'
  BY RunKept DEF ClientInv, Same
<1>4. Forwarded(d)'
  <2>1. Text(d, "cron")' = Text(d, "cron")
    BY DEF Text, Same
  <2> QED
    BY <2>1, ForwardedKept DEF ClientInv, Same
<1>5. Counts(d)'
  BY CountsKept DEF ClientInv, Same
<1>6. Unborn(d)' /\ RunLines(d)'
  BY LinesKept DEF ClientInv, Same, Unborn
<1> QED
  BY <1>1, <1>2, <1>3, <1>4, <1>5, <1>6 DEF ClientInv

-----------------------------------------------------------------------------
(* A piece is written.                                                     *)

LEMMA Parity ==
    \A n \in Nat : ((n + 1) % 2 = 1 <=> n % 2 = 0) /\ (n % 2 = 1 => (n + 1) % 2 = 0 /\ n # 0)
OBVIOUS

LEMMA Grows ==
    ASSUME RinTypes, NEW c \in Clients, NEW p \in Pieces, wire'[c] = Append(wire[c], p)
    PROVE  /\ Len(wire[c]) \in Nat /\ Len(wire'[c]) = Len(wire[c]) + 1
           /\ \A i \in 1..Len(wire[c]) : wire'[c][i] = wire[c][i]
           /\ wire'[c][Len(wire[c]) + 1] = p
BY DEF RinTypes

LEMMA ToldGrows ==
    ASSUME RinTypes, NEW c \in Clients, NEW p \in Pieces, wire'[c] = Append(wire[c], p),
           NEW k \in 0..Len(wire[c])
    PROVE  /\ AgentTold(c, k) => AgentTold(c, k)'
           /\ \A n : EventTold(c, n, k) => EventTold(c, n, k)'
<1>1. \A j \in 1..k : wire'[c][j] = wire[c][j]
  BY Grows
<1> QED
  BY <1>1 DEF AgentTold, EventTold

LEMMA TextGrows ==
    ASSUME RinTypes, NEW c \in Clients, NEW p \in Pieces, wire'[c] = Append(wire[c], p), NEW u
    PROVE  /\ p.part # "json" \/ p.by # u => Text(c, u)' = Text(c, u)
           /\ p.part = "json" /\ p.by = u => Text(c, u)' = Text(c, u) \cup {Len(wire[c]) + 1}
           /\ \A i \in Text(c, u) : wire'[c][i] = wire[c][i] /\ i \in 1..Len(wire[c])
<1>1. /\ Len(wire[c]) \in Nat /\ Len(wire'[c]) = Len(wire[c]) + 1
      /\ \A i \in 1..Len(wire[c]) : wire'[c][i] = wire[c][i]
      /\ wire'[c][Len(wire[c]) + 1] = p
  BY Grows
<1>2. DOMAIN wire[c] = 1..Len(wire[c]) /\ DOMAIN wire'[c] = 1..(Len(wire[c]) + 1)
  BY <1>1 DEF RinTypes
<1> QED
  BY <1>1, <1>2 DEF Text

(* Lines of a run stay well founded when a piece is added that is not of   *)
(* the run, or that comes when the run's earlier lines are there.          *)
LEMMA LinesGrow ==
    ASSUME RinTypes, NEW c \in Clients, NEW p \in Pieces, wire'[c] = Append(wire[c], p),
           RunLines(c),
           p.by = "run" =>
              /\ AgentTold(c, Len(wire[c]))
              /\ \A n \in 1..(p.line[2] - 1) : EventTold(c, n, Len(wire[c]))
    PROVE  RunLines(c)'
<1> DEFINE L == Len(wire[c])
<1>0. /\ L \in Nat /\ Len(wire'[c]) = L + 1
      /\ \A i \in 1..L : wire'[c][i] = wire[c][i]
      /\ wire'[c][L + 1] = p
  BY Grows
<1> SUFFICES ASSUME NEW i \in 1..(L + 1), wire'[c][i].by = "run"
             PROVE  /\ AgentTold(c, i - 1)'
                    /\ \A n \in 1..(wire'[c][i].line[2] - 1) : EventTold(c, n, i - 1)'
  BY <1>0 DEF RunLines
<1>1. i - 1 \in 0..L
  BY <1>0
<1>2. /\ AgentTold(c, i - 1)
      /\ \A n \in 1..(wire'[c][i].line[2] - 1) : EventTold(c, n, i - 1)
  <2>1. CASE i = L + 1
    <3>1. i - 1 = L /\ wire'[c][i] = p
      BY <1>0, <2>1
    <3> QED
      BY <3>1
  <2>2. CASE i # L + 1
    <3>1. i \in 1..L /\ wire'[c][i] = wire[c][i]
      BY <1>0, <2>2
    <3> QED
      BY <3>1 DEF RunLines
  <2> QED
    BY <2>1, <2>2
<1> QED
  BY <1>1, <1>2, ToldGrows

LEMMA AtJson ==
    ASSUME RinInv, NEW c \in Clients, NEW t \in Writers, WriteJson(c, t)
    PROVE  ClientInv(c)'
<1> DEFINE L == Len(wire[c])
           p == Piece(c, t, "json")
<1>0. RinTypes /\ ClientInv(c)
  BY DEF RinInv
<1>1. /\ writer[c][t].pc = "lock" /\ owner[c] = "none" /\ socket[c] = "open" /\ Fits(c)
      /\ wire'[c] = Append(wire[c], p)
      /\ writer'[c] = [writer[c] EXCEPT ![t].pc = "newline"]
      /\ owner'[c] = t
      /\ socket'[c] = "open" /\ inbox'[c] = inbox[c] /\ unsent'[c] = unsent[c]
      /\ passed'[c] = passed[c] /\ joined'[c] = joined[c] /\ taken'[c] = taken[c]
      /\ notices' = notices
  BY <1>0 DEF WriteJson, HoldsOn, clientVars, noticeVars, RinTypes
<1>2. /\ writer[c] \in [Writers -> TaskStates] /\ writer[c][t] \in TaskStates
      /\ writer[c][t].item \in Names \X Nat
  BY <1>0, TaskFields DEF RinTypes
<1>3. p \in Pieces /\ p.part = "json" /\ p.by = t /\ p.line = writer[c][t].item
  BY <1>2 DEF Piece, Pieces
<1>4. /\ writer'[c][t].pc = "newline" /\ writer'[c][t].item = writer[c][t].item
      /\ \A u \in Writers \ {t} : writer'[c][u] = writer[c][u]
  BY <1>1, <1>2 DEF TaskStates
<1>5. /\ L \in Nat /\ Len(wire'[c]) = L + 1
      /\ \A i \in 1..L : wire'[c][i] = wire[c][i]
      /\ wire'[c][L + 1] = p
  BY <1>0, <1>1, <1>3, Grows
<1>p. \A u \in Writers : writer[c][u].pc # "newline"
  BY <1>0, <1>1 DEF ClientInv, Mutex, Writers
<1>6. Mutex(c)'
  <2>1. \A u \in Writers : writer'[c][u].pc = "newline" <=> owner'[c] = u
    BY <1>1, <1>4, <1>p
  <2>2. L % 2 = 0
    BY <1>0, <1>1 DEF ClientInv, Mutex
  <2>3. (L + 1) % 2 = 1
    BY <1>5, <2>2, Parity
  <2>4. p = Piece(c, t, "json")'
    BY <1>3, <1>4 DEF Piece
  <2>5. ASSUME NEW i \in 1..(L + 1)
        PROVE  IF i % 2 = 1 THEN wire'[c][i].part = "json"
               ELSE wire'[c][i] = [wire'[c][i - 1] EXCEPT !.part = "newline"]
    <3>1. CASE i = L + 1
      BY <3>1, <2>3, <1>3, <1>5
    <3>2. CASE i \in 1..L
      <4>1. i % 2 # 1 => i - 1 \in 1..L
        BY <1>5, <3>2
      <4> QED
        BY <1>0, <1>5, <3>2, <4>1 DEF ClientInv, Mutex
    <3> QED
      BY <1>5, <3>1, <3>2
  <2>6. owner'[c] # "none"
    BY <1>1 DEF Writers
  <2> QED
    BY <1>1, <1>5, <2>1, <2>3, <2>4, <2>5, <2>6 DEF Mutex
<1>7. Once(c)'
  BY ZenonT(60), <1>0, <1>1, <1>4, OnceKept DEF ClientInv
<1>8. RunLines(c)'
  <2>1. t = "run" => /\ AgentTold(c, L)
                     /\ \A n \in 1..(p.line[2] - 1) : EventTold(c, n, L)
    BY <1>0, <1>1, <1>3 DEF ClientInv, RunKnown
  <2> HIDE DEF p
  <2> QED
    BY <1>0, <1>1, <1>3, <2>1, LinesGrow DEF ClientInv
<1>9. RunKnown(c)'
  <2> SUFFICES ASSUME writer'[c]["run"].pc # "off"
               PROVE  (/\ AgentTold(c, Len(wire[c]))
                       /\ writer[c]["run"].pc = "idle" =>
                             \A n \in 1..writer[c]["run"].item[2] : EventTold(c, n, Len(wire[c]))
                       /\ \A n \in 1..(writer[c]["run"].item[2] - 1) : EventTold(c, n, Len(wire[c])))'
    BY DEF RunKnown
  <2>0. "run" \in Writers
    BY DEF Writers
  <2>1. /\ writer'[c]["run"].item = writer[c]["run"].item
        /\ writer'[c]["run"].pc = "idle" => writer[c]["run"].pc = "idle"
        /\ writer[c]["run"].pc # "off"
    BY <1>1, <1>4, <2>0
  <2>2. /\ AgentTold(c, L)
        /\ writer[c]["run"].pc = "idle" => \A n \in 1..writer[c]["run"].item[2] : EventTold(c, n, L)
        /\ \A n \in 1..(writer[c]["run"].item[2] - 1) : EventTold(c, n, L)
    BY <1>0, <1>1, <2>1 DEF ClientInv, RunKnown
  <2>3. \A j \in 1..L : j \in 1..Len(wire'[c]) /\ wire'[c][j] = wire[c][j]
    BY <1>5
  <2>4. AgentTold(c, Len(wire[c]))'
    BY <2>2, <2>3 DEF AgentTold
  <2>5. ASSUME NEW n, EventTold(c, n, L) PROVE EventTold(c, n, Len(wire[c]))'
    BY <2>3, <2>5 DEF EventTold
  <2> QED
    BY <2>1, <2>2, <2>4, <2>5
<1>10. Counts(c)'
  <2>1. taken[c] \in Nat /\ Room \in Nat
    BY <1>0, RinAssumption DEF RinTypes
  <2> QED
    BY <1>0, <1>1, <1>5, <2>1 DEF ClientInv, Counts, Fits
<1>11. Forwarded(c)'
  <2>0. "cron" \in Writers
    BY DEF Writers
  <2>1. CASE t # "cron"
    <3>1. Text(c, "cron")' = Text(c, "cron") /\ writer'[c]["cron"] = writer[c]["cron"]
      BY <1>0, <1>1, <1>3, <1>4, <2>0, <2>1, TextGrows
    <3>2. \A i \in Text(c, "cron") : wire'[c][i] = wire[c][i]
      BY <1>0, <1>1, <1>3, TextGrows
    <3> QED
      BY <1>0, <1>1, <3>1, <3>2, ForwardedKept DEF ClientInv
  <2>2. CASE t = "cron"
    <3> DEFINE k == writer[c]["cron"].item[2]
    <3>1. /\ Text(c, "cron")' = Text(c, "cron") \cup {L + 1}
          /\ \A i \in Text(c, "cron") : wire'[c][i] = wire[c][i] /\ i \in 1..L
      BY ZenonT(60), <1>0, <1>1, <1>3, <2>2, TextGrows
    <3>2. wire'[c][L + 1].line[2] = k /\ k \in Nat
      BY <1>2, <1>3, <1>5, <2>2
    <3>3. /\ \A i, j \in Text(c, "cron") : i < j => wire[c][i].line[2] < wire[c][j].line[2]
          /\ \A i \in Text(c, "cron") : wire[c][i].line[2] < k
          /\ \A i \in Text(c, "cron") : wire[c][i].line[2] <= passed[c]
          /\ k <= passed[c]
          /\ \A n \in (joined[c] + 1)..passed[c] :
              \/ n = k
              \/ \E i \in Text(c, "cron") : wire[c][i].line[2] = n
              \/ n <= notices - Retained
      BY <1>0, <1>1, <2>2 DEF ClientInv, Forwarded
    <3>4. writer'[c]["cron"].pc = "newline"
      BY <1>4, <2>2
    <3> HIDE DEF k
    <3>5. ASSUME NEW i \in Text(c, "cron")', NEW j \in Text(c, "cron")', i < j
          PROVE  wire'[c][i].line[2] < wire'[c][j].line[2]
      <4>1. i \in Text(c, "cron")
        BY <1>5, <3>1, <3>5
      <4>2. CASE j = L + 1
        BY <3>1, <3>2, <3>3, <4>1, <4>2
      <4>3. CASE j \in Text(c, "cron")
        BY <3>1, <3>3, <3>5, <4>1, <4>3
      <4> QED
        BY <3>1, <4>2, <4>3
    <3>6. ASSUME NEW i \in Text(c, "cron")'
          PROVE  wire'[c][i].line[2] <= passed[c]
      BY <3>1, <3>2, <3>3
    <3>7. ASSUME NEW n \in (joined[c] + 1)..passed[c]
          PROVE  \/ \E i \in Text(c, "cron")' : wire'[c][i].line[2] = n
                 \/ n <= notices - Retained
      BY <3>1, <3>2, <3>3
    <3> QED
      BY <1>1, <3>4, <3>5, <3>6, <3>7 DEF Forwarded
  <2> QED
    BY <2>1, <2>2
<1>12. Unborn(c)'
  BY <1>1 DEF Unborn
<1> QED
  BY <1>6, <1>7, <1>8, <1>9, <1>10, <1>11, <1>12 DEF ClientInv

(* The tasks of a connection after one of them has written its line, or    *)
(* has failed to: it is at no line, and only the reader, at the line of a  *)
(* session, starts the forwarder of the run.                               *)
LEMMA After ==
    ASSUME RinTypes, NEW c \in Clients, NEW t \in Writers, Once(c),
           NEW W, W = Written(c, t) \/ W = Broken(c, t)
    PROVE  /\ W[t].pc \in {"idle", "over"} /\ W[t].item # <<"agent", 0>>
           /\ \A u \in Writers \ {t, "run"} : W[u] = writer[c][u]
           /\ t # "run" =>
                 \/ W["run"] = writer[c]["run"]
                 \/ t = "reader" /\ writer[c][t].item = <<"agent", 0>> /\ W["run"] = Awaits(0)
<1>1. writer[c] \in [Writers -> TaskStates]
  BY DEF RinTypes
<1>2. /\ \A n : Awaits(n).pc = "idle" /\ Awaits(n).item = <<"event", n>>
      /\ Left.pc = "over" /\ Left.item = <<"none", 0>>
  BY DEF Awaits, Left, Stage
<1>3. /\ \A n : <<"event", n>> # <<"agent", 0>>
      /\ <<"none", 0>> # <<"agent", 0>>
  OBVIOUS
<1>4. \A u \in Writers \ {"reader"} : writer[c][u].item # <<"agent", 0>>
  BY DEF Once
<1>5. CASE W = [writer[c] EXCEPT ![t] = Left]
  BY <1>1, <1>2, <1>3, <1>5 DEF Writers
<1>6. CASE /\ t \notin {"ask", "hello"}
           /\ W = [writer[c] EXCEPT ![t] = Awaits(@.item[2]),
                      !["run"] = IF writer[c][t].item = <<"agent", 0>> THEN Awaits(0) ELSE @]
  <2>0. "run" \in Writers
    BY DEF Writers
  <2>1. CASE writer[c][t].item = <<"agent", 0>>
    <3>1. t = "reader"
      BY <1>4, <2>1
    <3> QED
      BY <1>1, <1>2, <1>3, <1>6, <2>0, <2>1, <3>1
  <2>2. CASE writer[c][t].item # <<"agent", 0>>
    <3>1. W = [[writer[c] EXCEPT ![t] = Awaits(@.item[2])] EXCEPT !["run"] = @]
      BY <1>6, <2>2
    <3>2. PICK n : n = writer[c][t].item[2]
      OBVIOUS
    <3>3. \A u \in Writers : W[u] = IF u = t THEN Awaits(n) ELSE writer[c][u]
      BY <1>1, <2>0, <3>1, <3>2
    <3>4. W[t].pc = "idle" /\ W[t].item = <<"event", n>>
      BY <1>2, <3>3
    <3> QED
      BY <1>3, <2>0, <3>3, <3>4
  <2> QED
    BY <2>1, <2>2
<1> QED
  BY <1>5, <1>6 DEF Written, Broken

LEMMA OnceAfter ==
    ASSUME RinTypes, NEW c \in Clients, NEW t \in Writers, Once(c),
           writer'[c] = Written(c, t) \/ writer'[c] = Broken(c, t),
           writer[c][t].pc \in {"lock", "newline"},
           inbox'[c] = inbox[c], unsent'[c] = unsent[c]
    PROVE  Once(c)'
<1> DEFINE W == writer'[c]
<1>1. /\ W[t].pc \in {"idle", "over"} /\ W[t].item # <<"agent", 0>>
      /\ \A u \in Writers \ {t, "run"} : W[u] = writer[c][u]
      /\ t # "run" =>
            \/ W["run"] = writer[c]["run"]
            \/ t = "reader" /\ writer[c][t].item = <<"agent", 0>> /\ W["run"] = Awaits(0)
  BY After
<1>2. Awaits(0).pc = "idle" /\ Awaits(0).item # <<"agent", 0>>
  BY DEF Awaits, Stage
<1>3. /\ \A m : Due(c, m)' <=> Due(c, m)
  BY DEF Due
<1>4. Due(c, "hello") => W["hello"].pc = "off" /\ W["ask"].pc = "off"
  BY <1>1 DEF Once, Writers
<1>5. Due(c, "agent") => W["run"].pc = "off"
  BY <1>1 DEF Once, Writers
<1>6. W["reader"].item = <<"agent", 0>> => ~Due(c, "agent") /\ W["run"].pc = "off"
  BY <1>1 DEF Once, Writers
<1>7. \A u \in Writers \ {"reader"} : W[u].item # <<"agent", 0>>
  BY <1>1, <1>2 DEF Once, Writers
<1>8. (/\ \A i, j \in 1..Len(inbox[c]) : inbox[c][i] = inbox[c][j] => i = j
       /\ \A i \in 1..Len(inbox[c]) : inbox[c][i] \notin unsent[c])'
  BY DEF Once
<1> QED
  BY <1>3, <1>4, <1>5, <1>6, <1>7, <1>8 DEF Once

(* Nobody has the mutex after that.                                        *)
LEMMA FreeAfter ==
    ASSUME RinTypes, NEW c \in Clients, NEW t \in Writers, Once(c), Mutex(c),
           writer'[c] = Written(c, t) \/ writer'[c] = Broken(c, t),
           writer[c][t].pc = "newline" \/ owner[c] = "none"
    PROVE  \A u \in Writers : writer'[c][u].pc # "newline"
<1> DEFINE W == writer'[c]
<1>1. /\ W[t].pc \in {"idle", "over"}
      /\ \A u \in Writers \ {t, "run"} : W[u] = writer[c][u]
      /\ t # "run" => W["run"] = writer[c]["run"] \/ W["run"] = Awaits(0)
  BY After
<1>2. Awaits(0).pc = "idle"
  BY DEF Awaits, Stage
<1>3. \A u \in Writers \ {t} : writer[c][u].pc # "newline"
  BY DEF Mutex, Writers
<1> QED
  BY <1>1, <1>2, <1>3

LEMMA AtFailure ==
    ASSUME RinInv, NEW c \in Clients, NEW t \in Writers, WriteFails(c, t)
    PROVE  ClientInv(c)'
<1>0. RinTypes /\ ClientInv(c)
  BY DEF RinInv
<1>1. /\ socket[c] = "closed" /\ socket'[c] = "closed"
      /\ writer[c][t].pc = "newline" \/ owner[c] = "none"
      /\ writer[c][t].pc \in {"lock", "newline"}
      /\ wire'[c] = wire[c] /\ writer'[c] = Broken(c, t) /\ owner'[c] = "none"
      /\ inbox'[c] = inbox[c] /\ unsent'[c] = unsent[c]
      /\ passed'[c] = passed[c] /\ joined'[c] = joined[c] /\ taken'[c] = taken[c]
      /\ notices' = notices
  BY <1>0 DEF WriteFails, clientVars, noticeVars, RinTypes
<1>2. Mutex(c)'
  <2>1. \A u \in Writers : writer'[c][u].pc # "newline"
    BY <1>0, <1>1, FreeAfter DEF ClientInv
  <2>2. \A u \in Writers : u # "none"
    BY DEF Writers
  <2>3. (\A i \in 1..Len(wire[c]) :
          IF i % 2 = 1 THEN wire[c][i].part = "json"
          ELSE wire[c][i] = [wire[c][i - 1] EXCEPT !.part = "newline"])'
    BY <1>0, <1>1 DEF ClientInv, Mutex
  <2> QED
    BY <1>1, <2>1, <2>2, <2>3 DEF Mutex
<1>3. Once(c)'
  BY <1>0, <1>1, OnceAfter DEF ClientInv
<1>4. RunKnown(c)' /\ RunLines(c)' /\ Counts(c)' /\ Unborn(c)'
  BY <1>0, <1>1, LinesKept, CountsKept DEF ClientInv, RunKnown, Unborn
<1>5. Forwarded(c)'
  <2>1. CASE t = "cron"
    <3>1. writer'[c]["cron"] = Left
      BY <1>0, <1>1, <2>1 DEF Broken, RinTypes
    <3> QED
      BY <3>1 DEF Forwarded, Left, Stage
  <2>2. CASE t # "cron"
    <3>1. writer'[c]["cron"] = writer[c]["cron"]
      BY <1>0, <1>1, <2>2, After DEF ClientInv, Writers
    <3>2. Text(c, "cron")' = Text(c, "cron")
      BY <1>1 DEF Text
    <3> QED
      BY <1>0, <1>1, <3>1, <3>2, ForwardedKept DEF ClientInv
  <2> QED
    BY <2>1, <2>2
<1> QED
  BY <1>2, <1>3, <1>4, <1>5 DEF ClientInv

LEMMA AtNewline ==
    ASSUME RinInv, NEW c \in Clients, NEW t \in Writers, WriteNewline(c, t)
    PROVE  ClientInv(c)'
<1> DEFINE L == Len(wire[c])
           p == Piece(c, t, "newline")
<1>0. RinTypes /\ ClientInv(c)
  BY DEF RinInv
<1>1. /\ writer[c][t].pc = "newline" /\ socket[c] = "open" /\ Fits(c)
      /\ wire'[c] = Append(wire[c], p)
      /\ writer'[c] = Written(c, t)
      /\ owner'[c] = "none"
      /\ socket'[c] = "open" /\ inbox'[c] = inbox[c] /\ unsent'[c] = unsent[c]
      /\ passed'[c] = passed[c] /\ joined'[c] = joined[c] /\ taken'[c] = taken[c]
      /\ notices' = notices
  BY <1>0 DEF WriteNewline, clientVars, noticeVars, RinTypes
<1>2. /\ writer[c] \in [Writers -> TaskStates] /\ writer[c][t] \in TaskStates
      /\ writer[c][t].item \in Names \X Nat
  BY <1>0, TaskFields DEF RinTypes
<1>3. p \in Pieces /\ p.part = "newline" /\ p.by = t /\ p.line = writer[c][t].item
  BY <1>2 DEF Piece, Pieces
<1>5. /\ L \in Nat /\ Len(wire'[c]) = L + 1
      /\ \A i \in 1..L : wire'[c][i] = wire[c][i]
      /\ wire'[c][L + 1] = p
  BY <1>0, <1>1, <1>3, Grows
<1>w. /\ writer'[c][t].pc \in {"idle", "over"}
      /\ \A u \in Writers \ {t, "run"} : writer'[c][u] = writer[c][u]
      /\ t # "run" =>
            \/ writer'[c]["run"] = writer[c]["run"]
            \/ t = "reader" /\ writer[c][t].item = <<"agent", 0>> /\ writer'[c]["run"] = Awaits(0)
  BY <1>0, <1>1, After DEF ClientInv
<1>6. Mutex(c)'
  <2>1. \A u \in Writers : writer'[c][u].pc # "newline" /\ u # "none"
    BY <1>0, <1>1, FreeAfter DEF ClientInv, Writers
  <2>2. L % 2 = 1 /\ wire[c][L] = Piece(c, t, "json")
    BY <1>0, <1>1 DEF ClientInv, Mutex, Writers
  <2>3. (L + 1) % 2 = 0 /\ L # 0
    BY <1>5, <2>2, Parity
  <2>4. p = [wire[c][L] EXCEPT !.part = "newline"]
    BY <2>2 DEF Piece
  <2>5. ASSUME NEW i \in 1..(L + 1)
        PROVE  IF i % 2 = 1 THEN wire'[c][i].part = "json"
               ELSE wire'[c][i] = [wire'[c][i - 1] EXCEPT !.part = "newline"]
    <3>1. CASE i = L + 1
      <4>1. i - 1 = L /\ i - 1 \in 1..L /\ ~(i % 2 = 1)
        <5>1. i - 1 = L /\ L \in 1..L
          BY <1>5, <2>3, <3>1
        <5>2. i % 2 = 0
          BY <2>3, <3>1, Zenon
        <5>3. ~(i % 2 = 1)
          BY <5>2
        <5> QED
          BY <5>1, <5>3
      <4>2. wire'[c][i] = p /\ wire'[c][i - 1] = wire[c][L]
        BY <1>5, <3>1, <4>1
      <4> QED
        BY <2>4, <4>1, <4>2
    <3>2. CASE i \in 1..L
      <4>1. i % 2 # 1 => i - 1 \in 1..L
        BY <1>5, <3>2
      <4> QED
        BY <1>0, <1>5, <3>2, <4>1 DEF ClientInv, Mutex
    <3> QED
      BY <1>5, <3>1, <3>2
  <2> QED
    BY <1>1, <1>5, <2>1, <2>3, <2>5 DEF Mutex
<1>7. Once(c)'
  BY <1>0, <1>1, OnceAfter DEF ClientInv
<1>8. RunLines(c)'
  <2>1. t = "run" => /\ AgentTold(c, L)
                     /\ \A n \in 1..(p.line[2] - 1) : EventTold(c, n, L)
    BY <1>0, <1>1, <1>3 DEF ClientInv, RunKnown
  <2> HIDE DEF p
  <2> QED
    BY <1>0, <1>1, <1>3, <2>1, LinesGrow DEF ClientInv
<1>9. RunKnown(c)'
  <2> SUFFICES ASSUME writer'[c]["run"].pc # "off"
               PROVE  (/\ AgentTold(c, Len(wire[c]))
                       /\ writer[c]["run"].pc = "idle" =>
                             \A n \in 1..writer[c]["run"].item[2] : EventTold(c, n, Len(wire[c]))
                       /\ \A n \in 1..(writer[c]["run"].item[2] - 1) : EventTold(c, n, Len(wire[c])))'
    BY DEF RunKnown
  <2>0. "run" \in Writers
    BY DEF Writers
  <2>3. \A j \in 1..L : j \in 1..Len(wire'[c]) /\ wire'[c][j] = wire[c][j]
    BY <1>5
  <2>4. AgentTold(c, L) => AgentTold(c, Len(wire[c]))'
    BY <2>3 DEF AgentTold
  <2>5. ASSUME NEW n, EventTold(c, n, L) PROVE EventTold(c, n, Len(wire[c]))'
    BY <2>3, <2>5 DEF EventTold
  <2>6. CASE t # "run" /\ writer'[c]["run"] = writer[c]["run"]
    <3>1. /\ AgentTold(c, L)
          /\ writer[c]["run"].pc = "idle" => \A n \in 1..writer[c]["run"].item[2] : EventTold(c, n, L)
          /\ \A n \in 1..(writer[c]["run"].item[2] - 1) : EventTold(c, n, L)
      BY <1>0, <1>1, <2>6 DEF ClientInv, RunKnown
    <3> QED
      BY <2>4, <2>5, <2>6, <3>1
  <2>7. CASE t # "run" /\ writer'[c]["run"] # writer[c]["run"]
    <3>1. t = "reader" /\ writer[c][t].item = <<"agent", 0>> /\ writer'[c]["run"] = Awaits(0)
      BY <1>w, <2>7
    <3>2. L + 1 \in 1..Len(wire'[c]) /\ wire'[c][L + 1].line = <<"agent", 0>>
          /\ wire'[c][L + 1].part = "newline"
      BY <1>3, <1>5, <3>1
    <3>3. AgentTold(c, Len(wire[c]))'
      BY <3>2 DEF AgentTold
    <3>4. writer'[c]["run"].item[2] = 0
      BY <3>1 DEF Awaits, Stage
    <3> QED
      BY <3>3, <3>4
  <2>8. CASE t = "run"
    <3>0. PICK k \in Nat : k = writer[c]["run"].item[2]
      BY <1>2, <2>8
    <3>1. AgentTold(c, L) /\ \A n \in 1..(k - 1) : EventTold(c, n, L)
      BY <1>0, <1>1, <3>0, <2>8 DEF ClientInv, RunKnown
    <3>2. writer'[c]["run"] = Awaits(k)
      <4>1. writer[c]["run"].item # <<"agent", 0>>
        BY <1>0 DEF ClientInv, Once, Writers
      <4>2. writer'[c] = [[writer[c] EXCEPT !["run"] = Awaits(k)] EXCEPT !["run"] = @]
        BY <1>1, <2>8, <3>0, <4>1 DEF Written
      <4> QED
        BY <1>2, <2>0, <4>2
    <3>3. writer'[c]["run"].item[2] = k
      BY <3>2 DEF Awaits, Stage
    <3>4. L + 1 \in 1..Len(wire'[c]) /\ wire'[c][L + 1].by = "run"
          /\ wire'[c][L + 1].line[2] = k /\ wire'[c][L + 1].part = "newline"
      BY <1>3, <1>5, <2>8, <3>0
    <3>5. EventTold(c, k, Len(wire[c]))'
      BY <3>4 DEF EventTold
    <3>6. \A n \in 1..k : n = k \/ n \in 1..(k - 1)
      OBVIOUS
    <3>7. \A n \in 1..k : EventTold(c, n, Len(wire[c]))'
      BY <2>5, <3>1, <3>5, <3>6
    <3>8. \A n \in 1..(k - 1) : n \in 1..k
      OBVIOUS
    <3> QED
      BY <2>4, <3>1, <3>3, <3>7, <3>8
  <2> QED
    BY <2>6, <2>7, <2>8
<1>10. Counts(c)'
  <2>1. taken[c] \in Nat /\ Room \in Nat
    BY <1>0, RinAssumption DEF RinTypes
  <2> QED
    BY <1>0, <1>1, <1>5, <2>1 DEF ClientInv, Counts, Fits
<1>11. Forwarded(c)'
  <2>1. /\ Text(c, "cron")' = Text(c, "cron")
        /\ \A i \in Text(c, "cron") : wire'[c][i] = wire[c][i]
    BY <1>0, <1>1, <1>3, TextGrows
  <2>2. CASE t # "cron"
    <3>1. writer'[c]["cron"] = writer[c]["cron"]
      BY <1>w, <2>2 DEF Writers
    <3> QED
      BY <1>0, <1>1, <2>1, <3>1, ForwardedKept DEF ClientInv
  <2>3. CASE t = "cron"
    <3>1. writer[c]["cron"].item # <<"agent", 0>>
      BY <1>0 DEF ClientInv, Once, Writers
    <3>2. writer'[c]["cron"] = Awaits(writer[c]["cron"].item[2])
      BY <1>1, <1>2, <2>3, <3>1 DEF Written, Writers
    <3>3. writer'[c]["cron"].pc = "idle" /\ writer'[c]["cron"].item[2] = writer[c]["cron"].item[2]
      BY <3>2 DEF Awaits, Stage
    <3> QED
      BY <1>0, <1>1, <2>1, <2>3, <3>3, ForwardedKept DEF ClientInv
  <2> QED
    BY <2>2, <2>3
<1>12. Unborn(c)'
  BY <1>1 DEF Unborn
<1> QED
  BY <1>6, <1>7, <1>8, <1>9, <1>10, <1>11, <1>12 DEF ClientInv

-----------------------------------------------------------------------------
(* The other steps.                                                        *)

LEMMA AtConnection ==
    ASSUME RinInv, NEW c \in Clients, handle_rin_connection(c)
    PROVE  ClientInv(c)'
<1>0. RinTypes /\ ClientInv(c) /\ {"reader", "cron"} \subseteq Writers
  BY DEF RinInv, Writers
<1>1. /\ socket[c] = "none" /\ socket'[c] = "open"
      /\ writer'[c] = [writer[c] EXCEPT !["reader"] = Awaits(0), !["cron"] = Awaits(0)]
      /\ passed'[c] = notices /\ joined'[c] = notices /\ notices' = notices /\ notices \in Nat
      /\ wire'[c] = wire[c] /\ owner'[c] = owner[c] /\ taken'[c] = taken[c]
      /\ inbox'[c] = inbox[c] /\ unsent'[c] = unsent[c]
      /\ owner[c] \in Writers \cup {"none"}
  BY <1>0 DEF handle_rin_connection, RinTypes
<1>2. /\ wire[c] = <<>> /\ inbox[c] = <<>> /\ \A t \in Writers : writer[c][t] = NotYet
  BY <1>0, <1>1 DEF ClientInv, Unborn
<1>3. /\ NotYet.pc = "off" /\ NotYet.item = <<"none", 0>>
      /\ Awaits(0).pc = "idle" /\ Awaits(0).item = <<"event", 0>>
  BY DEF NotYet, Awaits, Stage
<1>4. \A t \in Writers : writer'[c][t] = IF t \in {"reader", "cron"} THEN Awaits(0) ELSE NotYet
  BY <1>0, <1>1, <1>2 DEF RinTypes
<1>5. Mutex(c)'
  BY <1>0, <1>1, <1>2, <1>3, <1>4, MutexKept DEF ClientInv
<1>6. Once(c)'
  <2>1. Len(inbox'[c]) = 0
    BY <1>1, <1>2
  <2>2. <<"none", 0>> # <<"agent", 0>> /\ <<"event", 0>> # <<"agent", 0>>
    OBVIOUS
  <2>3. \A t \in Writers : writer'[c][t].item # <<"agent", 0>>
    BY <1>3, <1>4, <2>2
  <2>4. \A t \in {"hello", "ask", "run"} : writer'[c][t].pc = "off"
    BY <1>3, <1>4 DEF Writers
  <2> QED
    BY <1>0, <2>1, <2>3, <2>4 DEF Once
<1>7. RunKnown(c)'
  BY <1>3, <1>4 DEF RunKnown, Writers
<1>8. RunLines(c)'
  BY <1>0, <1>1, LinesKept DEF ClientInv
<1>9. Forwarded(c)'
  <2>1. Text(c, "cron")' = {}
    BY <1>1, <1>2 DEF Text
  <2>2. writer'[c]["cron"].pc # "lock"
    BY <1>0, <1>3, <1>4
  <2>3. \A n \in (joined'[c] + 1)..passed'[c] : FALSE
    BY <1>1
  <2> QED
    BY <2>1, <2>2, <2>3 DEF Forwarded
<1>10. Counts(c)'
  BY <1>0, <1>1 DEF ClientInv, Counts
<1>11. Unborn(c)'
  BY <1>1 DEF Unborn
<1> QED
  BY <1>5, <1>6, <1>7, <1>8, <1>9, <1>10, <1>11 DEF ClientInv

LEMMA AtRequest ==
    ASSUME RinInv, NEW c \in Clients, NEW m \in UNION Uses, Request(c, m)
    PROVE  ClientInv(c)'
<1>0. RinTypes /\ ClientInv(c)
  BY DEF RinInv
<1>1. /\ socket[c] = "open" /\ m \in unsent[c]
      /\ inbox'[c] = Append(inbox[c], m) /\ unsent'[c] = unsent[c] \ {m}
      /\ socket'[c] = socket[c] /\ writer'[c] = writer[c] /\ owner'[c] = owner[c]
      /\ passed'[c] = passed[c] /\ joined'[c] = joined[c] /\ taken'[c] = taken[c]
      /\ wire'[c] = wire[c] /\ notices' = notices
      /\ owner[c] \in Writers \cup {"none"} /\ inbox[c] \in Seq(UNION Uses)
  BY <1>0 DEF Request, noticeVars, RinTypes
<1>2. Once(c)'
  <2> DEFINE k == Len(inbox[c])
  <2>1. /\ k \in Nat /\ Len(inbox'[c]) = k + 1
        /\ \A i \in 1..k : inbox'[c][i] = inbox[c][i]
        /\ inbox'[c][k + 1] = m
    BY <1>1
  <2>2. \A x : Due(c, x)' => Due(c, x)
    BY <1>1, <2>1 DEF Due
  <2>3. /\ \A i, j \in 1..k : inbox[c][i] = inbox[c][j] => i = j
        /\ \A i \in 1..k : inbox[c][i] \notin unsent[c] /\ inbox[c][i] # m
    BY <1>0, <1>1 DEF ClientInv, Once
  <2> HIDE DEF k
  <2>4. \A i \in 1..(k + 1) : i \in 1..k \/ i = k + 1
    BY <2>1
  <2>5. \A i, j \in 1..(k + 1) : inbox'[c][i] = inbox'[c][j] => i = j
    BY <2>1, <2>3, <2>4
  <2>6. \A i \in 1..(k + 1) : inbox'[c][i] \notin unsent'[c]
    BY <1>1, <2>1, <2>3, <2>4
  <2> QED
    BY <1>0, <1>1, <2>1, <2>2, <2>5, <2>6 DEF ClientInv, Once
<1>3. Text(c, "cron")' = Text(c, "cron")
  BY <1>1 DEF Text
<1> QED
  BY <1>0, <1>1, <1>2, <1>3, MutexKept, LinesKept, RunKept, ForwardedKept, CountsKept
     DEF ClientInv, Unborn

LEMMA AtClient ==
    ASSUME RinInv, NEW c \in Clients, ClientReads(c) \/ ClientCloses(c)
    PROVE  ClientInv(c)'
<1>0. RinTypes /\ ClientInv(c)
  BY DEF RinInv
<1>1. /\ socket[c] = "open" /\ socket'[c] \in {"open", "closed"}
      /\ inbox'[c] = inbox[c] /\ unsent'[c] = unsent[c]
      /\ writer'[c] = writer[c] /\ owner'[c] = owner[c]
      /\ passed'[c] = passed[c] /\ joined'[c] = joined[c]
      /\ \/ taken'[c] = taken[c]
         \/ taken[c] < Len(wire[c]) /\ taken'[c] = taken[c] + 1
      /\ wire'[c] = wire[c] /\ notices' = notices
      /\ owner[c] \in Writers \cup {"none"} /\ taken[c] \in Nat /\ Len(wire[c]) \in Nat
      /\ Room \in Nat
  <2>0. /\ owner[c] \in Writers \cup {"none"} /\ taken[c] \in Nat /\ Len(wire[c]) \in Nat
        /\ Room \in Nat
    BY <1>0, RinAssumption DEF RinTypes
  <2>1. CASE ClientReads(c)
    <3>1. taken'[c] = taken[c] + 1 /\ taken[c] < Len(wire[c])
      BY <1>0, <2>1 DEF ClientReads, RinTypes
    <3> QED
      BY <2>0, <2>1, <3>1 DEF ClientReads, noticeVars
  <2>2. CASE ClientCloses(c)
    <3>1. socket'[c] = "closed"
      BY <1>0, <2>2 DEF ClientCloses, RinTypes
    <3> QED
      BY <2>0, <2>2, <3>1 DEF ClientCloses, noticeVars
  <2> QED
    BY <2>1, <2>2
<1>2. Counts(c)'
  BY <1>0, <1>1 DEF ClientInv, Counts
<1>3. Text(c, "cron")' = Text(c, "cron")
  BY <1>1 DEF Text
<1> QED
  BY <1>0, <1>1, <1>2, <1>3, MutexKept, OnceKept, LinesKept, RunKept, ForwardedKept
     DEF ClientInv, Unborn

LEMMA AtNotice ==
    ASSUME RinInv, NEW d \in Clients, spawn_cron_forwarder
    PROVE  ClientInv(d)'
<1>0. RinTypes /\ ClientInv(d)
  BY DEF RinInv
<1>1. /\ socket'[d] = socket[d] /\ inbox'[d] = inbox[d] /\ unsent'[d] = unsent[d]
      /\ writer'[d] = writer[d] /\ owner'[d] = owner[d]
      /\ passed'[d] = passed[d] /\ joined'[d] = joined[d] /\ taken'[d] = taken[d]
      /\ wire'[d] = wire[d] /\ notices' = notices + 1
      /\ owner[d] \in Writers \cup {"none"} /\ notices \in Nat /\ Retained \in Nat
      /\ passed[d] \in Nat /\ joined[d] \in Nat
  BY <1>0, RinAssumption DEF spawn_cron_forwarder, clientVars, RinTypes
<1>2. Counts(d)'
  BY <1>0, <1>1 DEF ClientInv, Counts
<1>3. Forwarded(d)'
  <2>1. Text(d, "cron")' = Text(d, "cron")
    BY <1>1 DEF Text
  <2>2. \A n \in (joined[d] + 1)..passed[d] : n <= notices - Retained => n <= notices' - Retained
    BY <1>1
  <2> SUFFICES ASSUME writer[d]["cron"].pc \in {"idle", "lock", "newline"}
               PROVE  Forwarded(d)'
    BY <1>1 DEF Forwarded
  <2> DEFINE T == Text(d, "cron")
  <2>3. /\ \A i, j \in T : i < j => wire[d][i].line[2] < wire[d][j].line[2]
        /\ \A i \in T : wire[d][i].line[2] <= passed[d]
        /\ writer[d]["cron"].pc = "lock" =>
              /\ writer[d]["cron"].item[2] <= passed[d]
              /\ \A i \in T : wire[d][i].line[2] < writer[d]["cron"].item[2]
        /\ \A n \in (joined[d] + 1)..passed[d] :
              \/ writer[d]["cron"].pc = "lock" /\ n = writer[d]["cron"].item[2]
              \/ \E i \in T : wire[d][i].line[2] = n
              \/ n <= notices - Retained
    BY <1>0 DEF ClientInv, Forwarded
  <2>4. \A n \in (joined[d] + 1)..passed[d] :
              \/ writer[d]["cron"].pc = "lock" /\ n = writer[d]["cron"].item[2]
              \/ \E i \in T : wire[d][i].line[2] = n
              \/ n <= notices' - Retained
    BY <2>2, <2>3
  <2>5. Text(d, "cron")' = T
    BY <2>1
  <2> HIDE DEF T
  <2> QED
    BY <1>1, <2>3, <2>4, <2>5 DEF Forwarded
<1> QED
  BY <1>0, <1>1, <1>2, <1>3, MutexKept, OnceKept, LinesKept, RunKept DEF ClientInv, Unborn

(* A task that is at no line takes another state: the others see nothing   *)
(* of it.                                                                  *)
TaskOnly(c) ==
    /\ socket'[c] = socket[c] /\ unsent'[c] = unsent[c] /\ owner'[c] = owner[c]
    /\ joined'[c] = joined[c] /\ taken'[c] = taken[c]
    /\ wire'[c] = wire[c] /\ notices' = notices

LEMMA TaskMutex ==
    ASSUME RinTypes, NEW c \in Clients, ClientInv(c), TaskOnly(c),
           \A t \in Writers : \/ writer'[c][t] = writer[c][t]
                              \/ writer[c][t].pc # "newline" /\ writer'[c][t].pc # "newline"
    PROVE  Mutex(c)' /\ RunLines(c)'
<1>1. owner[c] \in Writers \cup {"none"}
  BY DEF RinTypes
<1> QED
  BY <1>1, MutexKept, LinesKept DEF ClientInv, TaskOnly

LEMMA TaskCron ==
    ASSUME RinTypes, NEW c \in Clients, ClientInv(c), TaskOnly(c),
           writer'[c]["cron"] = writer[c]["cron"], passed'[c] = passed[c]
    PROVE  Forwarded(c)' /\ Counts(c)'
<1>1. Text(c, "cron")' = Text(c, "cron")
  BY DEF Text, TaskOnly
<1> QED
  BY <1>1, ForwardedKept, CountsKept DEF ClientInv, TaskOnly

LEMMA TaskRun ==
    ASSUME RinTypes, NEW c \in Clients, ClientInv(c), TaskOnly(c),
           writer'[c]["run"] = writer[c]["run"]
    PROVE  RunKnown(c)'
BY RunKept DEF ClientInv, TaskOnly

(* A connection whose tasks do something is not unborn.                    *)
LEMMA TaskBorn ==
    ASSUME NEW c \in Clients, ClientInv(c), TaskOnly(c),
           NEW t \in Writers, writer[c][t].pc # "off"
    PROVE  Unborn(c)'
BY DEF ClientInv, Unborn, TaskOnly, NotYet, Stage

LEMMA LineFields ==
    /\ \A w, n : OfLine(w, n).pc = "lock" /\ OfLine(w, n).item = <<w, n>> /\ OfLine(w, n).item[2] = n
    /\ \A p, w, n : Stage(p, w, n).pc = p /\ Stage(p, w, n).item = <<w, n>>
    /\ Left.pc = "over" /\ Left.item = <<"none", 0>>
    /\ \A w, n : w # "agent" => <<w, n>> # <<"agent", 0>>
BY DEF OfLine, Left, Stage

(* A request is taken from the inbox: it was due, and no longer is.        *)
LEMMA TakesOne ==
    ASSUME RinTypes, NEW c \in Clients, Once(c), inbox[c] # <<>>,
           inbox'[c] = Tail(inbox[c]), unsent'[c] = unsent[c],
           NEW m, m = Head(inbox[c])
    PROVE  /\ (/\ \A i, j \in 1..Len(inbox[c]) : inbox[c][i] = inbox[c][j] => i = j
               /\ \A i \in 1..Len(inbox[c]) : inbox[c][i] \notin unsent[c])'
           /\ \A x : Due(c, x)' => Due(c, x)
           /\ Due(c, m) /\ ~Due(c, m)'
<1> DEFINE k == Len(inbox[c])
<1>1. inbox[c] \in Seq(UNION Uses)
  BY DEF RinTypes
<1>2. /\ k \in Nat /\ k > 0 /\ Len(inbox'[c]) = k - 1 /\ m = inbox[c][1]
      /\ \A i \in 1..(k - 1) : inbox'[c][i] = inbox[c][i + 1]
  BY <1>1
<1>3. /\ \A i, j \in 1..k : inbox[c][i] = inbox[c][j] => i = j
      /\ \A i \in 1..k : inbox[c][i] \notin unsent[c]
  BY DEF Once
<1>d. \A x : Due(c, x) <=> x \in unsent[c] \/ \E i \in 1..k : inbox[c][i] = x
  BY DEF Due
<1>e. \A x : Due(c, x)' <=> x \in unsent[c] \/ \E i \in 1..(k - 1) : inbox'[c][i] = x
  BY <1>2 DEF Due
<1> HIDE DEF k
<1>4. 1 \in 1..k /\ \A i \in 1..(k - 1) : i + 1 \in 1..k /\ i + 1 # 1
  BY <1>2
<1>5. \A i, j \in 1..(k - 1) : inbox'[c][i] = inbox'[c][j] => i = j
  <2> SUFFICES ASSUME NEW i \in 1..(k - 1), NEW j \in 1..(k - 1), inbox'[c][i] = inbox'[c][j]
               PROVE  i = j
    OBVIOUS
  <2>1. i + 1 = j + 1
    BY <1>2, <1>3, <1>4
  <2> QED
    BY <2>1, <1>2
<1>6. \A i \in 1..(k - 1) : inbox'[c][i] \notin unsent[c] /\ inbox'[c][i] # m
  BY <1>2, <1>3, <1>4
<1>7. m \notin unsent[c]
  BY <1>2, <1>3, <1>4
<1>8. ASSUME NEW x, Due(c, x)' PROVE Due(c, x)
  <2>1. CASE x \in unsent[c]
    BY <1>d, <2>1
  <2>2. CASE x \notin unsent[c]
    <3>1. PICK i \in 1..(k - 1) : inbox'[c][i] = x
      BY <1>e, <1>8, <2>2
    <3>2. inbox[c][i + 1] = x /\ i + 1 \in 1..k
      BY <1>2, <1>4, <3>1
    <3> QED
      BY <1>d, <3>2
  <2> QED
    BY <2>1, <2>2
<1>9. Due(c, m) /\ ~Due(c, m)'
  BY <1>2, <1>4, <1>6, <1>7, <1>d, <1>e
<1>10. (/\ \A i, j \in 1..Len(inbox[c]) : inbox[c][i] = inbox[c][j] => i = j
        /\ \A i \in 1..Len(inbox[c]) : inbox[c][i] \notin unsent[c])'
  BY <1>2, <1>5, <1>6
<1> QED
  BY <1>8, <1>9, <1>10

LEMMA AtAnswer ==
    ASSUME RinInv, NEW c \in Clients, Answer(c)
    PROVE  ClientInv(c)'
<1>0. RinTypes /\ ClientInv(c) /\ "reader" \in Writers /\ writer[c] \in [Writers -> TaskStates]
  BY DEF RinInv, RinTypes, Writers
<1>m. PICK m : m = Head(inbox[c])
  OBVIOUS
<1>1. /\ TaskOnly(c) /\ passed'[c] = passed[c]
      /\ writer'[c] = [writer[c] EXCEPT !["reader"] = OfLine(m, 0)]
      /\ writer[c]["reader"].pc = "idle" /\ inbox[c] # <<>> /\ inbox'[c] = Tail(inbox[c])
      /\ m # "hello"
  BY <1>0, <1>m DEF Answer, Takes, Started, TaskOnly, clientVars, noticeVars, RinTypes
<1>2. /\ writer'[c]["reader"] = OfLine(m, 0)
      /\ \A t \in Writers \ {"reader"} : writer'[c][t] = writer[c][t]
  BY <1>0, <1>1
<1>3. /\ (/\ \A i, j \in 1..Len(inbox[c]) : inbox[c][i] = inbox[c][j] => i = j
          /\ \A i \in 1..Len(inbox[c]) : inbox[c][i] \notin unsent[c])'
      /\ \A x : Due(c, x)' => Due(c, x)
      /\ Due(c, m) /\ ~Due(c, m)'
  BY <1>0, <1>1, <1>m, TakesOne DEF ClientInv, TaskOnly
<1>4. Once(c)'
  <2>0. {"hello", "ask", "run"} \subseteq Writers \ {"reader"}
    BY DEF Writers
  <2>1. /\ Due(c, "hello")' => writer'[c]["hello"].pc = "off" /\ writer'[c]["ask"].pc = "off"
        /\ Due(c, "agent")' => writer'[c]["run"].pc = "off"
        /\ \A t \in Writers \ {"reader"} : writer'[c][t].item # <<"agent", 0>>
    BY <1>0, <1>2, <1>3, <2>0 DEF ClientInv, Once
  <2>2. CASE m = "agent"
    BY <1>0, <1>2, <1>3, <2>0, <2>1, <2>2 DEF ClientInv, Once
  <2>3. CASE m # "agent"
    <3>1. writer'[c]["reader"].item # <<"agent", 0>>
      BY <1>2, <2>3, LineFields
    <3> QED
      BY <1>3, <2>1, <3>1 DEF Once
  <2> QED
    BY <2>2, <2>3
<1>5. Mutex(c)' /\ RunLines(c)'
  BY <1>0, <1>1, <1>2, LineFields, TaskMutex
<1>6. Forwarded(c)' /\ Counts(c)' /\ RunKnown(c)'
  BY <1>0, <1>1, <1>2, TaskCron, TaskRun DEF Writers
<1>7. Unborn(c)'
  BY <1>0, <1>1, TaskBorn
<1> QED
  BY <1>4, <1>5, <1>6, <1>7 DEF ClientInv

LEMMA AtHello ==
    ASSUME RinInv, NEW c \in Clients, NEW known \in BOOLEAN, Hello(c, known)
    PROVE  ClientInv(c)'
<1>0. /\ RinTypes /\ ClientInv(c) /\ writer[c] \in [Writers -> TaskStates]
      /\ {"reader", "hello", "ask", "run", "cron"} \subseteq Writers
  BY DEF RinInv, RinTypes, Writers
<1>1. /\ TaskOnly(c) /\ passed'[c] = passed[c]
      /\ \/ writer'[c] = [writer[c] EXCEPT !["hello"] = OfLine("resolved", 0)]
         \/ writer'[c] = [writer[c] EXCEPT !["ask"] = OfLine("question", 0),
                                           !["hello"] = Stage("waits", "none", 0)]
      /\ writer[c]["reader"].pc = "idle" /\ inbox[c] # <<>> /\ inbox'[c] = Tail(inbox[c])
      /\ "hello" = Head(inbox[c])
  BY <1>0 DEF Hello, Takes, TaskOnly, clientVars, noticeVars, RinTypes
<1>2. /\ \A t \in Writers \ {"hello", "ask"} : writer'[c][t] = writer[c][t]
      /\ writer'[c]["hello"] = OfLine("resolved", 0) \/ writer'[c]["hello"] = Stage("waits", "none", 0)
      /\ writer'[c]["ask"] = writer[c]["ask"] \/ writer'[c]["ask"] = OfLine("question", 0)
  BY <1>0, <1>1
<1>3. /\ (/\ \A i, j \in 1..Len(inbox[c]) : inbox[c][i] = inbox[c][j] => i = j
          /\ \A i \in 1..Len(inbox[c]) : inbox[c][i] \notin unsent[c])'
      /\ \A x : Due(c, x)' => Due(c, x)
      /\ Due(c, "hello") /\ ~Due(c, "hello")'
  BY <1>0, <1>1, TakesOne DEF ClientInv, TaskOnly
<1>4. /\ writer[c]["hello"].pc = "off" /\ writer[c]["ask"].pc = "off"
      /\ \A t \in Writers \ {"reader"} : writer[c][t].item # <<"agent", 0>>
  BY <1>0, <1>3 DEF ClientInv, Once
<1>5. \A t \in {"hello", "ask"} : /\ writer'[c][t].pc # "newline"
                                  /\ writer'[c][t].item # <<"agent", 0>>
  BY <1>0, <1>2, <1>4, LineFields
<1>6. Once(c)'
  <2>1. \A t \in Writers \ {"reader"} : writer'[c][t].item # <<"agent", 0>>
    BY <1>2, <1>4, <1>5
  <2>2. /\ Due(c, "agent")' => writer'[c]["run"].pc = "off"
        /\ writer'[c]["reader"].item = <<"agent", 0>> => ~Due(c, "agent")' /\ writer'[c]["run"].pc = "off"
    BY <1>0, <1>2, <1>3 DEF ClientInv, Once
  <2> QED
    BY <1>3, <2>1, <2>2 DEF Once
<1>7. Mutex(c)' /\ RunLines(c)'
  <2>1. \A t \in Writers : \/ writer'[c][t] = writer[c][t]
                           \/ writer[c][t].pc # "newline" /\ writer'[c][t].pc # "newline"
    BY <1>2, <1>4, <1>5
  <2> QED
    BY <1>0, <1>1, <2>1, TaskMutex
<1>8. Forwarded(c)' /\ Counts(c)' /\ RunKnown(c)'
  BY <1>0, <1>1, <1>2, TaskCron, TaskRun
<1>9. Unborn(c)'
  BY <1>0, <1>1, TaskBorn
<1> QED
  BY <1>6, <1>7, <1>8, <1>9 DEF ClientInv

(* A task of a connection takes another state, its inbox stays.            *)
LEMMA TaskOnce ==
    ASSUME RinTypes, NEW c \in Clients, ClientInv(c), TaskOnly(c), inbox'[c] = inbox[c],
           NEW t \in Writers, NEW x, x.item # <<"agent", 0>>, x.pc # "off",
           writer[c][t].pc # "off",
           writer'[c] = [writer[c] EXCEPT ![t] = x]
    PROVE  /\ Once(c)' /\ writer'[c][t] = x
           /\ \A u \in Writers \ {t} : writer'[c][u] = writer[c][u]
<1>1. /\ writer'[c][t] = x
      /\ \A u \in Writers \ {t} : writer'[c][u] = writer[c][u]
  BY DEF RinTypes
<1> QED
  BY <1>1, OnceKept DEF ClientInv, TaskOnly

LEMMA AtEnds ==
    ASSUME RinInv, NEW c \in Clients, resolve_workspace(c) \/ ReaderEnds(c)
    PROVE  ClientInv(c)'
<1>0. RinTypes /\ ClientInv(c) /\ {"reader", "hello", "run", "cron"} \subseteq Writers
  BY DEF RinInv, Writers
<1>1. PICK t \in {"reader", "hello"}, x \in {OfLine("resolved", 0), Left} :
          /\ writer'[c] = [writer[c] EXCEPT ![t] = x]
          /\ writer[c][t].pc \in {"idle", "waits"}
  <2>1. CASE resolve_workspace(c)
    <3>1. writer'[c] = [writer[c] EXCEPT !["hello"] = OfLine("resolved", 0)]
      BY <1>0, <2>1 DEF resolve_workspace, RinTypes
    <3>2. writer[c]["hello"].pc = "waits"
      BY <2>1 DEF resolve_workspace
    <3> QED
      BY <3>1, <3>2
  <2>2. CASE ReaderEnds(c)
    <3>1. writer'[c] = [writer[c] EXCEPT !["reader"] = Left]
      BY <1>0, <2>2 DEF ReaderEnds, RinTypes
    <3>2. writer[c]["reader"].pc = "idle"
      BY <2>2 DEF ReaderEnds
    <3> QED
      BY <3>1, <3>2
  <2> QED
    BY <2>1, <2>2
<1>2. TaskOnly(c) /\ passed'[c] = passed[c] /\ inbox'[c] = inbox[c]
  <2>1. UNCHANGED <<clientVars, noticeVars, inbox, owner, passed, wire>>
    BY DEF resolve_workspace, ReaderEnds
  <2> QED
    BY <1>0, <1>1, <2>1 DEF TaskOnly, clientVars, noticeVars, RinTypes
<1>3. x.item # <<"agent", 0>> /\ x.pc # "off" /\ x.pc # "newline"
  BY LineFields
<1>4. /\ Once(c)' /\ writer'[c][t] = x
      /\ \A u \in Writers \ {t} : writer'[c][u] = writer[c][u]
  <2>1. t \in Writers /\ writer[c][t].pc # "off"
    BY <1>0, <1>1
  <2>2. writer'[c] = [writer[c] EXCEPT ![t] = x] /\ inbox'[c] = inbox[c] /\ TaskOnly(c)
    BY <1>1, <1>2
  <2> QED
    BY ZenonT(60), <1>0, <1>3, <2>1, <2>2, TaskOnce
<1>5. Mutex(c)' /\ RunLines(c)'
  BY <1>0, <1>1, <1>2, <1>3, <1>4, TaskMutex
<1>6. Forwarded(c)' /\ Counts(c)' /\ RunKnown(c)'
  BY <1>0, <1>2, <1>4, TaskCron, TaskRun
<1>7. Unborn(c)'
  BY <1>0, <1>1, <1>2, TaskBorn
<1> QED
  BY <1>4, <1>5, <1>6, <1>7 DEF ClientInv

LEMMA AtEvent ==
    ASSUME RinInv, NEW c \in Clients, ForwardEvent(c)
    PROVE  ClientInv(c)'
<1>0. RinTypes /\ ClientInv(c) /\ {"run", "cron"} \subseteq Writers
  BY DEF RinInv, Writers
<1>k. PICK k \in Nat : k = writer[c]["run"].item[2]
  BY <1>0, TaskFields DEF RinTypes
<1>1. /\ writer'[c] = [writer[c] EXCEPT !["run"] = OfLine("event", k + 1)]
      /\ writer[c]["run"].pc = "idle"
      /\ TaskOnly(c) /\ passed'[c] = passed[c] /\ inbox'[c] = inbox[c]
  BY <1>0, <1>k DEF ForwardEvent, TaskOnly, clientVars, noticeVars, RinTypes
<1>2. /\ OfLine("event", k + 1).item # <<"agent", 0>> /\ OfLine("event", k + 1).pc = "lock"
      /\ OfLine("event", k + 1).item[2] = k + 1
  BY LineFields
<1>3. /\ Once(c)' /\ writer'[c]["run"] = OfLine("event", k + 1)
      /\ \A u \in Writers \ {"run"} : writer'[c][u] = writer[c][u]
  BY <1>0, <1>1, <1>2, TaskOnce
<1>4. Mutex(c)' /\ RunLines(c)'
  BY <1>0, <1>1, <1>2, <1>3, TaskMutex
<1>5. Forwarded(c)' /\ Counts(c)' /\ Unborn(c)'
  BY <1>0, <1>1, <1>3, TaskCron, TaskBorn
<1>6. RunKnown(c)'
  <2> SUFFICES ASSUME socket'[c] = "open" PROVE RunKnown(c)'
    BY DEF RunKnown
  <2>1. AgentTold(c, Len(wire[c])) /\ \A n \in 1..k : EventTold(c, n, Len(wire[c]))
    BY <1>0, <1>1, <1>k DEF ClientInv, RunKnown, TaskOnly
  <2>2. AgentTold(c, Len(wire[c]))' /\ \A n \in 1..k : EventTold(c, n, Len(wire[c]))'
    BY <1>1, <2>1 DEF TaskOnly, AgentTold, EventTold
  <2>3. writer'[c]["run"].pc = "lock" /\ writer'[c]["run"].item[2] - 1 = k
    BY <1>2, <1>3
  <2> QED
    BY <2>2, <2>3 DEF RunKnown
<1> QED
  BY <1>3, <1>4, <1>5, <1>6 DEF ClientInv

LEMMA AtForward ==
    ASSUME RinInv, NEW c \in Clients, spawn_conn_cron_forwarder(c)
    PROVE  ClientInv(c)'
<1>0. RinTypes /\ ClientInv(c) /\ {"run", "cron"} \subseteq Writers
  BY DEF RinInv, Writers
<1>1. /\ TaskOnly(c) /\ inbox'[c] = inbox[c] /\ writer[c]["cron"].pc = "idle"
  BY <1>0 DEF spawn_conn_cron_forwarder, TaskOnly, clientVars, noticeVars, RinTypes
<1>2. /\ passed[c] \in Nat /\ joined[c] \in Nat /\ notices \in Nat /\ Retained \in Nat
      /\ joined[c] <= passed[c] /\ passed[c] < notices
  BY <1>0, RinAssumption DEF spawn_conn_cron_forwarder, RinTypes, ClientInv, Counts
<1> DEFINE T == Text(c, "cron")
<1>3. /\ \A i, j \in T : i < j => wire[c][i].line[2] < wire[c][j].line[2]
      /\ \A i \in T : wire[c][i].line[2] <= passed[c]
      /\ \A n \in (joined[c] + 1)..passed[c] :
            (\E i \in T : wire[c][i].line[2] = n) \/ n <= notices - Retained
  BY <1>0, <1>1 DEF ClientInv, Forwarded
<1>4. Text(c, "cron")' = T
  BY <1>1 DEF TaskOnly, Text
<1>5. \A i \in T : wire[c][i].line[2] \in Nat
  <2>1. DOMAIN wire[c] = 1..Len(wire[c]) /\ \A i \in 1..Len(wire[c]) : wire[c][i] \in Pieces
    BY <1>0 DEF RinTypes
  <2>2. \A p \in Pieces : p.line[2] \in Nat
    BY DEF Pieces
  <2> QED
    BY <2>1, <2>2 DEF Text
<1>6. Unborn(c)'
  BY <1>0, <1>1, TaskBorn
<1> HIDE DEF T
<1>7. CASE notices - passed[c] > Retained
  <2>1. writer'[c] = writer[c] /\ passed'[c] = notices - Retained
    BY <1>0, <1>7 DEF spawn_conn_cron_forwarder, CatchUp, RinTypes
  <2>2. Mutex(c)' /\ RunLines(c)' /\ RunKnown(c)'
    BY <1>0, <1>1, <2>1, TaskMutex, TaskRun
  <2>3. Once(c)'
    BY <1>0, <1>1, <2>1, OnceKept DEF ClientInv, TaskOnly
  <2>4. Counts(c)'
    BY <1>0, <1>1, <1>2, <1>7, <2>1 DEF ClientInv, Counts, TaskOnly
  <2>5. Forwarded(c)'
    <3>1. \A i \in T : wire[c][i].line[2] <= notices - Retained
      BY <1>2, <1>3, <1>5, <1>7
    <3> QED
      BY <1>1, <1>3, <1>4, <2>1, <3>1 DEF Forwarded, TaskOnly
  <2> QED
    BY <1>6, <2>2, <2>3, <2>4, <2>5 DEF ClientInv
<1>8. CASE ~(notices - passed[c] > Retained)
  <2>k. PICK k \in Nat : k = passed[c]
    BY <1>2
  <2>1. /\ writer'[c] = [writer[c] EXCEPT !["cron"] = OfLine("event", k + 1)]
        /\ passed'[c] = k + 1
    BY <1>0, <1>8, <2>k DEF spawn_conn_cron_forwarder, RinTypes
  <2>2. /\ OfLine("event", k + 1).item # <<"agent", 0>> /\ OfLine("event", k + 1).pc = "lock"
        /\ OfLine("event", k + 1).item[2] = k + 1
    BY LineFields
  <2>3. /\ Once(c)' /\ writer'[c]["cron"] = OfLine("event", k + 1)
        /\ \A u \in Writers \ {"cron"} : writer'[c][u] = writer[c][u]
    BY <1>0, <1>1, <2>1, <2>2, TaskOnce
  <2>4. Mutex(c)' /\ RunLines(c)' /\ RunKnown(c)'
    BY <1>0, <1>1, <2>2, <2>3, TaskMutex, TaskRun
  <2>5. Counts(c)'
    BY <1>0, <1>1, <1>2, <2>k, <2>1 DEF ClientInv, Counts, TaskOnly
  <2>6. Forwarded(c)'
    <3>1. \A i \in T : wire[c][i].line[2] < k + 1 /\ wire[c][i].line[2] <= k + 1
      BY <1>3, <1>5, <2>k
    <3>2. \A n \in (joined[c] + 1)..(k + 1) : n = k + 1 \/ n \in (joined[c] + 1)..k
      BY <1>2
    <3>3. writer'[c]["cron"].pc = "lock" /\ writer'[c]["cron"].item[2] = k + 1
      BY <2>2, <2>3
    <3>4. \A n \in (joined[c] + 1)..(k + 1) :
              n = k + 1 \/ (\E i \in T : wire[c][i].line[2] = n) \/ n <= notices - Retained
      BY <1>3, <2>k, <3>2
    <3>5. wire'[c] = wire[c] /\ joined'[c] = joined[c] /\ notices' = notices
      BY <1>1 DEF TaskOnly
    <3> QED
      BY <1>3, <1>4, <2>1, <3>1, <3>3, <3>4, <3>5 DEF Forwarded
  <2> QED
    BY <1>6, <2>3, <2>4, <2>5, <2>6 DEF ClientInv
<1> QED
  BY <1>7, <1>8

-----------------------------------------------------------------------------
(* The invariant of all connections.                                       *)

(* A step of one connection is none of another's.                          *)
Concerns(c) ==
    \/ handle_rin_connection(c) \/ ClientReads(c) \/ ClientCloses(c) \/ Emit(c)
    \/ \E m \in UNION Uses : Request(c, m)
    \/ RinTask(c)

LEMMA Apart ==
    ASSUME RinTypes, NEW c \in Clients, NEW d \in Clients, d # c, Concerns(c)
    PROVE  Same(d)
<1>1. CASE handle_rin_connection(c)
  BY <1>1 DEF handle_rin_connection, Same, RinTypes
<1>2. CASE ClientReads(c)
  BY <1>2 DEF ClientReads, Same, RinTypes, noticeVars
<1>3. CASE ClientCloses(c)
  BY <1>3 DEF ClientCloses, Same, RinTypes, noticeVars
<1>4. CASE Emit(c)
  BY <1>4 DEF Emit, Same, RinTypes, noticeVars, clientVars
<1>5. CASE \E m \in UNION Uses : Request(c, m)
  BY <1>5 DEF Request, Same, RinTypes, noticeVars
<1>6. ASSUME NEW t \in Writers, WriteJson(c, t) \/ WriteNewline(c, t) \/ WriteFails(c, t)
      PROVE  Same(d)
  <2>1. CASE WriteJson(c, t)
    BY <2>1 DEF WriteJson, Same, RinTypes, noticeVars, clientVars
  <2>2. CASE WriteNewline(c, t)
    BY <2>2 DEF WriteNewline, Same, RinTypes, noticeVars, clientVars
  <2>3. CASE WriteFails(c, t)
    BY <2>3 DEF WriteFails, Same, RinTypes, noticeVars, clientVars
  <2> QED
    BY <1>6, <2>1, <2>2, <2>3
<1>7. CASE spawn_conn_cron_forwarder(c)
  BY <1>7 DEF spawn_conn_cron_forwarder, Same, RinTypes, noticeVars, clientVars
<1>8. CASE Answer(c)
  BY <1>8 DEF Answer, Takes, Same, RinTypes, noticeVars, clientVars
<1>9. CASE resolve_workspace(c) \/ ReaderEnds(c)
  BY <1>9 DEF resolve_workspace, ReaderEnds, Same, RinTypes, noticeVars, clientVars
<1>10. CASE ForwardEvent(c)
  BY <1>10 DEF ForwardEvent, Same, RinTypes, noticeVars, clientVars
<1>11. ASSUME NEW known \in BOOLEAN, Hello(c, known)
       PROVE  Same(d)
  BY <1>11 DEF Hello, Takes, Same, RinTypes, noticeVars, clientVars
<1> QED
  BY <1>1, <1>2, <1>3, <1>4, <1>5, <1>6, <1>7, <1>8, <1>9, <1>10, <1>11 DEF Concerns, RinTask

LEMMA Concerned ==
    ASSUME RinInv, NEW c \in Clients, Concerns(c)
    PROVE  ClientInv(c)'
<1>1. CASE Emit(c)
  <2>1. Same(c)
    BY <1>1 DEF Emit, Same, noticeVars, clientVars
  <2> QED
    BY <2>1, Elsewhere DEF RinInv
<1>2. ASSUME NEW t \in Writers, WriteJson(c, t) \/ WriteNewline(c, t) \/ WriteFails(c, t)
      PROVE  ClientInv(c)'
  BY <1>2, AtJson, AtNewline, AtFailure
<1>3. ASSUME NEW known \in BOOLEAN, Hello(c, known)
      PROVE  ClientInv(c)'
  BY <1>3, AtHello
<1>4. ASSUME NEW m \in UNION Uses, Request(c, m)
      PROVE  ClientInv(c)'
  BY <1>4, AtRequest
<1> QED
  BY <1>1, <1>2, <1>3, <1>4, AtConnection, AtClient, AtForward, AtAnswer, AtEnds, AtEvent
     DEF Concerns, RinTask

LEMMA RinStep == RinInv /\ [RinNext]_rinVars => RinInv'
<1> SUFFICES ASSUME RinInv, [RinNext]_rinVars
             PROVE  RinInv'
  OBVIOUS
<1>1. RinTypes'
  BY TypesStep DEF RinInv
<1>2. ASSUME NEW d \in Clients
      PROVE  ClientInv(d)'
  <2>1. CASE spawn_cron_forwarder
    BY <2>1, AtNotice
  <2>2. ASSUME NEW c \in Clients, Concerns(c)
        PROVE  ClientInv(d)'
    BY <2>2, Concerned, Apart, Elsewhere DEF RinInv
  <2>3. CASE UNCHANGED rinVars
    <3>1. Same(d)
      BY <2>3 DEF Same, rinVars, clientVars, noticeVars
    <3> QED
      BY <3>1, Elsewhere DEF RinInv
  <2> QED
    BY <2>1, <2>2, <2>3 DEF RinNext, Concerns
<1> QED
  BY <1>1, <1>2 DEF RinInv

LEMMA RinStart == RinInit => RinInv
<1> SUFFICES ASSUME RinInit PROVE RinInv
  OBVIOUS
<1>1. RinTypes
  <2>1. \A c \in Clients : unsent[c] \subseteq UNION Uses
    BY DEF RinInit
  <2>2. NotYet \in TaskStates
    BY StageTypes
  <2>3. unsent \in [Clients -> SUBSET UNION Uses]
    BY <2>1 DEF RinInit
  <2>4. writer \in [Clients -> [Writers -> TaskStates]]
    BY <2>2 DEF RinInit
  <2> QED
    BY <2>3, <2>4 DEF RinInit, RinTypes
<1>2. ASSUME NEW c \in Clients
      PROVE  ClientInv(c)
  <2>1. /\ socket[c] = "none" /\ inbox[c] = <<>> /\ owner[c] = "none" /\ wire[c] = <<>>
        /\ \A t \in Writers : writer[c][t] = NotYet
        /\ notices = 0 /\ passed[c] = 0 /\ joined[c] = 0 /\ taken[c] = 0
    BY DEF RinInit
  <2>2. NotYet.pc = "off" /\ NotYet.item # <<"agent", 0>>
    BY DEF NotYet, Stage
  <2>3. {"reader", "cron", "run", "ask", "hello"} \subseteq Writers /\ "none" \notin Writers
    BY DEF Writers
  <2>4. Len(wire[c]) = 0 /\ Len(inbox[c]) = 0 /\ Room \in Nat
    BY <2>1, RinAssumption
  <2>5. Mutex(c) /\ Unborn(c) /\ RunLines(c)
    BY <2>1, <2>2, <2>3, <2>4 DEF Mutex, Unborn, RunLines
  <2>6. Once(c) /\ RunKnown(c) /\ Forwarded(c)
    BY <2>1, <2>2, <2>3, <2>4 DEF Once, RunKnown, Forwarded
  <2>7. Counts(c)
    BY <2>1, <2>4 DEF Counts
  <2> QED
    BY <2>5, <2>6, <2>7 DEF ClientInv
<1> QED
  BY <1>1, <1>2 DEF RinInv

LEMMA RinTells == RinInv => ClientTold
<1> SUFFICES ASSUME RinInv PROVE ClientTold
  OBVIOUS
<1>0. \A c \in Clients : DOMAIN wire[c] = 1..Len(wire[c]) /\ ClientInv(c)
  BY DEF RinInv, RinTypes
<1>1. RinTypeOK
  <2> SUFFICES ASSUME NEW c \in Clients
               PROVE  /\ socket[c] \in {"none", "open", "closed"} /\ Counts(c)
                      /\ \A t \in Writers : writer[c][t].pc \in Stages
    BY DEF RinTypeOK, Counts, Stages
  <2>1. \A t \in Writers : writer[c][t] \in TaskStates
    BY DEF RinInv, RinTypes
  <2> QED
    BY <1>0, <2>1, TaskFields DEF RinInv, RinTypes, ClientInv
<1>2. LinesWhole
  BY ZenonT(60), <1>0 DEF LinesWhole, ClientInv, Mutex
<1>3. RunTold
  BY ZenonT(60), <1>0 DEF RunTold, ClientInv, RunLines, AgentTold, EventTold
<1>4. NoticesKept
  BY <1>0 DEF NoticesKept, ClientInv, Forwarded
<1> QED
  BY <1>1, <1>2, <1>3, <1>4 DEF ClientTold

(* What any client reads makes sense, however the tasks of its connection  *)
(* take turns at the writer's mutex (handle_rin_connection and the tasks   *)
(* it spawns): the lines are whole, a run's events follow the line of its  *)
(* session in order and without a gap, and a cron notice is written once   *)
(* or lost to a lag of more than Retained.                                 *)
THEOREM ClientsAreTold == RinSpec => []ClientTold
<1>1. RinInit => RinInv
  BY RinStart
<1>2. RinInv /\ [RinNext]_rinVars => RinInv'
  BY RinStep
<1>3. RinInv => ClientTold
  BY RinTells
<1> QED
  BY <1>1, <1>2, <1>3, PTL DEF RinSpec

=============================================================================
