----------------------------- MODULE Compaction -----------------------------
(***************************************************************************)
(* Context compaction: the window arithmetic of                            *)
(* kernel/src/palaces/xun_context (mod.rs, handoff.rs) and the rewriting   *)
(* of the history by the agent loop (loop.rs).  Before an LLM call whose   *)
(* context exceeds the threshold, a range of old entries is replaced by a  *)
(* handoff note that an LLM writes from them, with the user's own words    *)
(* kept as a budget allows; if no note can be had, fit() is to drop the    *)
(* oldest messages instead.                                                *)
(*                                                                         *)
(* An entry is [kind, id, size]; ids number what was said, a note or an    *)
(* elision marker has id 0.  Sizes are tokens.                             *)
(***************************************************************************)
EXTENDS Integers, Sequences, FiniteSets, FiniteSetsExt, SequencesExt

CONSTANTS
    Kinds,         \* what is said: "user" and "assistant", or "tool" as well
    Sizes,         \* tokens of an entry
    Limit,         \* max_tokens * compaction_threshold
    SystemTokens,  \* the system prompt
    NoteSize,      \* tokens of a handoff note
    MarkerSize,    \* tokens of an elision marker
    HeadBudget,    \* PRESERVED_HEAD_TOKENS
    UserBudget,    \* PRESERVED_USER_TOKEN_BUDGET
    MaxFailures,   \* bound: failed attempts at one note; 4 is all of them
    MaxEntries     \* bound: entries said

ASSUME KindsAssumption ==
    {"user", "assistant"} \subseteq Kinds /\ Kinds \subseteq {"user", "assistant", "tool"}
ASSUME SizesAssumption ==
    /\ Sizes \subseteq Nat \ {0}
    /\ {Limit, SystemTokens, NoteSize, MarkerSize, HeadBudget, UserBudget,
        MaxEntries} \subseteq Nat
    /\ MaxFailures \in 0..4

VARIABLES
    history,
    said,      \* entries said so far
    turn,      \* turn_count
    cc,        \* the last compaction: turn, tokens before, tokens after
    asked,     \* history variable: ids of the user's messages
    offered,   \* history variable: ids given to the summariser for a note
    shed,      \* history variable: ids a degraded attempt left out
    trimmed    \* history variable: ids the fallback cut off

vars == <<history, said, turn, cc, asked, offered, shed, trimmed>>

Tokens(s) == FoldLeft(LAMBDA n, e : n + e.size, 0, s)

Note == [kind |-> "system", id |-> 0, size |-> NoteSize]
Marker == [kind |-> "system", id |-> 0, size |-> MarkerSize]

IsMessage(e) == e.kind # "tool"
RoleIsUser(e) == e.kind \in {"user", "tool"}    \* to_llm_message

-----------------------------------------------------------------------------
(* What fit() and victim_range would take from a message list, oldest      *)
(* first; a leading system message stays.                                  *)

FirstIsSystem(msgs) == msgs # <<>> /\ msgs[1].kind = "system"
Removable(msgs) == IF FirstIsSystem(msgs) THEN 2 ELSE 1
MinLen(msgs) == IF FirstIsSystem(msgs) THEN 2 ELSE 1

Remaining(msgs, n) ==
    LET first == Removable(msgs)
    IN  Tokens(msgs) - Tokens(SubSeq(msgs, first, first + n - 1))

EnoughTaken(msgs, n) ==
    Len(msgs) - n <= MinLen(msgs) \/ Remaining(msgs, n) <= Limit

(* The count of fit: messages it drops. *)
fit(msgs) == Min({n \in 0..Len(msgs) : EnoughTaken(msgs, n)})

LastUserRole(msgs) == Max({0} \cup {i \in 1..Len(msgs) : RoleIsUser(msgs[i])})

victim_range(msgs) ==
    LET first == Removable(msgs)
        last == LastUserRole(msgs)
        stops(n) == \/ EnoughTaken(msgs, n)
                    \/ first + n > Len(msgs)
                    \/ last # 0 /\ first + n >= last
    IN  [start |-> first,
         count |-> IF Len(msgs) <= MinLen(msgs) THEN 0
                   ELSE Min({n \in 0..Len(msgs) : stops(n)})]

(* Mutant: an opening message beyond the head budget is not kept.          *)
select_preserved_users_NoAnchor(entries) ==
    LET users == SelectSeq([i \in 1..Len(entries) |-> i],
                           LAMBDA i : entries[i].kind = "user")
        n == Len(users)
        size(from, to) == Tokens([k \in 1..(to - from + 1) |->
                                    entries[users[from + k - 1]]])
        head == Max({0} \cup {h \in 1..n : size(1, h) <= HeadBudget})
        tail == Max({0} \cup {t \in 1..(n - head) :
                                size(1, head) + size(n - t + 1, n) <= UserBudget})
    IN  {users[k] : k \in (1..head) \cup ((n - tail + 1)..n)}

(* The user messages kept as they are: the first ones within the head      *)
(* budget, at least one, then the last ones within the whole budget.       *)
select_preserved_users(entries) ==
    LET users == SelectSeq([i \in 1..Len(entries) |-> i],
                           LAMBDA i : entries[i].kind = "user")
        n == Len(users)
        size(from, to) == Tokens([k \in 1..(to - from + 1) |->
                                    entries[users[from + k - 1]]])
        head == Max({0} \cup {h \in 1..n : h = 1 \/ size(1, h) <= HeadBudget})
        tail == Max({0} \cup {t \in 1..(n - head) :
                                size(1, head) + size(n - t + 1, n) <= UserBudget})
    IN  {users[k] : k \in (1..head) \cup ((n - tail + 1)..n)}

anti_thrash_skip(now) ==
    /\ cc.turn # 0
    /\ now - cc.turn <= 2
    /\ cc.before > 0
    /\ 100 * Max({0, cc.before - cc.after}) < 10 * cc.before

-----------------------------------------------------------------------------
(* The rewriting.  The range is computed over all messages, tool results   *)
(* included, and then applied to the entries that are not tool cards.      *)

MessagesOf(h) == SelectSeq([i \in 1..Len(h) |-> i], LAMBDA i : IsMessage(h[i]))

(* at: places of the message entries; entries: the ones to be replaced;    *)
(* keep: those of them kept as they are; victims: what the summariser is   *)
(* given.                                                                  *)
Plan(h) ==
    LET range == victim_range(h)
        at == MessagesOf(h)
        room == Len(at) - (range.start - 1)
        count == Max({0, Min({range.count, room})})
        entries == [i \in 1..count |-> h[at[range.start + i - 1]]]
        keep == select_preserved_users(entries)
    IN  [start |-> range.start, count |-> count, at |-> at,
         entries |-> entries, keep |-> keep,
         victims |-> LET v == SelectSeq([i \in 1..count |-> i], LAMBDA i : i \notin keep)
                     IN  [k \in 1..Len(v) |-> h[range.start + v[k] - 1]]]

(* How many of n victims, the latest, the attempt after f failures is      *)
(* given: all of them, then DEGRADE_RATIOS of them, rounded up.            *)
BatchLen(f, n) ==
    CASE f = 0 -> n
      [] f = 1 -> (70 * n + 99) \div 100
      [] f = 2 -> (50 * n + 99) \div 100
      [] f = 3 -> (35 * n + 99) \div 100

IdsOf(s) == {s[i].id : i \in 1..Len(s)}

(* Mutant: the recent messages are put before the opening ones.            *)
Replacement_TailFirst(p) ==
    LET head == Max({n \in 0..p.count : 1..n \subseteq p.keep})
        elided == {i \in 1..p.count : p.entries[i].kind = "user"} \ p.keep
        later == SelectSeq([i \in 1..p.count |-> i],
                           LAMBDA i : i > head /\ i \in p.keep)
    IN  <<Note>> \o [k \in 1..Len(later) |-> p.entries[later[k]]]
            \o (IF elided = {} THEN <<>> ELSE <<Marker>>)
            \o SubSeq(p.entries, 1, head)

Replacement(p) ==
    LET head == Max({n \in 0..p.count : 1..n \subseteq p.keep})
        elided == {i \in 1..p.count : p.entries[i].kind = "user"} \ p.keep
        later == SelectSeq([i \in 1..p.count |-> i],
                           LAMBDA i : i > head /\ i \in p.keep)
    IN  <<Note>> \o SubSeq(p.entries, 1, head)
            \o (IF elided = {} THEN <<>> ELSE <<Marker>>)
            \o [k \in 1..Len(later) |-> p.entries[later[k]]]

(* Mutant: the splice ends one entry too late.                             *)
Spliced_OneTooMany(h, p) ==
    SubSeq(h, 1, p.at[p.start] - 1) \o Replacement(p)
        \o SubSeq(h, p.at[p.start + p.count - 1] + 2, Len(h))

Spliced(h, p) ==
    SubSeq(h, 1, p.at[p.start] - 1) \o Replacement(p)
        \o SubSeq(h, p.at[p.start + p.count - 1] + 1, Len(h))

(* The fallback keeps as many messages as fit() left.                      *)
FitHistory(h) ==
    LET left == Len(h) - fit(h)
        at == MessagesOf(h)
        kept == {at[k] : k \in 1..Min({left, Len(at)})}
        stay == SelectSeq([i \in 1..Len(h) |-> i],
                          LAMBDA i : i \in kept \/ ~IsMessage(h[i]))
    IN  [k \in 1..Len(stay) |-> h[stay[k]]]

-----------------------------------------------------------------------------
NoCompaction == [turn |-> 0, before |-> 0, after |-> 0]

Init ==
    /\ history = <<>>
    /\ said = 0 /\ turn = 0 /\ asked = {}
    /\ cc = NoCompaction
    /\ offered = {} /\ shed = {} /\ trimmed = {}

LastKind == IF history = <<>> THEN "none" ELSE Last(history).kind

(* The conversation: the user's messages, steers among them, the model's   *)
(* answers, one per turn, and the tools each answer calls.                 *)
Say(kind, size) ==
    /\ history # <<>>
    /\ said < MaxEntries
    /\ kind = "tool" => LastKind \in {"assistant", "tool"}
    /\ kind = "assistant" => LastKind # "assistant"
    /\ said' = said + 1
    /\ history' = Append(history, [kind |-> kind, id |-> said + 1, size |-> size])
    /\ asked' = IF kind = "user" THEN asked \cup {said + 1} ELSE asked
    /\ turn' = IF kind = "assistant" THEN turn + 1 ELSE turn
    /\ UNCHANGED <<cc, offered, shed, trimmed>>

(* A message that starts a run: Agent::with_session counts from nothing.   *)
with_session(size) ==
    /\ said < MaxEntries
    /\ said' = said + 1
    /\ history' = Append(history, [kind |-> "user", id |-> said + 1, size |-> size])
    /\ asked' = asked \cup {said + 1}
    /\ turn' = 0
    /\ cc' = NoCompaction
    /\ UNCHANGED <<offered, shed, trimmed>>

(* Compaction is considered before the LLM call of the next turn.          *)
OverThreshold ==
    /\ history # <<>>
    /\ LastKind # "assistant"
    /\ SystemTokens + Tokens(history) > Limit
    /\ cc.turn # turn + 1
    /\ ~anti_thrash_skip(turn + 1)

(* Mutant: the saving is recorded where the new size belongs.              *)
Rewrite_Saving(h) ==
    /\ history' = h
    /\ cc' = [turn |-> turn + 1, before |-> SystemTokens + Tokens(history),
              after |-> Tokens(h) - Tokens(history)]
    /\ UNCHANGED <<said, turn, asked>>

Rewrite(h) ==
    /\ history' = h
    /\ cc' = [turn |-> turn + 1, before |-> SystemTokens + Tokens(history),
              after |-> SystemTokens + Tokens(h)]
    /\ UNCHANGED <<said, turn, asked>>

(* summarize_with_degradation: a note is accepted after f failures.        *)
Summarise(f) ==
    /\ OverThreshold
    /\ \E p \in {Plan(history)} :
          LET n == Len(p.victims)
              rest == n - BatchLen(f, n)
          IN  /\ p.count > 0
              /\ n > 0
              /\ Rewrite(Spliced(history, p))
              /\ offered' = offered \cup IdsOf(SubSeq(p.victims, rest + 1, n))
              /\ shed' = shed \cup IdsOf(SubSeq(p.victims, 1, rest))
              /\ UNCHANGED trimmed

(* Every attempt has failed.                                               *)
FallBackToFit ==
    /\ MaxFailures = 4
    /\ OverThreshold
    /\ \E p \in {Plan(history)} : p.count > 0 /\ p.victims # <<>>
    /\ Rewrite(FitHistory(history))
    /\ trimmed' = trimmed \cup (IdsOf(history) \ IdsOf(FitHistory(history)))
    /\ UNCHANGED <<offered, shed>>

Next ==
    \/ \E n \in Sizes : with_session(n)
    \/ \E k \in Kinds, n \in Sizes : Say(k, n)
    \/ \E f \in 0..Min({MaxFailures, 3}) : Summarise(f)
    \/ FallBackToFit

Spec == Init /\ [][Next]_vars

-----------------------------------------------------------------------------
(* Properties. *)

TypeOK ==
    /\ history \in Seq([kind : {"user", "assistant", "tool", "system"},
                        id : 0..said, size : Nat])
    /\ said \in 0..MaxEntries
    /\ turn \in 0..said
    /\ asked \subseteq 1..said
    /\ cc \in [turn : 0..(said + 1), before : Nat, after : Nat]
    /\ offered \subseteq 0..said /\ shed \subseteq 0..said
    /\ trimmed \subseteq 0..said

Present == IdsOf(history)

(* Nothing that was said vanishes unseen: what has left the history was    *)
(* given to a summariser whose note took its place, was left out of a      *)
(* degraded attempt, or was cut off by the fallback.                       *)
NothingForgotten == (1..said) \subseteq Present \cup offered \cup shed \cup trimmed

(* The words the user opened the session with survive every compaction     *)
(* that ends with a note, a degraded one too: they anchor the intent.      *)
OpeningKept == asked # {} => Min(asked) \in Present \cup trimmed

(* However often the history is rewritten, what is left of it is in the    *)
(* order in which it was said, and at most two notes lead it.              *)
HistoryInOrder ==
    /\ \A i, j \in 1..Len(history) :
          i < j /\ history[i].id # 0 /\ history[j].id # 0
              => history[i].id < history[j].id
    /\ Cardinality({i \in 1..Len(history) : history[i] = Note}) <= 2

(* Compaction keeps the conversation: what leaves it was summarised or     *)
(* knowingly left out, the rest stays in order, and the request it began   *)
(* with stays.                                                             *)
HistoryKept == TypeOK /\ NothingForgotten /\ HistoryInOrder /\ OpeningKept
=============================================================================
