------------------------------- MODULE Memory -------------------------------
(***************************************************************************)
(* The agent's long-term memory, one table of seeds that all its sessions  *)
(* share: signals in messages (vijnana/vasana/signal.rs), facts of the     *)
(* namarupa tool, consolidation, retrieval (gen_store/seeds.rs) and the    *)
(* cleaning at the end of a run (zuowang/pipeline).  Each transaction is   *)
(* one step; what a session read before may be stale when it writes.       *)
(*                                                                         *)
(* Strengths and scores are in thousandths.  A seed is of today or older   *)
(* than a month.                                                           *)
(***************************************************************************)
EXTENDS Integers, Sequences, FiniteSets, SequencesExt, FiniteSetsExt

CONSTANTS
    SeedIds,          \* identities, 1..n
    MemSessions,      \* sessions of the agent
    Messages,         \* messages: sequences of phrases [kind, x, verb]
    OldSeeds,         \* what the table may hold at the start
    OnDemandBudget, ArchiveBudget,
    TopLimit,         \* seeds of a prompt (5)
    MaxInputs         \* bound: messages, writes, retrievals, months and cleanings

ASSUME MemAssumption ==
    /\ OnDemandBudget \in Nat /\ ArchiveBudget \in Nat /\ TopLimit \in Nat /\ MaxInputs \in Nat

VARIABLES
    seeds,     \* id -> seed, the table
    used,      \* ids given out so far
    detector,  \* session -> SignalDetector::process under way
    cleaner,   \* session -> VasanaScheduler::schedule under way
    lock,      \* Store.dissolve_lock: its holder
    recalled,  \* session -> touched_seed_ids: seeds of its last prompt
    inputs,
    stated,    \* history: keys of preferences that messages stated
    unkept     \* history: those whose last statement wrote nothing of its own

memVars == <<seeds, used, detector, cleaner, lock, recalled, inputs, stated, unkept>>

NoSeed == [there |-> FALSE]
PresentSeeds == {i \in SeedIds : seeds[i].there}

(* Seed::new; the namarupa tool makes weaker ones.                         *)
NewSeed(nature, source, key, value) ==
    [there |-> TRUE, nature |-> nature, source |-> source, key |-> key, value |-> value,
     strength |-> 1000, count |-> 0, old |-> FALSE, tier |-> "OnDemand"]

Detecting == [pc |-> "idle", existing |-> {}, signals |-> <<>>]
Cleaning == [pc |-> "idle", snapshot |-> {}]
Nobody == "nobody"

MemInit ==
    /\ seeds \in {[i \in SeedIds |-> IF i \in DOMAIN t THEN t[i] ELSE NoSeed] : t \in OldSeeds}
    /\ used = Cardinality(PresentSeeds)
    /\ detector = [s \in MemSessions |-> Detecting]
    /\ cleaner = [s \in MemSessions |-> Cleaning]
    /\ lock = Nobody /\ inputs = 0
    /\ recalled = [s \in MemSessions |-> {}]
    /\ stated = {} /\ unkept = {}

Input == inputs < MaxInputs /\ inputs' = inputs + 1

insert_seed(seed) ==
    /\ used + 1 \in SeedIds /\ used' = used + 1
    /\ seeds' = [seeds EXCEPT ![used + 1] = seed]

delete_seeds(ids) == seeds' = [i \in SeedIds |-> IF i \in ids THEN NoSeed ELSE seeds[i]]

set_tier_batch(ids, tier) ==
    seeds' = [i \in SeedIds |-> IF i \in ids /\ seeds[i].there
                                THEN [seeds[i] EXCEPT !.tier = tier] ELSE seeds[i]]

weaken_seeds(ids) ==
    seeds' = [i \in SeedIds |-> IF i \in ids /\ seeds[i].there
                                THEN [seeds[i] EXCEPT !.strength = @ \div 2] ELSE seeds[i]]

-----------------------------------------------------------------------------
(* SignalDetector::process: the seeds are loaded once for all signals.     *)

Signal(key, value, nature) == [key |-> key, value |-> value, nature |-> nature]

(* The patterns overlap: a role is also read with its verb, and a dislike  *)
(* holds a like.                                                           *)
PhraseSignals(p) ==
    CASE p.kind = "tool" -> <<Signal("tool", p.x, "Preference")>>
      [] p.kind = "role" -> <<Signal("role", p.x, "Preference"), Signal("role", p.verb, "Preference")>>
      [] p.kind = "dislike" -> <<Signal("dislikes", p.x, "Preference"), Signal("likes", p.x, "Preference")>>
      [] p.kind = "like" -> <<Signal("likes", p.x, "Preference")>>
      [] p.kind = "project" -> <<Signal("project", p.x, "Fact")>>

detect(message) == FlattenSeq([i \in DOMAIN message |-> PhraseSignals(message[i])])

LoadExisting(s, message) ==
    LET signals == detect(message)
    IN  /\ Input /\ detector[s].pc = "idle" /\ signals # <<>>
        /\ detector' = [detector EXCEPT ![s] =
             [pc |-> "next", signals |-> signals, existing |-> {[id |-> i, seed |-> seeds[i]] : i \in PresentSeeds}]]
        /\ stated' = stated \cup {signals[i].key : i \in {j \in DOMAIN signals : signals[j].nature = "Preference"}}
        /\ UNCHANGED <<seeds, used, cleaner, lock, recalled, unkept>>

Known(d) == {x \in d.existing : x.seed.key = Head(d.signals).key}
is_dup(d) == \E x \in Known(d) : x.seed.value = Head(d.signals).value
Stale(d) == {x.id : x \in {y \in Known(d) : y.seed.nature = "Preference"}}
Drop(d) == [d EXCEPT !.pc = IF Len(d.signals) = 1 THEN "idle" ELSE "next",
                     !.signals = Tail(@), !.existing = IF Len(d.signals) = 1 THEN {} ELSE @]

(* A value equal to an inferred one is a duplicate too: no preference of   *)
(* the user's is written for it.                                           *)
Inferred(d) ==
    LET equal == {x \in Known(d) : x.seed.value = Head(d.signals).value}
    IN  IF \E x \in equal : x.seed.nature = "Preference" THEN {} ELSE {x.seed.key : x \in equal}

(* Mutant: the old values are deleted before the duplicate is noticed.     *)
DeleteStale_First(s) ==
    LET d == detector[s]
    IN  /\ d.pc = "next"
        /\ IF Head(d.signals).nature = "Preference" THEN delete_seeds(Stale(d)) ELSE UNCHANGED seeds
        /\ detector' = [detector EXCEPT ![s] = IF is_dup(d) THEN Drop(d) ELSE [d EXCEPT !.pc = "insert"]]
        /\ unkept' = unkept \cup Inferred(d)
        /\ UNCHANGED <<used, cleaner, lock, recalled, inputs, stated>>

DeleteStale(s) ==
    LET d == detector[s]
    IN  /\ d.pc = "next"
        /\ IF Head(d.signals).nature = "Preference" /\ ~is_dup(d)
           THEN delete_seeds(Stale(d)) ELSE UNCHANGED seeds
        /\ detector' = [detector EXCEPT ![s] = IF is_dup(d) THEN Drop(d) ELSE [d EXCEPT !.pc = "insert"]]
        /\ unkept' = unkept \cup Inferred(d)
        /\ UNCHANGED <<used, cleaner, lock, recalled, inputs, stated>>

InsertSignal(s) ==
    LET g == Head(detector[s].signals)
    IN  /\ detector[s].pc = "insert"
        /\ insert_seed(NewSeed(g.nature, "SignalDetection", g.key, g.value))
        /\ detector' = [detector EXCEPT ![s] = Drop(detector[s])]
        /\ unkept' = unkept \ {g.key}
        /\ UNCHANGED <<cleaner, lock, recalled, inputs, stated>>

(* The store refuses the row: the old value is gone, the next signal's     *)
(* turn comes.                                                             *)
InsertFails(s) ==
    /\ detector[s].pc = "insert"
    /\ detector' = [detector EXCEPT ![s] = Drop(detector[s])]
    /\ unkept' = unkept \cup {Head(detector[s].signals).key}
    /\ UNCHANGED <<seeds, used, cleaner, lock, recalled, inputs, stated>>

-----------------------------------------------------------------------------
(* Other writers.                                                          *)

memRest == <<detector, cleaner, lock, recalled>>

handle_save ==
    /\ Input /\ insert_seed([NewSeed("Fact", "Consolidation", "fact", "fact") EXCEPT !.strength = 800])
    /\ UNCHANGED <<memRest, stated, unkept>>

(* namarupa: only what the user stated is immune.                          *)
handle_delete(i) ==
    /\ Input /\ i \in PresentSeeds /\ seeds[i].source # "UserStatement" /\ delete_seeds({i})
    /\ stated' = stated \ {seeds[i].key}
    /\ UNCHANGED <<used, memRest, unkept>>

(* Distillation: a thought that the table holds already is dropped.        *)
Distill(thought) ==
    /\ Input /\ ~\E i \in PresentSeeds : seeds[i].value = thought
    /\ insert_seed(NewSeed("Inference", "Consolidation", "thought", thought))
    /\ UNCHANGED <<memRest, stated, unkept>>

(* What a model makes of the traces: facts, and preferences under any key. *)
Inferences == {Signal("fact", "fact", "Inference")} \cup
    {[g EXCEPT !.nature = "Inference"] : g \in UNION {ToSet(detect(m)) : m \in Messages}}

Consolidate(g) ==
    /\ Input /\ insert_seed(NewSeed(g.nature, "Consolidation", g.key, g.value))
    /\ UNCHANGED <<memRest, stated, unkept>>

(* Retrieval: the prompt holds the seeds that are always in it and, when   *)
(* memory is trusted, the strongest; they are touched at the next turn.    *)
Strongest(top) ==
    /\ Cardinality(top) = IF Cardinality(PresentSeeds) < TopLimit THEN Cardinality(PresentSeeds) ELSE TopLimit
    /\ \A i \in top, j \in PresentSeeds \ top : seeds[i].strength >= seeds[j].strength

Recall(s, top) ==
    /\ Input /\ (top = {} \/ Strongest(top))
    /\ recalled' = [recalled EXCEPT ![s] = @ \cup {i \in PresentSeeds : seeds[i].tier = "Always"} \cup top]
    /\ UNCHANGED <<seeds, used, detector, cleaner, lock, stated, unkept>>

(* touch_batch: one transaction, in which whatever was used often is       *)
(* promoted, touched now or not.                                           *)
Promoted(seed) ==
    LET up == IF seed.tier = "OnDemand" /\ seed.count >= 8 THEN "Always" ELSE seed.tier
    IN  [seed EXCEPT !.tier = IF up = "Archive" /\ seed.count >= 5 THEN "OnDemand" ELSE up]

Touched(seed) ==
    [seed EXCEPT !.count = @ + 1, !.old = FALSE,
                 !.strength = IF @ + 10 > 1000 THEN 1000 ELSE @ + 10]

touch_batch(s) ==
    /\ recalled[s] # {} /\ recalled' = [recalled EXCEPT ![s] = {}]
    /\ seeds' = [i \in SeedIds |->
         IF seeds[i].there THEN Promoted(IF i \in recalled[s] THEN Touched(seeds[i]) ELSE seeds[i])
         ELSE NoSeed]
    /\ UNCHANGED <<used, detector, cleaner, lock, inputs, stated, unkept>>

(* A month passes.                                                         *)
Month ==
    /\ Input /\ \E i \in PresentSeeds : ~seeds[i].old
    /\ seeds' = [i \in SeedIds |-> IF seeds[i].there THEN [seeds[i] EXCEPT !.old = TRUE] ELSE NoSeed]
    /\ UNCHANGED <<used, memRest, stated, unkept>>

-----------------------------------------------------------------------------
(* Zuowang: dissolve works on the snapshot it took, one transaction for    *)
(* each kind of change.                                                    *)

least(a, b) == IF a < b THEN a ELSE b

relevance_score(seed) ==
    least(1000, seed.strength \div 2 + (IF seed.old THEN 9 ELSE 300) + least(50 * seed.count, 300))

Score(seed) ==
    CASE seed.nature = "Fact" -> least(1000, (relevance_score(seed) * 5) \div 4)
      [] seed.nature = "Inference" -> (relevance_score(seed) * 4) \div 5
      [] OTHER -> relevance_score(seed)

is_prot(seed) ==
    seed.source \in {"UserStatement", "RenSoul", "Handoff"} \/ seed.nature = "Preference"

(* With the lock taken and the entropy above the threshold; whether it is, *)
(* depends on ages that are left open here.                                *)
Snapshot(s) ==
    /\ Input /\ cleaner[s].pc = "idle" /\ lock = Nobody /\ PresentSeeds # {}
    /\ lock' = s
    /\ cleaner' = [cleaner EXCEPT ![s] =
         [pc |-> "delete", snapshot |-> {[id |-> i, seed |-> seeds[i]] : i \in PresentSeeds}]]
    /\ UNCHANGED <<seeds, used, detector, recalled, stated, unkept>>

(* Mutant: a preference is taken for protected, its sources are not.       *)
Selected_Unprotected(s, tier, low, high) ==
    {x.id : x \in {y \in cleaner[s].snapshot :
        y.seed.tier = tier /\ y.seed.nature # "Preference" /\ Score(y.seed) \in low..(high - 1)}}

Selected(s, tier, low, high) ==
    {x.id : x \in {y \in cleaner[s].snapshot :
        y.seed.tier = tier /\ ~is_prot(y.seed) /\ Score(y.seed) \in low..(high - 1)}}

Forgotten(s) ==
    {x.id : x \in {y \in cleaner[s].snapshot : y.seed.tier = "Always" /\ y.seed.old /\ ~is_prot(y.seed)}}

Layer(s, pc, next) ==
    /\ cleaner[s].pc = pc
    /\ cleaner' = [cleaner EXCEPT ![s].pc = next,
                                  ![s].snapshot = IF next = "budget" THEN {} ELSE @]
    /\ lock' = IF next = "budget" THEN Nobody ELSE lock
    /\ UNCHANGED <<used, detector, recalled, inputs, stated, unkept>>

dissolve(s) ==
    \/ Layer(s, "delete", "downgrade") /\ delete_seeds(Selected(s, "Archive", 0, 100))
    \/ Layer(s, "downgrade", "weaken") /\ set_tier_batch(Selected(s, "OnDemand", 0, 100), "Archive")
    \/ Layer(s, "weaken", "always") /\ weaken_seeds(Selected(s, "OnDemand", 100, 200))
    \/ Layer(s, "always", "budget") /\ set_tier_batch(Forgotten(s), "OnDemand")

(* Another session cleans, or the entropy is low.                          *)
SkipDissolve(s) ==
    /\ Input /\ cleaner[s].pc = "idle"
    /\ cleaner' = [cleaner EXCEPT ![s].pc = "budget"]
    /\ UNCHANGED <<seeds, used, detector, lock, recalled, stated, unkept>>

(* The weakest of a tier that are not protected, as many as are in excess. *)
Weakest(table, tier, budget) ==
    LET all == {i \in SeedIds : table[i].there /\ table[i].tier = tier}
        free == {i \in all : ~is_prot(table[i])}
        excess == IF Cardinality(all) > budget THEN Cardinality(all) - budget ELSE 0
    IN  {w \in SUBSET free :
            /\ Cardinality(w) = least(excess, Cardinality(free))
            /\ \A i \in w, j \in free \ w : table[i].strength <= table[j].strength}

(* Mutant: what was just demoted is not counted among the archived.        *)
enforce_tier_budgets_Before(s, down, out) ==
    /\ cleaner[s].pc = "budget"
    /\ down \in Weakest(seeds, "OnDemand", OnDemandBudget)
    /\ out \in Weakest(seeds, "Archive", ArchiveBudget)
    /\ seeds' = [i \in SeedIds |-> CASE i \in out -> NoSeed
                                     [] i \in down -> [seeds[i] EXCEPT !.tier = "Archive"]
                                     [] OTHER -> seeds[i]]
    /\ cleaner' = [cleaner EXCEPT ![s] = Cleaning]
    /\ UNCHANGED <<used, detector, lock, recalled, inputs, stated, unkept>>

(* With the gate SiMen closed nothing is enforced: out and down are empty. *)
enforce_tier_budgets(s, down, out) ==
    LET demoted == [i \in SeedIds |-> IF i \in down THEN [seeds[i] EXCEPT !.tier = "Archive"] ELSE seeds[i]]
    IN  /\ cleaner[s].pc = "budget"
        /\ down \in Weakest(seeds, "OnDemand", OnDemandBudget)
        /\ out \in Weakest(demoted, "Archive", ArchiveBudget)
        /\ seeds' = [i \in SeedIds |-> IF i \in out THEN NoSeed ELSE demoted[i]]
        /\ cleaner' = [cleaner EXCEPT ![s] = Cleaning]
        /\ UNCHANGED <<used, detector, lock, recalled, inputs, stated, unkept>>

SiMenClosed(s) ==
    /\ cleaner[s].pc = "budget" /\ cleaner' = [cleaner EXCEPT ![s] = Cleaning]
    /\ UNCHANGED <<seeds, used, detector, lock, recalled, inputs, stated, unkept>>

Clean(s) ==
    \/ Snapshot(s) \/ SkipDissolve(s) \/ dissolve(s) \/ SiMenClosed(s)
    \/ \E down, out \in SUBSET SeedIds : enforce_tier_budgets(s, down, out)

MemNext ==
    \/ handle_save \/ Month
    \/ \E g \in Inferences : Consolidate(g)
    \/ \E i \in SeedIds : handle_delete(i)
    \/ \E thought \in {"insight", "hint"} : Distill(thought)
    \/ \E s \in MemSessions :
        \/ \E m \in Messages : LoadExisting(s, m)
        \/ \E top \in SUBSET PresentSeeds : Recall(s, top)
        \/ touch_batch(s) \/ DeleteStale(s) \/ InsertSignal(s) \/ InsertFails(s) \/ Clean(s)

MemSpec == MemInit /\ [][MemNext]_memVars

-----------------------------------------------------------------------------
(* Type invariant of the table and of the sessions at work on it.          *)
MemTypeOK ==
    /\ \A i \in PresentSeeds : seeds[i].strength \in 0..1000 /\ seeds[i].tier \in {"Always", "OnDemand", "Archive"}
    /\ \A i \in SeedIds : i > used => ~seeds[i].there
    /\ \A s \in MemSessions : cleaner[s].pc \in {"delete", "downgrade", "weaken", "always"} <=> lock = s

(* A preference that a message stated and the table took is never lost:    *)
(* once the message is processed the key has a value until the agent is    *)
(* told to delete it, however the sessions' replacements, cleanings and    *)
(* budgets interleave.  A statement that wrote nothing is excepted: the    *)
(* store refused it, or it repeats what was only inferred, which cleaning  *)
(* may dissolve.                                                           *)
KeyNeverLost ==
    \A k \in stated \ unkept :
        \/ \E i \in PresentSeeds : seeds[i].key = k
        \/ \E s \in MemSessions : detector[s].pc # "idle"

(* Cleaning leaves a protected seed as it is, whatever it read before.     *)
ProtectedKept ==
    [][\A i \in SeedIds : seeds[i].there /\ is_prot(seeds[i])
        /\ (\E s \in MemSessions : cleaner'[s].pc # cleaner[s].pc) => seeds'[i] = seeds[i]]_memVars

(* When the budgets were enforced, a tier over its budget holds protected  *)
(* seeds only, and the archive is counted with what was just demoted.      *)
BudgetsHold ==
    [][\A s \in MemSessions : cleaner[s].pc = "budget" /\ cleaner'[s].pc = "idle" /\ seeds' # seeds =>
        \A t \in {<<"OnDemand", OnDemandBudget>>, <<"Archive", ArchiveBudget>>} :
            LET tier == {i \in SeedIds : seeds'[i].there /\ seeds'[i].tier = t[1]}
            IN  Cardinality(tier) <= t[2] \/ \A i \in tier : is_prot(seeds'[i])]_memVars

-----------------------------------------------------------------------------
(***************************************************************************)
(* Triples in memory as a graph (gen_store/graph.rs) and the disorder that *)
(* Zuowang measures in them (zuowang/trigger/mod.rs).  One step is a hop   *)
(* of the breadth-first search, or one seed of the passes over the table.  *)
(***************************************************************************)

CONSTANTS
    Entities, Predicates,
    Anchors,       \* entities a search starts from
    MaxTriples,    \* bound: triples in memory
    MaxHops,       \* bound: hops
    Limits         \* values of max_per_hop

ASSUME GraphAssumption == Anchors \subseteq Entities /\ MaxTriples \in Nat /\ MaxHops \in Nat

Triple == [subject : Entities, predicate : Predicates, object : Entities]
NoFilter == "none"
AssertionKeys == Entities \X Predicates

VARIABLES
    triples,   \* the table, in its order
    search,    \* [limit, filter, hop, found, anchors, seen]
    scan       \* the pass over the table: values met and counts, per key

graphVars == <<triples, search, scan>>

GraphInit ==
    /\ triples \in [1..MaxTriples -> Triple]
    /\ \E l \in Limits, f \in Predicates \cup {NoFilter} :
        search = [limit |-> l, filter |-> f, hop |-> 0, found |-> {}, anchors |-> Anchors, seen |-> Anchors]
    /\ scan = [next |-> 1, values |-> [k \in AssertionKeys |-> {}], pairs |-> [k \in AssertionKeys |-> 0]]

-----------------------------------------------------------------------------
Ends(t) == {triples[t].subject, triples[t].object}

Matching(entities) ==
    {t \in DOMAIN triples : Ends(t) \cap entities # {}
                            /\ search.filter \in {NoFilter, triples[t].predicate}}

(* LIMIT without an order: any rows, those found before included.          *)
search_entities_batch(entities) ==
    {rows \in SUBSET Matching(entities) :
        Cardinality(rows) = IF Cardinality(Matching(entities)) < search.limit
                            THEN Cardinality(Matching(entities)) ELSE search.limit}

Visited == {x.id : x \in search.found}

(* Mutant: edges are followed from subject to object only.                 *)
NextAnchors_Forward(rows) == {triples[t].object : t \in rows \ Visited} \ search.seen

(* Neighbours are taken from new triples, and followed once.               *)
NextAnchors(rows) == UNION {Ends(t) : t \in rows \ Visited} \ search.seen

graph_expand_multi(rows) ==
    /\ scan.next > MaxTriples    \* the pass comes first here
    /\ search.hop <= MaxHops /\ search.anchors # {}
    /\ rows \in search_entities_batch(search.anchors)
    /\ search' = [search EXCEPT !.hop = @ + 1,
                    !.found = @ \cup {[id |-> t, hop |-> search.hop] : t \in rows \ Visited},
                    !.anchors = NextAnchors(rows), !.seen = @ \cup NextAnchors(rows)]
    /\ UNCHANGED <<triples, scan>>

(* compute_contradiction and find_contradicting_triples meet the objects   *)
(* of (subject, predicate); compute_redundancy counts (object, predicate). *)
Assertion(t) == <<triples[t].subject, triples[t].predicate>>

(* Mutant: the value that starts a set of two is not kept.                 *)
AddValue_Latest(values, v) == {v}

AddValue(values, v) == values \cup {v}

ScanSeed ==
    LET t == scan.next
        redundant == <<triples[t].object, triples[t].predicate>>
    IN  /\ t <= MaxTriples
        /\ scan' = [next |-> t + 1,
                    values |-> [scan.values EXCEPT ![Assertion(t)] = AddValue(@, triples[t].object)],
                    pairs |-> [scan.pairs EXCEPT ![redundant] = @ + 1]]
        /\ UNCHANGED <<triples, search>>

GraphNext == ScanSeed \/ \E rows \in SUBSET DOMAIN triples : graph_expand_multi(rows)

GraphSpec == GraphInit /\ [][GraphNext]_graphVars

(* The numbers that the entropy is made of.                                *)
conflict_count ==
    MapThenSumSet(LAMBDA k : Cardinality(scan.values[k]) - 1, {k \in AssertionKeys : scan.values[k] # {}})

redundant_count ==
    MapThenSumSet(LAMBDA k : scan.pairs[k] - 1, {k \in AssertionKeys : scan.pairs[k] > 1})

-----------------------------------------------------------------------------
(* Distances in the graph, by paths: the reference.                        *)
Linked(S) == S \cup UNION {Ends(t) : t \in {u \in Matching(Entities) : Ends(u) \cap S # {}}}
Within[h \in 0..MaxHops] == IF h = 0 THEN Anchors ELSE Linked(Within[h - 1])
Near(h) == {t \in Matching(Entities) : Ends(t) \cap Within[h] # {}}

(* A search that its limit does not cut finds exactly the triples within   *)
(* its hops, each at its distance; one that is cut claims no triple nearer *)
(* than it is, and none twice.                                             *)
HopsAreDistances ==
    /\ \A x \in search.found : x.id \in Near(x.hop)
    /\ \A x, y \in search.found : x.id = y.id => x = y
    /\ search.limit >= MaxTriples /\ search.hop > 0 =>
        \A h \in 0..(search.hop - 1) : {x.id : x \in {y \in search.found : y.hop <= h}} = Near(h)

(* After a pass, the conflicts counted are zero exactly when no two        *)
(* triples contradict each other, a key is reported as conflicting exactly *)
(* when two of its objects differ, and what is counted as redundant is     *)
(* what could go with every (predicate, object) still in the table.        *)
ConflictsFound ==
    scan.next > MaxTriples =>
        /\ conflict_count = 0 <=> ~\E t, u \in DOMAIN triples :
            Assertion(t) = Assertion(u) /\ triples[t].object # triples[u].object
        /\ \A k \in AssertionKeys : Cardinality(scan.values[k]) >= 2 <=>
            \E t, u \in DOMAIN triples : Assertion(t) = k /\ Assertion(u) = k
                                         /\ triples[t].object # triples[u].object
        /\ redundant_count = MaxTriples - Cardinality({<<triples[t].predicate, triples[t].object>> : t \in DOMAIN triples})
=============================================================================
