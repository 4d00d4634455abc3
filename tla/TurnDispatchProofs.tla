------------------------- MODULE TurnDispatchProofs -------------------------
(***************************************************************************)
(* Proofs about TurnDispatch, for any calls, any number of them, and any   *)
(* limits: what runs at the same time does not conflict, and nothing that  *)
(* ran is left out of the accounts.                                        *)
(***************************************************************************)
EXTENDS TurnDispatch, FiniteSetTheorems

-----------------------------------------------------------------------------
(* The inductive invariant.                                                *)

(* The numbers from lo + 1 to hi, in order.                                *)
Interval(lo, hi) == [k \in 1..(hi - lo) |-> lo + k]

(* The batches B are the numbers from lo + 1 to hi, cut into pieces that   *)
(* are not empty.                                                          *)
Chain(B, lo, hi) ==
    \E e \in [0..Len(B) -> 0..hi] :
        /\ e[0] = lo /\ e[Len(B)] = hi
        /\ \A j \in 1..Len(B) : e[j - 1] < e[j] /\ B[j] = Interval(e[j - 1], e[j])

Apart(S) == \A i, j \in S : i # j => ~accesses_conflict(Acc(i), Acc(j))

OnlyReads(c) == ~c.acc.all /\ c.acc.writes = {} /\ c.direct

NoDuplicates(s) == \A m, n \in 1..Len(s) : s[m] = s[n] => m = n

(* The outcome that a call leaves in the history, or none if it was cut.   *)
Settled(i) ==
    /\ out[i] # "none"
    /\ out[i] # "cut" <=> task[i] \in {"ok", "err"} \/ out[i] = "denied"

Untouched(i) == task[i] = "none" /\ out[i] = "none"

(* Before the batches: what runs is what was dispatched beside the stream, *)
(* and only reads.                                                         *)
StreamSlot(i) ==
    /\ slot[i] = "running" => task[i] # "none" /\ out[i] = "none" /\ OnlyReads(calls[i])
    /\ slot[i] # "running" => task[i] = "none"
    /\ slot[i] = "done" => out[i] = "denied"
    /\ slot[i] \in {"none", "gated"} => out[i] = "none"
    /\ slot[i] = "none" => repeatStop

StreamInv ==
    /\ batches = <<>> /\ waiting = <<>> /\ history = <<>>
    /\ \A i \in Indices : StreamSlot(i)
    /\ \A i \in Range(started) : slot[i] = "running"

(* The history up to the call k.                                           *)
Recorded(k) == history = At(Interval(0, k), {i \in 1..k : out[i] # "cut"})

BatchInv(k) ==
    /\ Chain(batches, k, Len(calls)) /\ Recorded(k)
    /\ \A b \in Range(batches) : Apart(Range(b))
    /\ \A i \in Indices : slot[i] \in {"gated", "done"}
    /\ \A i \in Indices : i <= k \/ slot[i] = "done" => Settled(i)
    /\ Live \subseteq {i \in Indices : i > k /\ slot[i] = "gated"}

PrepareInv(k) ==
    /\ BatchInv(k) /\ Live = {}
    /\ \A i \in Indices : i > k /\ slot[i] = "gated" => Untouched(i)

ExecuteInv(k) ==
    /\ BatchInv(k) /\ batches # <<>>
    /\ \A i \in Indices : i > k /\ slot[i] = "gated" =>
          /\ i \notin Range(Head(batches)) => Untouched(i)
          /\ out[i] \in {"none", "denied"} /\ (out[i] = "denied" => task[i] = "none")
    /\ Live \subseteq Range(Head(batches))
    /\ NoDuplicates(waiting)
    /\ \A i \in Range(waiting) : i \in Prepared /\ Untouched(i)

GuardInv == checkpoint.streak < ForceStop /\ (repeatStop \/ guard.streak < ForceStop)

Reported ==
    /\ Range(emitted) = {i \in Indices : out[i] # "none"}
    /\ NoDuplicates(emitted)

Accounts ==
    history = InOrder({i \in Indices : task[i] \in {"ok", "err"} \/ out[i] = "denied"})

PhaseInv ==
    /\ pc \in {"stream", "drain"} => StreamInv
    /\ pc = "prepare" => \E k \in 0..Len(calls) : PrepareInv(k)
    /\ pc = "execute" => \E k \in 0..Len(calls) : ExecuteInv(k)
    /\ pc = "end" => Live = {} /\ Accounts /\ Range(history) \subseteq Range(emitted)
    /\ pc = "returned" => Live = {}

DispatchInv ==
    /\ TypeOK /\ GuardInv /\ Reported /\ PhaseInv
    /\ Cardinality(Live) <= MaxConc
    /\ \A c \in discarded : OnlyReads(c)
-----------------------------------------------------------------------------
(* Sequences: parts of a concatenation, intervals, windows.                *)

LEMMA Concat ==
    ASSUME NEW X, NEW s \in Seq(X), NEW t \in Seq(X), NEW u, u = s \o t
    PROVE  /\ u \in Seq(X) /\ Len(u) = Len(s) + Len(t) /\ Len(s) \in Nat /\ Len(t) \in Nat
           /\ \A i \in 1..Len(s) : u[i] = s[i]
           /\ \A i \in 1..Len(t) : u[Len(s) + i] = t[i]
<1>1. Len(s) \in Nat /\ Len(t) \in Nat
  OBVIOUS
<1>2. /\ s \o t \in Seq(X) /\ Len(s \o t) = Len(s) + Len(t)
      /\ \A i \in 1..(Len(s) + Len(t)) : (s \o t)[i] = IF i <= Len(s) THEN s[i] ELSE t[i - Len(s)]
  BY ConcatProperties
<1>3. ASSUME NEW i \in 1..Len(t) PROVE u[Len(s) + i] = t[i]
  <2>1. /\ Len(s) + i \in 1..(Len(s) + Len(t)) /\ ~(Len(s) + i <= Len(s))
        /\ (Len(s) + i) - Len(s) = i
    BY <1>1
  <2> QED
    BY <1>2, <2>1
<1> QED
  BY <1>1, <1>2, <1>3

(* What is selected of a concatenation is what is selected of its parts.   *)
LEMMA AtConcat ==
    ASSUME NEW X, NEW s \in Seq(X), NEW t \in Seq(X), NEW I, NEW J,
           \A n \in 1..Len(t) : n \in J <=> Len(s) + n \in I
    PROVE  At(s \o t, I) = At(s, I) \o At(t, J)
<1>u. PICK u : u = s \o t
  OBVIOUS
<1>0. /\ u \in Seq(X) /\ Len(u) = Len(s) + Len(t) /\ Len(s) \in Nat /\ Len(t) \in Nat
      /\ \A i \in 1..Len(s) : u[i] = s[i]
      /\ \A i \in 1..Len(t) : u[Len(s) + i] = t[i]
  BY <1>u, Concat
<1>1. PICK f : /\ At(s, I) = f[Len(s)] /\ f[0] = <<>>
               /\ \A n \in 1..Len(s) : f[n] = IF n \in I THEN Append(f[n - 1], s[n]) ELSE f[n - 1]
  BY AtPick
<1>2. PICK h : /\ At(t, J) = h[Len(t)] /\ h[0] = <<>>
               /\ \A n \in 1..Len(t) : h[n] = IF n \in J THEN Append(h[n - 1], t[n]) ELSE h[n - 1]
  BY AtPick
<1>3. PICK g : /\ At(u, I) = g[Len(u)] /\ g[0] = <<>>
               /\ \A n \in 1..Len(u) : g[n] = IF n \in I THEN Append(g[n - 1], u[n]) ELSE g[n - 1]
  <2>1. u \in Seq(X)
    BY <1>0
  <2> QED
    BY <2>1, AtPick
<1>e. <<>> \in Seq(X)
  OBVIOUS
<1> DEFINE F == {n \in 0..Len(s) : f[n] \in Seq(X) /\ g[n] = f[n]}
<1>4. 0..Len(s) \subseteq F
  <2>1. 0 \in F
    <3>1. f[0] \in Seq(X) /\ g[0] = f[0] /\ 0 \in 0..Len(s)
      BY <1>e, <1>0, <1>1, <1>3
    <3> QED BY <3>1
  <2>2. ASSUME NEW n \in 1..Len(s), n - 1 \in F PROVE n \in F
    <3>1. n \in 1..Len(u) /\ u[n] = s[n] /\ s[n] \in X /\ n \in 0..Len(s)
      BY <1>0
    <3>2. f[n - 1] \in Seq(X) /\ g[n - 1] = f[n - 1]
      BY <2>2
    <3>3. Append(f[n - 1], s[n]) \in Seq(X)
      BY <3>1, <3>2
    <3>4. f[n] \in Seq(X)
      BY <3>2, <3>3, <1>1
    <3>5. g[n] = f[n]
      BY <3>1, <3>2, <1>1, <1>3
    <3> QED BY <3>1, <3>4, <3>5
  <2> HIDE DEF F
  <2> QED BY <2>1, <2>2, <1>0, Induction
<1>5. PICK p : p = f[Len(s)] /\ p \in Seq(X) /\ g[Len(s)] = p
  <2>1. Len(s) \in F
    BY <1>0, <1>4
  <2> QED
    BY <2>1
<1> HIDE DEF F
<1> DEFINE IsJoin(u_, q) == /\ u_ \in Seq(X) /\ q \in Seq(X) /\ Len(u_) = Len(p) + Len(q)
                            /\ \A i \in 1..Len(p) : u_[i] = p[i]
                            /\ \A i \in 1..Len(q) : u_[Len(p) + i] = q[i]
           H == {n \in 0..Len(t) : IsJoin(g[Len(s) + n], h[n])}
<1>p. Len(p) \in Nat
  BY <1>5
<1>6. 0..Len(t) \subseteq H
  <2>1. 0 \in H
    <3>1. Len(s) + 0 = Len(s) /\ 0 \in 0..Len(t)
      BY <1>0
    <3>2. IsJoin(p, <<>>)
      BY <1>e, <1>5, <1>p
    <3> QED BY <3>1, <3>2, <1>2, <1>5
  <2>2. ASSUME NEW n \in 1..Len(t), n - 1 \in H PROVE n \in H
    <3>0. PICK m : m = Len(s) + n
      OBVIOUS
    <3>1. /\ m \in 1..Len(u) /\ m - 1 = Len(s) + (n - 1) /\ u[m] = t[n] /\ t[n] \in X
          /\ n \in 0..Len(t)
      BY <3>0, <1>0
    <3>i. IsJoin(g[m - 1], h[n - 1])
      BY <2>2, <3>1, SMTT(40)
    <3>2. PICK q, r : q = h[n - 1] /\ r = g[m - 1] /\ IsJoin(r, q)
      <4> HIDE DEF IsJoin
      <4> QED BY <3>i
    <3>3. m \in I <=> n \in J
      BY <3>0
    <3>x. PICK x \in X : x = t[n]
      BY <3>1
    <3>4. g[m] = IF m \in I THEN Append(r, x) ELSE r
      BY <3>1, <3>2, <3>x, <1>3
    <3>5. h[n] = IF n \in J THEN Append(q, x) ELSE q
      BY <3>2, <3>x, <1>2
    <3>6. IsJoin(Append(r, x), Append(q, x))
      <4>1. /\ r \in Seq(X) /\ q \in Seq(X) /\ Len(r) = Len(p) + Len(q)
            /\ \A i \in 1..Len(p) : r[i] = p[i]
            /\ \A i \in 1..Len(q) : r[Len(p) + i] = q[i]
            /\ Len(r) \in Nat /\ Len(q) \in Nat
        BY <3>2
      <4>2. PICK a, b : a = Append(r, x) /\ b = Append(q, x)
        OBVIOUS
      <4>3. /\ a \in Seq(X) /\ Len(a) = Len(r) + 1 /\ a[Len(r) + 1] = x
            /\ \A i \in 1..Len(r) : a[i] = r[i]
        <5>1. r \in Seq(X) /\ a = Append(r, x)
          BY <4>1, <4>2
        <5> QED BY <5>1, AppendProperties
      <4>4. /\ b \in Seq(X) /\ Len(b) = Len(q) + 1 /\ b[Len(q) + 1] = x
            /\ \A i \in 1..Len(q) : b[i] = q[i]
        <5>1. q \in Seq(X) /\ b = Append(q, x)
          BY <4>1, <4>2
        <5> QED BY <5>1, AppendProperties
      <4>5. Len(a) = Len(p) + Len(b)
        BY <4>1, <4>3, <4>4, <1>p
      <4>6. ASSUME NEW i \in 1..Len(p) PROVE a[i] = p[i]
        <5>1. i \in 1..Len(r)
          BY <4>1, <1>p
        <5> QED BY <5>1, <4>1, <4>3
      <4>7. ASSUME NEW i \in 1..Len(b) PROVE a[Len(p) + i] = b[i]
        <5>1. CASE i \in 1..Len(q)
          <6>1. Len(p) + i \in 1..Len(r)
            BY <4>1, <5>1, <1>p
          <6> QED BY <5>1, <6>1, <4>1, <4>3, <4>4
        <5>2. CASE i = Len(q) + 1
          <6>1. Len(p) + i = Len(r) + 1
            BY <5>2, <4>1, <1>p
          <6> QED BY <5>2, <6>1, <4>3, <4>4
        <5> QED BY <5>1, <5>2, <4>1, <4>4
      <4>8. IsJoin(a, b)
        BY <4>3, <4>4, <4>5, <4>6, <4>7
      <4> QED BY <4>2, <4>8
    <3> HIDE DEF IsJoin
    <3>7. IsJoin(g[m], h[n])
      BY <3>2, <3>3, <3>4, <3>5, <3>6
    <3> QED BY <3>0, <3>1, <3>7
  <2> HIDE DEF H
  <2> QED BY <2>1, <2>2, <1>0, Induction
<1>7. PICK w, y : w = g[Len(u)] /\ y = h[Len(t)] /\ IsJoin(w, y)
  <2>1. Len(t) \in H
    BY <1>0, <1>6
  <2> QED
    BY <2>1, <1>0, SMTT(40)
<1>8. PICK v : v = p \o y
  OBVIOUS
<1>9. y \in Seq(X)
  BY <1>7
<1>10. /\ v \in Seq(X) /\ Len(v) = Len(p) + Len(y) /\ Len(y) \in Nat
       /\ \A i \in 1..Len(p) : v[i] = p[i]
       /\ \A i \in 1..Len(y) : v[Len(p) + i] = y[i]
  BY <1>5, <1>8, <1>9, Concat
<1>11. /\ w \in Seq(X) /\ Len(w) = Len(p) + Len(y)
       /\ \A i \in 1..Len(p) : w[i] = p[i]
       /\ \A i \in 1..Len(y) : w[Len(p) + i] = y[i]
  BY <1>7
<1>12. ASSUME NEW i \in 1..Len(w) PROVE w[i] = v[i]
  <2>1. CASE i \in 1..Len(p)
    BY <2>1, <1>10, <1>11
  <2>2. CASE i \notin 1..Len(p)
    <3>1. i - Len(p) \in 1..Len(y) /\ Len(p) + (i - Len(p)) = i
      BY <2>2, <1>10, <1>11, <1>p
    <3>2. w[Len(p) + (i - Len(p))] = v[Len(p) + (i - Len(p))]
      BY <3>1, <1>10, <1>11
    <3> QED BY <3>1, <3>2
  <2> QED BY <2>1, <2>2
<1>13. w = v
  <2>1. Len(w) = Len(v) /\ w \in Seq(X) /\ v \in Seq(X)
    BY <1>10, <1>11
  <2> QED BY <2>1, <1>12, SeqEqual
<1> QED
  BY <1>u, <1>1, <1>2, <1>3, <1>5, <1>7, <1>8, <1>13

(* Intervals of numbers.                                                   *)
LEMMA IntervalFacts ==
    ASSUME NEW lo \in Nat, NEW hi \in Nat, lo <= hi, NEW s, s = Interval(lo, hi)
    PROVE  /\ s \in Seq((lo + 1)..hi) /\ Len(s) = hi - lo
           /\ \A k \in 1..(hi - lo) : s[k] = lo + k
           /\ Range(s) = (lo + 1)..hi
           /\ NoDuplicates(s)
<1>1. hi - lo \in Nat
  OBVIOUS
<1>2. s \in [1..(hi - lo) -> (lo + 1)..hi]
  BY <1>1 DEF Interval
<1>3. s \in Seq((lo + 1)..hi) /\ Len(s) = hi - lo
  BY <1>1, <1>2
<1>4. \A k \in 1..(hi - lo) : s[k] = lo + k
  BY DEF Interval
<1>5. DOMAIN s = 1..(hi - lo)
  BY <1>2
<1>6. ASSUME NEW n \in (lo + 1)..hi PROVE n \in Range(s)
  <2>1. n - lo \in 1..(hi - lo) /\ lo + (n - lo) = n
    OBVIOUS
  <2>2. s[n - lo] = n
    BY <2>1, <1>4
  <2> QED
    BY <1>5, <2>1, <2>2 DEF Range
<1>7. Range(s) \subseteq (lo + 1)..hi
  BY <1>2, <1>5 DEF Range
<1>8. NoDuplicates(s)
  BY <1>3, <1>4 DEF NoDuplicates
<1> QED
  BY <1>3, <1>4, <1>6, <1>7, <1>8

LEMMA IntervalFromOne ==
    ASSUME NEW n \in Nat, NEW s, s = Interval(0, n)
    PROVE  /\ s \in Seq(1..n) /\ Len(s) = n /\ \A i \in 1..n : s[i] = i
           /\ Range(s) = 1..n /\ NoDuplicates(s)
<1>1. PICK z \in Nat : z = 0
  OBVIOUS
<1>2. z <= n /\ s = Interval(z, n)
  BY <1>1
<1>3. /\ s \in Seq((z + 1)..n) /\ Len(s) = n - z
      /\ \A k \in 1..(n - z) : s[k] = z + k
      /\ Range(s) = (z + 1)..n
      /\ NoDuplicates(s)
  BY <1>2, IntervalFacts
<1>4. z + 1 = 1 /\ n - z = n /\ \A k \in 1..n : z + k = k
  BY <1>1
<1> QED
  BY <1>3, <1>4

LEMMA IntervalConcat ==
    ASSUME NEW k \in Nat, NEW m \in Nat, k <= m
    PROVE  Interval(0, k) \o Interval(k, m) = Interval(0, m)
<1>1. PICK s : s = Interval(0, k)
  OBVIOUS
<1>2. PICK t : t = Interval(k, m)
  OBVIOUS
<1>3. PICK u : u = Interval(0, m)
  OBVIOUS
<1>4. PICK v : v = s \o t
  OBVIOUS
<1>5. s \in Seq(1..k) /\ Len(s) = k /\ \A i \in 1..k : s[i] = i
  BY <1>1, IntervalFromOne
<1>6. t \in Seq((k + 1)..m) /\ Len(t) = m - k /\ \A i \in 1..(m - k) : t[i] = k + i
  BY <1>2, IntervalFacts
<1>7. u \in Seq(1..m) /\ Len(u) = m /\ \A i \in 1..m : u[i] = i
  BY <1>3, IntervalFromOne
<1>8. s \in Seq(Nat) /\ t \in Seq(Nat) /\ u \in Seq(Nat)
  <2>1. 1..k \subseteq Nat /\ (k + 1)..m \subseteq Nat /\ 1..m \subseteq Nat
    OBVIOUS
  <2> QED BY <2>1, <1>5, <1>6, <1>7
<1>9. /\ v \in Seq(Nat) /\ Len(v) = Len(s) + Len(t)
      /\ \A i \in 1..Len(s) : v[i] = s[i]
      /\ \A i \in 1..Len(t) : v[Len(s) + i] = t[i]
  BY <1>4, <1>8, Concat
<1>10. ASSUME NEW i \in 1..m PROVE v[i] = u[i]
  <2>1. CASE i <= k
    BY <2>1, <1>5, <1>7, <1>9
  <2>2. CASE i > k
    <3>1. i - k \in 1..Len(t) /\ Len(s) + (i - k) = i
      BY <2>2, <1>5, <1>6
    <3>2. v[Len(s) + (i - k)] = t[i - k] /\ t[i - k] = k + (i - k)
      BY <3>1, <1>6, <1>9
    <3> QED
      BY <3>1, <3>2, <1>7
  <2> QED BY <2>1, <2>2
<1>11. Len(v) = Len(u) /\ Len(v) = m
  BY <1>5, <1>6, <1>7, <1>9
<1>12. v = u
  BY <1>8, <1>9, <1>10, <1>11, SeqEqual
<1> QED
  BY <1>1, <1>2, <1>3, <1>4, <1>12

(* A selection has the elements at the chosen positions, and no duplicates *)
(* if the sequence has none.                                               *)
LEMMA AtRange ==
    ASSUME NEW X, NEW s \in Seq(X), NEW I, NEW t, t = At(s, I)
    PROVE  /\ t \in Seq(X) /\ Len(t) \in Nat
           /\ Range(t) = {s[n] : n \in (1..Len(s)) \cap I}
           /\ NoDuplicates(s) => NoDuplicates(t)
<1>1. t \in Seq(X) /\ \E f : Places(f, t, s, I, Len(s))
  BY AtPlaces
<1>2. PICK f : Places(f, t, s, I, Len(s))
  BY <1>1
<1>3. /\ f \in [1..Len(t) -> (1..Len(s)) \cap I]
      /\ \A i, j \in 1..Len(t) : i < j => f[i] < f[j]
      /\ \A k \in (1..Len(s)) \cap I : \E j \in 1..Len(t) : f[j] = k
      /\ \A j \in 1..Len(t) : t[j] = s[f[j]]
  BY <1>2 DEF Places
<1>4. DOMAIN t = 1..Len(t) /\ Len(t) \in Nat
  BY <1>1
<1>5. Range(t) = {s[n] : n \in (1..Len(s)) \cap I}
  <2>1. ASSUME NEW j \in 1..Len(t) PROVE t[j] \in {s[n] : n \in (1..Len(s)) \cap I}
    BY <1>3
  <2>2. ASSUME NEW n \in (1..Len(s)) \cap I PROVE s[n] \in Range(t)
    <3>1. PICK j \in 1..Len(t) : f[j] = n
      BY <1>3
    <3> QED BY <3>1, <1>3, <1>4 DEF Range
  <2> QED BY <2>1, <2>2, <1>4 DEF Range
<1>6. ASSUME NoDuplicates(s) PROVE NoDuplicates(t)
  <2> SUFFICES ASSUME NEW m \in 1..Len(t), NEW n \in 1..Len(t), t[m] = t[n], m # n
               PROVE  FALSE
    BY DEF NoDuplicates
  <2>1. f[m] \in 1..Len(s) /\ f[n] \in 1..Len(s) /\ s[f[m]] = s[f[n]]
    BY <1>3
  <2>2. f[m] = f[n]
    BY <1>6, <2>1 DEF NoDuplicates
  <2>3. m \in Nat /\ n \in Nat /\ f[m] \in Nat /\ f[n] \in Nat
    BY <1>4, <2>1
  <2>4. m < n \/ n < m
    BY <2>3
  <2>5. f[m] < f[n] \/ f[n] < f[m]
    BY <2>4, <1>3
  <2> QED BY <2>2, <2>3, <2>5
<1> QED
  BY <1>1, <1>4, <1>5, <1>6

(* What is kept of the numbers 1 to n is a set, in order.                  *)
LEMMA InOrderFacts ==
    ASSUME NEW n \in Nat, NEW S, S \subseteq 1..n, NEW t, t = At(Interval(0, n), S)
    PROVE  /\ t \in Seq(1..n) /\ Range(t) = S /\ NoDuplicates(t)
<1>1. PICK s : s = Interval(0, n)
  OBVIOUS
<1>2. s \in Seq(1..n) /\ Len(s) = n /\ NoDuplicates(s) /\ \A i \in 1..n : s[i] = i
  BY <1>1, IntervalFromOne
<1>3. t = At(s, S)
  BY <1>1
<1>4. s \in Seq(1..n)
  BY <1>2
<1>5. /\ t \in Seq(1..n) /\ Range(t) = {s[i] : i \in (1..Len(s)) \cap S}
      /\ NoDuplicates(s) => NoDuplicates(t)
  BY <1>3, <1>4, AtRange
<1>6. {s[i] : i \in (1..Len(s)) \cap S} = S
  BY <1>2
<1> QED
  BY <1>2, <1>5, <1>6

LEMMA IntervalEmpty ==
    ASSUME NEW n \in Nat
    PROVE  Interval(n, n) = <<>>
<1>1. PICK s : s = Interval(n, n)
  OBVIOUS
<1>2. s \in Seq((n + 1)..n) /\ Len(s) = n - n
  BY <1>1, IntervalFacts
<1>3. s = <<>>
  BY <1>2
<1> QED
  BY <1>1, <1>3

LEMMA IntervalAppend ==
    ASSUME NEW lo \in Nat, NEW hi \in Nat, lo <= hi
    PROVE  Append(Interval(lo, hi), hi + 1) = Interval(lo, hi + 1)
<1>1. PICK s : s = Interval(lo, hi)
  OBVIOUS
<1>2. PICK h \in Nat : h = hi + 1
  OBVIOUS
<1>3. PICK t : t = Interval(lo, h)
  OBVIOUS
<1>4. s \in Seq((lo + 1)..hi) /\ Len(s) = hi - lo /\ \A k \in 1..(hi - lo) : s[k] = lo + k
  BY <1>1, IntervalFacts
<1>5. lo <= h
  BY <1>2
<1>6. t \in Seq((lo + 1)..h) /\ Len(t) = h - lo /\ \A k \in 1..(h - lo) : t[k] = lo + k
  BY <1>2, <1>3, <1>5, IntervalFacts, ZenonT(30)
<1>7. s \in Seq(Nat) /\ t \in Seq(Nat)
  <2>1. (lo + 1)..hi \subseteq Nat /\ (lo + 1)..h \subseteq Nat
    BY <1>2
  <2> QED BY <2>1, <1>4, <1>6
<1>8. PICK u : u = Append(s, h)
  OBVIOUS
<1>9. /\ u \in Seq(Nat) /\ Len(u) = Len(s) + 1 /\ u[Len(s) + 1] = h
      /\ \A k \in 1..Len(s) : u[k] = s[k]
  BY <1>7, <1>8, AppendProperties
<1>10. Len(u) = Len(t)
  BY <1>2, <1>4, <1>6, <1>9
<1>11. ASSUME NEW k \in 1..Len(u) PROVE u[k] = t[k]
  <2>1. CASE k \in 1..Len(s)
    BY <2>1, <1>2, <1>4, <1>6, <1>9
  <2>2. CASE k = Len(s) + 1
    BY <2>2, <1>2, <1>4, <1>6, <1>9
  <2> QED BY <2>1, <2>2, <1>4, <1>9
<1>12. u = t
  BY <1>7, <1>9, <1>10, <1>11, SeqEqual
<1> QED
  BY <1>1, <1>2, <1>3, <1>8, <1>12

(* Chains of batches.                                                      *)
LEMMA ChainEmpty ==
    ASSUME NEW k \in Nat
    PROVE  Chain(<<>>, k, k)
<1> DEFINE e == [j \in 0..Len(<<>>) |-> k]
<1>1. Len(<<>>) = 0
  OBVIOUS
<1>2. e \in [0..Len(<<>>) -> 0..k] /\ e[0] = k /\ e[Len(<<>>)] = k
  BY <1>1
<1>3. \A j \in 1..Len(<<>>) : e[j - 1] < e[j] /\ <<>>[j] = Interval(e[j - 1], e[j])
  BY <1>1
<1> HIDE DEF e
<1> QED
  BY <1>2, <1>3 DEF Chain

LEMMA ChainNone ==
    ASSUME NEW k \in Nat, NEW n \in Nat, Chain(<<>>, k, n)
    PROVE  k = n
<1>1. Len(<<>>) = 0
  OBVIOUS
<1> QED
  BY <1>1 DEF Chain

LEMMA ChainAppend ==
    ASSUME NEW X, NEW B \in Seq(X), NEW lo \in Nat, NEW m \in Nat, NEW hi \in Nat,
           Chain(B, lo, m), m < hi, Interval(m, hi) \in X
    PROVE  Chain(Append(B, Interval(m, hi)), lo, hi)
<1>1. PICK e \in [0..Len(B) -> 0..m] :
        /\ e[0] = lo /\ e[Len(B)] = m
        /\ \A j \in 1..Len(B) : e[j - 1] < e[j] /\ B[j] = Interval(e[j - 1], e[j])
  BY DEF Chain
<1>2. PICK x \in X : x = Interval(m, hi)
  OBVIOUS
<1>3. PICK C : C = Append(B, x)
  OBVIOUS
<1>4. /\ C \in Seq(X) /\ Len(C) = Len(B) + 1 /\ C[Len(B) + 1] = x
      /\ \A i \in 1..Len(B) : C[i] = B[i]
  BY <1>3, AppendProperties
<1>5. Len(B) \in Nat
  OBVIOUS
<1> DEFINE d == [j \in 0..Len(C) |-> IF j <= Len(B) THEN e[j] ELSE hi]
<1>6. d \in [0..Len(C) -> 0..hi]
  BY <1>1, <1>4, <1>5
<1>7. /\ \A j \in 0..Len(B) : d[j] = e[j]
      /\ d[Len(C)] = hi
  BY <1>4, <1>5
<1> HIDE DEF d
<1>8. d[0] = lo
  BY <1>1, <1>5, <1>7
<1>9. ASSUME NEW j \in 1..Len(C) PROVE d[j - 1] < d[j] /\ C[j] = Interval(d[j - 1], d[j])
  <2>1. CASE j \in 1..Len(B)
    <3>1. j - 1 \in 0..Len(B) /\ j \in 0..Len(B)
      BY <2>1, <1>5
    <3> QED BY <2>1, <3>1, <1>1, <1>4, <1>7
  <2>2. CASE j = Len(C)
    <3>1. j - 1 = Len(B) /\ j - 1 \in 0..Len(B) /\ j = Len(B) + 1
      BY <2>2, <1>4, <1>5
    <3> QED BY <2>2, <3>1, <1>1, <1>2, <1>4, <1>7
  <2> QED BY <2>1, <2>2, <1>4, <1>5
<1>10. Chain(C, lo, hi)
  BY <1>6, <1>7, <1>8, <1>9 DEF Chain
<1> QED
  BY <1>2, <1>3, <1>10

LEMMA ChainTail ==
    ASSUME NEW X, NEW B \in Seq(X), NEW lo \in Nat, NEW hi \in Nat, Chain(B, lo, hi), B # <<>>
    PROVE  \E m \in 0..hi : /\ lo < m /\ Head(B) = Interval(lo, m)
                            /\ Chain(Tail(B), m, hi)
<1>1. PICK e \in [0..Len(B) -> 0..hi] :
        /\ e[0] = lo /\ e[Len(B)] = hi
        /\ \A j \in 1..Len(B) : e[j - 1] < e[j] /\ B[j] = Interval(e[j - 1], e[j])
  BY DEF Chain
<1>2. PICK C : C = Tail(B)
  OBVIOUS
<1>3. /\ C \in Seq(X) /\ Len(C) = Len(B) - 1 /\ Len(B) \in Nat /\ Len(B) >= 1
      /\ \A i \in 1..Len(C) : C[i] = B[i + 1]
      /\ Head(B) = B[1]
  BY <1>2
<1> DEFINE d == [j \in 0..Len(C) |-> e[j + 1]]
<1>4. \A j \in 0..Len(C) : j + 1 \in 0..Len(B) /\ d[j] = e[j + 1]
  BY <1>3
<1>5. d \in [0..Len(C) -> 0..hi]
  BY <1>1, <1>3
<1> HIDE DEF d
<1>6. 1 \in 0..Len(B) /\ 1 \in 1..Len(B) /\ 0 \in 0..Len(C) /\ Len(C) \in 0..Len(C)
  BY <1>3
<1>7. d[0] = e[1] /\ d[Len(C)] = hi
  BY <1>1, <1>3, <1>4, <1>6
<1>8. ASSUME NEW j \in 1..Len(C) PROVE d[j - 1] < d[j] /\ C[j] = Interval(d[j - 1], d[j])
  <2>1. j + 1 \in 1..Len(B) /\ (j + 1) - 1 = j /\ j \in 0..Len(C) /\ j - 1 \in 0..Len(C) /\ (j - 1) + 1 = j
    BY <1>3
  <2>2. e[j] < e[j + 1] /\ B[j + 1] = Interval(e[j], e[j + 1])
    BY <2>1, <1>1
  <2>3. d[j - 1] = e[j] /\ d[j] = e[j + 1] /\ C[j] = B[j + 1]
    BY <2>1, <1>3, <1>4
  <2> QED BY <2>2, <2>3
<1>9. Chain(C, e[1], hi)
  BY <1>5, <1>7, <1>8 DEF Chain
<1>10. e[1] \in 0..hi /\ lo < e[1] /\ Head(B) = Interval(lo, e[1])
  <2>1. 1 - 1 = 0 /\ e[1 - 1] < e[1] /\ B[1] = Interval(e[1 - 1], e[1])
    BY <1>1, <1>6
  <2> QED BY <2>1, <1>1, <1>3, <1>6
<1> QED
  BY <1>2, <1>9, <1>10

-----------------------------------------------------------------------------
(* Accesses.                                                               *)

LEMMA ConflictSymmetric ==
    ASSUME NEW a, NEW b, accesses_conflict(a, b)
    PROVE  accesses_conflict(b, a)
BY DEF accesses_conflict, paths_intersect

LEMMA ReadersAgree ==
    ASSUME NEW a, NEW b, ~a.all, ~b.all, a.writes = {}, b.writes = {}
    PROVE  ~accesses_conflict(a, b)
BY DEF accesses_conflict

LEMMA DeclarationType ==
    ASSUME NEW a \in Declarations
    PROVE  a \in AccessesOf(Spellings)
<1>1. AllAccesses \in AccessesOf(Spellings)
  BY DEF AllAccesses, AccessesOf
<1>2. ASSUME NEW S \in SUBSET Spellings, NEW r \in BOOLEAN
      PROVE  ReadOnly(S, r) \in AccessesOf(Spellings)
  BY DEF ReadOnly, AccessesOf
<1>3. ASSUME NEW S \in SUBSET Spellings
      PROVE  WriteOnly(S) \in AccessesOf(Spellings)
  BY DEF WriteOnly, AccessesOf
<1> DEFINE S1 == {AllAccesses, ReadOnly({}, FALSE)}
           S2 == {ReadOnly({p}, FALSE) : p \in Spellings}
           S3 == {ReadOnly({p}, TRUE) : p \in Spellings}
           S4 == {WriteOnly({p}) : p \in Spellings}
<1>4. Declarations = S1 \cup S2 \cup S3 \cup S4
  BY DEF Declarations
<1>5. {} \in SUBSET Spellings /\ \A p \in Spellings : {p} \in SUBSET Spellings
  OBVIOUS
<1>6. S1 \subseteq AccessesOf(Spellings)
  BY <1>1, <1>2, <1>5
<1>7. S2 \subseteq AccessesOf(Spellings) /\ S3 \subseteq AccessesOf(Spellings)
  BY <1>2, <1>5
<1>8. S4 \subseteq AccessesOf(Spellings)
  BY <1>3, <1>5
<1> HIDE DEF S1, S2, S3, S4
<1> QED
  BY <1>4, <1>6, <1>7, <1>8

LEMMA NormalKeeps ==
    ASSUME NEW a \in Declarations
    PROVE  /\ normalize_accesses(a).all = a.all
           /\ normalize_accesses(a).writes = {} <=> a.writes = {}
<1>1. a \in [reads : SUBSET Spellings, writes : SUBSET Spellings, recursive : BOOLEAN, all : BOOLEAN]
  BY DeclarationType DEF AccessesOf
<1> QED
  BY <1>1 DEF normalize_accesses

-----------------------------------------------------------------------------
(* plan_batches: the batches are consecutive intervals of the calls, and   *)
(* no two calls of one conflict.                                           *)

Norm(D, i) == normalize_accesses(D[i])
ApartIn(D, S) == \A i, j \in S : i # j => ~accesses_conflict(Norm(D, i), Norm(D, j))

(* The plan after i calls, of which those after m are pending.             *)
PlanState(D, B, m, i) ==
    [batches |-> B, pending |-> Interval(m, i),
     accesses |-> [k \in 1..(i - m) |-> Norm(D, m + k)]]

(* Finished batches that end with the call m.                              *)
GoodBatches(D, B, m) ==
    /\ B \in Seq(Seq(1..m)) /\ Chain(B, 0, m)
    /\ \A b \in Range(B) : ApartIn(D, Range(b))

PlanOK(D, plan, i) ==
    \E m \in 0..i : \E B : /\ plan = PlanState(D, B, m, i)
                           /\ GoodBatches(D, B, m) /\ ApartIn(D, (m + 1)..i)

LEMMA RangeAppend ==
    ASSUME NEW X, NEW s \in Seq(X), NEW x \in X
    PROVE  Range(Append(s, x)) = Range(s) \cup {x}
<1>1. PICK t : t = Append(s, x)
  OBVIOUS
<1>2. /\ t \in Seq(X) /\ Len(t) = Len(s) + 1 /\ t[Len(s) + 1] = x
      /\ \A i \in 1..Len(s) : t[i] = s[i]
  BY <1>1, AppendProperties
<1>3. Len(s) \in Nat /\ DOMAIN s = 1..Len(s) /\ DOMAIN t = 1..(Len(s) + 1)
  BY <1>2
<1>4. Range(t) = Range(s) \cup {x}
  BY <1>2, <1>3 DEF Range
<1> QED
  BY <1>1, <1>4

LEMMA GoodBatchesMore ==
    ASSUME NEW D, NEW B, NEW m \in Nat, NEW i \in Nat, m < i,
           GoodBatches(D, B, m), ApartIn(D, (m + 1)..i)
    PROVE  GoodBatches(D, Append(B, Interval(m, i)), i)
<1>1. PICK x : x = Interval(m, i)
  OBVIOUS
<1>2. x \in Seq((m + 1)..i) /\ Range(x) = (m + 1)..i
  BY <1>1, IntervalFacts
<1>3. x \in Seq(1..i)
  <2>1. (m + 1)..i \subseteq 1..i
    OBVIOUS
  <2> QED BY <1>2, <2>1
<1>4. B \in Seq(Seq(1..i))
  <2>1. 1..m \subseteq 1..i
    OBVIOUS
  <2>2. Seq(1..m) \subseteq Seq(1..i)
    BY <2>1
  <2>3. B \in Seq(Seq(1..m))
    BY DEF GoodBatches
  <2> QED BY <2>2, <2>3
<1>5. Chain(Append(B, Interval(m, i)), 0, i)
  <2>1. Chain(B, 0, m) /\ 0 \in Nat /\ Interval(m, i) \in Seq(1..i)
    BY <1>1, <1>3 DEF GoodBatches
  <2> QED BY <1>4, <2>1, ChainAppend
<1>6. Append(B, x) \in Seq(Seq(1..i))
  BY <1>3, <1>4
<1>7. Range(Append(B, x)) = Range(B) \cup {x}
  BY <1>3, <1>4, RangeAppend
<1>8. \A b \in Range(B) : ApartIn(D, Range(b))
  BY DEF GoodBatches
<1> QED
  BY <1>1, <1>2, <1>5, <1>6, <1>7, <1>8 DEF GoodBatches

LEMMA FlushFacts ==
    ASSUME NEW D, NEW B, NEW m \in Nat, NEW i \in Nat, m <= i,
           GoodBatches(D, B, m), ApartIn(D, (m + 1)..i)
    PROVE  \E C : /\ Flush(PlanState(D, B, m, i)) = PlanState(D, C, i, i)
                  /\ GoodBatches(D, C, i)
<1>1. CASE m = i
  <2>1. PlanState(D, B, i, i).pending = <<>>
    BY IntervalEmpty DEF PlanState
  <2>2. Flush(PlanState(D, B, m, i)) = PlanState(D, B, i, i)
    BY <1>1, <2>1 DEF Flush
  <2> QED BY <1>1, <2>2
<1>2. CASE m < i
  <2>1. PICK C : C = Append(B, Interval(m, i))
    OBVIOUS
  <2>2. GoodBatches(D, C, i)
    BY <1>2, <2>1, GoodBatchesMore
  <2>3. PICK x : x = Interval(m, i)
    OBVIOUS
  <2>4. x # <<>>
    <3>1. Len(x) = i - m /\ x \in Seq((m + 1)..i)
      BY <2>3, IntervalFacts
    <3> QED BY <3>1, <1>2
  <2>5. /\ PlanState(D, B, m, i).batches = B
        /\ PlanState(D, B, m, i).pending = x
    BY <2>3 DEF PlanState
  <2>6. Flush(PlanState(D, B, m, i)) = [batches |-> C, pending |-> <<>>, accesses |-> <<>>]
    BY <2>1, <2>3, <2>4, <2>5 DEF Flush
  <2>7. [k \in 1..(i - i) |-> Norm(D, i + k)] = <<>>
    OBVIOUS
  <2>8. PlanState(D, C, i, i) = [batches |-> C, pending |-> <<>>, accesses |-> <<>>]
    BY <2>7, IntervalEmpty DEF PlanState
  <2> QED BY <2>2, <2>6, <2>8
<1> QED
  BY <1>1, <1>2

LEMMA AddPendingFacts ==
    ASSUME NEW B, NEW P, NEW A, NEW i, NEW acc
    PROVE  AddPending([batches |-> B, pending |-> P, accesses |-> A], i, acc)
             = [batches |-> B, pending |-> Append(P, i), accesses |-> Append(A, acc)]
<1>0. PICK Q : Q = Append(P, i)
  OBVIOUS
<1>1. [[batches |-> B, pending |-> P, accesses |-> A] EXCEPT !.pending = Append(@, i)]
        = [batches |-> B, pending |-> Append(P, i), accesses |-> A]
  OBVIOUS
<1>2. [[batches |-> B, pending |-> Q, accesses |-> A] EXCEPT !.accesses = Append(@, acc)]
        = [batches |-> B, pending |-> Q, accesses |-> Append(A, acc)]
  OBVIOUS
<1> QED
  BY <1>0, <1>1, <1>2, Zenon DEF AddPending

LEMMA PlanStep ==
    ASSUME NEW D, NEW i \in Nat, NEW j \in Nat, j = i + 1, NEW plan, PlanOK(D, plan, i)
    PROVE  PlanOK(D, PlanCall(plan, j, D[j]), j)
<1>0. PICK m \in 0..i : \E B : /\ plan = PlanState(D, B, m, i)
                               /\ GoodBatches(D, B, m) /\ ApartIn(D, (m + 1)..i)
  BY DEF PlanOK
<1>1. PICK B : /\ plan = PlanState(D, B, m, i)
               /\ GoodBatches(D, B, m) /\ ApartIn(D, (m + 1)..i)
  BY <1>0
<1>m. m \in Nat /\ m <= i
  OBVIOUS
<1>2. PICK C : Flush(plan) = PlanState(D, C, i, i) /\ GoodBatches(D, C, i)
  BY <1>1, <1>m, FlushFacts
<1>3. PICK acc : acc = Norm(D, j)
  OBVIOUS
<1>4. ApartIn(D, (i + 1)..j) /\ ApartIn(D, (j + 1)..j)
  <2>1. \A x, y \in (i + 1)..j : x = y
    OBVIOUS
  <2>2. (j + 1)..j = {}
    OBVIOUS
  <2> QED BY <2>1, <2>2 DEF ApartIn
<1>5. Interval(i, j) = <<j>> /\ Append(Interval(m, i), j) = Interval(m, j)
  <2>1. Append(Interval(m, i), j) = Interval(m, j)
    BY <1>m, IntervalAppend
  <2>2. Append(Interval(i, i), j) = Interval(i, j)
    BY IntervalAppend
  <2>3. Interval(i, i) = <<>> /\ Append(<<>>, j) = <<j>>
    BY IntervalEmpty
  <2> QED BY <2>1, <2>2, <2>3
<1>6. CASE acc.all
  <2>1. PICK E : E = Append(C, <<j>>)
    OBVIOUS
  <2>2. GoodBatches(D, E, j)
    <3>1. i < j
      OBVIOUS
    <3>2. GoodBatches(D, Append(C, Interval(i, j)), j)
      BY <1>2, <1>4, <3>1, GoodBatchesMore
    <3> QED BY <1>5, <2>1, <3>2
  <2>3. PlanCall(plan, j, D[j]) = [PlanState(D, C, i, i) EXCEPT !.batches = Append(@, <<j>>)]
    BY <1>2, <1>3, <1>6 DEF PlanCall, PlanBarrier, Norm
  <2>4. /\ Interval(i, i) = <<>> /\ Interval(j, j) = <<>>
        /\ [k \in 1..(i - i) |-> Norm(D, i + k)] = <<>>
        /\ [k \in 1..(j - j) |-> Norm(D, j + k)] = <<>>
    BY IntervalEmpty
  <2>5. PlanState(D, C, i, i) = [batches |-> C, pending |-> <<>>, accesses |-> <<>>]
    BY <2>4 DEF PlanState
  <2>6. PlanState(D, E, j, j) = [batches |-> E, pending |-> <<>>, accesses |-> <<>>]
    BY <2>4 DEF PlanState
  <2>7. PlanCall(plan, j, D[j]) = PlanState(D, E, j, j)
    <3>1. [[batches |-> C, pending |-> <<>>, accesses |-> <<>>] EXCEPT !.batches = Append(@, <<j>>)]
            = [batches |-> Append(C, <<j>>), pending |-> <<>>, accesses |-> <<>>]
      BY SMTT(40)
    <3> QED BY <2>1, <2>3, <2>5, <2>6, <3>1
  <2> QED BY <1>4, <2>2, <2>7 DEF PlanOK
<1>7. CASE ~acc.all
  <2>0. PlanCall(plan, j, D[j]) = PlanEligible(plan, j, acc)
    BY <1>3, <1>7 DEF PlanCall, Norm
  <2>1. ASSUME NEW F, NEW n \in 0..i
        PROVE  AddPending(PlanState(D, F, n, i), j, acc) = PlanState(D, F, n, j)
    <3>0. n \in Nat /\ n <= i
      OBVIOUS
    <3>1. Append(Interval(n, i), j) = Interval(n, j)
      BY <3>0, IntervalAppend
    <3>2. PICK a : a = [k \in 1..(i - n) |-> Norm(D, n + k)]
      OBVIOUS
    <3>3. PICK c : c = [k \in 1..(j - n) |-> Norm(D, n + k)]
      OBVIOUS
    <3>4. Append(a, acc) = c
      <4> DEFINE X == {Norm(D, k) : k \in Nat}
      <4>1. \A k \in 1..(j - n) : n + k \in Nat /\ Norm(D, n + k) \in X
        OBVIOUS
      <4>2. acc \in X
        BY <1>3
      <4>3. a \in [1..(i - n) -> X] /\ c \in [1..(j - n) -> X]
        BY <3>2, <3>3, <4>1
      <4> HIDE DEF X
      <4>4. a \in Seq(X) /\ Len(a) = i - n /\ c \in Seq(X) /\ Len(c) = j - n
        BY <4>3
      <4>5. PICK b : b = Append(a, acc)
        OBVIOUS
      <4>6. /\ b \in Seq(X) /\ Len(b) = Len(a) + 1 /\ b[Len(a) + 1] = acc
            /\ \A k \in 1..Len(a) : b[k] = a[k]
        <5>1. a \in Seq(X)
          BY <4>4
        <5> QED BY <4>2, <4>5, <5>1, AppendProperties
      <4>7. ASSUME NEW k \in 1..Len(b) PROVE b[k] = c[k]
        <5>1. CASE k \in 1..Len(a)
          <6>1. b[k] = a[k] /\ k \in 1..(i - n) /\ k \in 1..(j - n)
            BY <5>1, <4>4, <4>6
          <6> QED BY <6>1, <3>2, <3>3
        <5>2. CASE k = Len(a) + 1
          <6>1. b[k] = acc /\ k \in 1..(j - n) /\ n + k = j
            BY <5>2, <4>4, <4>6
          <6> QED BY <6>1, <3>3, <1>3
        <5> QED BY <5>1, <5>2, <4>4, <4>6
      <4>8. Len(b) = Len(c)
        BY <4>4, <4>6
      <4>9. b = c
        BY <4>4, <4>6, <4>7, <4>8, SeqEqual
      <4> QED BY <4>5, <4>9
    <3>5. PlanState(D, F, n, i) = [batches |-> F, pending |-> Interval(n, i), accesses |-> a]
      BY <3>2 DEF PlanState
    <3>6. PlanState(D, F, n, j) = [batches |-> F, pending |-> Interval(n, j), accesses |-> c]
      BY <3>3 DEF PlanState
    <3>7. AddPending([batches |-> F, pending |-> Interval(n, i), accesses |-> a], j, acc)
            = [batches |-> F, pending |-> Append(Interval(n, i), j), accesses |-> Append(a, acc)]
      BY AddPendingFacts
    <3> QED BY <3>1, <3>4, <3>5, <3>6, <3>7, Zenon
  <2>2. CASE ConflictsWithPending(plan, acc)
    <3>1. PlanEligible(plan, j, acc) = PlanState(D, C, i, j)
      <4>1. i \in 0..i
        BY <1>m
      <4>2. PlanEligible(plan, j, acc) = AddPending(PlanState(D, C, i, i), j, acc)
        BY <1>2, <2>2 DEF PlanEligible
      <4> QED BY <2>1, <4>1, <4>2
    <3>2. i \in 0..j
      BY <1>m
    <3> QED BY <1>2, <1>4, <2>0, <3>1, <3>2 DEF PlanOK
  <2>3. CASE ~ConflictsWithPending(plan, acc)
    <3>1. PlanEligible(plan, j, acc) = PlanState(D, B, m, j)
      <4>2. PlanEligible(plan, j, acc) = AddPending(PlanState(D, B, m, i), j, acc)
        BY <1>1, <2>3 DEF PlanEligible
      <4> QED BY <2>1, <4>2
    <3>2. m \in 0..j
      OBVIOUS
    <3>3. ApartIn(D, (m + 1)..j)
      <4>1. ASSUME NEW x \in (m + 1)..i PROVE ~accesses_conflict(Norm(D, x), acc)
        <5>1. x - m \in 1..(i - m) /\ m + (x - m) = x
          OBVIOUS
        <5>2. PICK a : a = [k \in 1..(i - m) |-> Norm(D, m + k)]
          OBVIOUS
        <5>3. plan.accesses = a
          BY <1>1, <5>2 DEF PlanState
        <5>4. x - m \in DOMAIN a /\ a[x - m] = Norm(D, x)
          BY <5>1, <5>2
        <5> QED BY <2>3, <5>3, <5>4 DEF ConflictsWithPending
      <4>2. ASSUME NEW x \in (m + 1)..i PROVE ~accesses_conflict(acc, Norm(D, x))
        BY <4>1, ConflictSymmetric
      <4>3. \A x \in (m + 1)..j : x \in (m + 1)..i \/ x = j
        OBVIOUS
      <4> QED BY <1>1, <1>3, <4>1, <4>2, <4>3 DEF ApartIn
    <3> QED BY <1>1, <2>0, <3>1, <3>2, <3>3 DEF PlanOK
  <2> QED BY <2>2, <2>3
<1> QED
  BY <1>6, <1>7

(* The recursive function of plan_batches.                                 *)
IsPlan(D, N, g) ==
    g = [n \in 0..N |-> IF n = 0 THEN EmptyPlan ELSE PlanCall(g[n - 1], n, D[n])]

LEMMA PlanExists ==
    ASSUME NEW D, NEW N \in Nat
    PROVE  \E g : IsPlan(D, N, g)
<1> DEFINE G == {n \in 0..N : \E g : IsPlan(D, n, g)}
<1>1. 0 \in G
  <2> DEFINE g == [n \in 0..0 |-> EmptyPlan]
  <2>1. IsPlan(D, 0, g)
    BY DEF IsPlan
  <2> QED
    BY <2>1
<1>2. ASSUME NEW n \in 1..N, n - 1 \in G PROVE n \in G
  <2>1. PICK g : IsPlan(D, n - 1, g)
    BY <1>2
  <2> DEFINE v == PlanCall(g[n - 1], n, D[n])
             h == [k \in 0..n |-> IF k = n THEN v ELSE g[k]]
  <2>2. \A k \in 0..(n - 1) : h[k] = g[k]
    OBVIOUS
  <2>3. h[n] = v
    OBVIOUS
  <2>4. \A k \in 1..n : k - 1 \in 0..(n - 1)
    OBVIOUS
  <2>5. \A k \in 0..(n - 1) : g[k] = IF k = 0 THEN EmptyPlan ELSE PlanCall(g[k - 1], k, D[k])
    BY <2>1 DEF IsPlan
  <2> HIDE DEF v
  <2>6. \A k \in 0..n : h[k] = IF k = 0 THEN EmptyPlan ELSE PlanCall(h[k - 1], k, D[k])
    <3> SUFFICES ASSUME NEW k \in 0..n
                 PROVE h[k] = IF k = 0 THEN EmptyPlan ELSE PlanCall(h[k - 1], k, D[k])
      OBVIOUS
    <3>1. CASE k = n
      BY <3>1, <2>2, <2>3, <2>4 DEF v
    <3>2. CASE k \in 0..(n - 1)
      BY <3>2, <2>2, <2>4, <2>5
    <3> QED BY <3>1, <3>2
  <2>7. IsPlan(D, n, h)
    BY <2>6 DEF IsPlan
  <2> QED
    BY <2>7
<1> HIDE DEF G
<1>3. 0..N \subseteq G
  BY <1>1, <1>2, Induction
<1> QED
  BY <1>3 DEF G

(* What plan_batches promises.                                             *)
LEMMA PlanSound ==
    ASSUME NEW X, NEW D \in Seq(X)
    PROVE  GoodBatches(D, plan_batches(D), Len(D))
<1>0. PICK N \in Nat : N = Len(D)
  OBVIOUS
<1> DEFINE g == CHOOSE g : IsPlan(D, Len(D), g)
<1>1. IsPlan(D, Len(D), g)
  BY <1>0, PlanExists
<1>2. plan_batches(D) = Flush(g[Len(D)]).batches
  BY DEF plan_batches, IsPlan
<1> HIDE DEF g
<1>3. /\ g[0] = EmptyPlan
      /\ \A n \in 1..N : g[n] = PlanCall(g[n - 1], n, D[n])
  BY <1>0, <1>1 DEF IsPlan
<1> DEFINE G == {n \in 0..N : PlanOK(D, g[n], n)}
<1>4. 0 \in G
  <2>1. EmptyPlan = PlanState(D, <<>>, 0, 0)
    <3>1. Interval(0, 0) = <<>>
      BY IntervalEmpty
    <3>2. [k \in 1..(0 - 0) |-> Norm(D, 0 + k)] = <<>>
      OBVIOUS
    <3> QED BY <3>1, <3>2 DEF EmptyPlan, PlanState
  <2>2. GoodBatches(D, <<>>, 0)
    <3>1. Chain(<<>>, 0, 0)
      BY ChainEmpty
    <3>2. Range(<<>>) = {}
      BY DEF Range
    <3>3. <<>> \in Seq(Seq(1..0))
      OBVIOUS
    <3> QED BY <3>1, <3>2, <3>3 DEF GoodBatches
  <2>3. ApartIn(D, (0 + 1)..0)
    BY DEF ApartIn
  <2>4. 0 \in 0..0 /\ 0 \in 0..N
    OBVIOUS
  <2>5. PlanOK(D, g[0], 0)
    BY <1>3, <2>1, <2>2, <2>3, <2>4 DEF PlanOK
  <2> QED BY <2>4, <2>5
<1>5. ASSUME NEW n \in 1..N, n - 1 \in G PROVE n \in G
  <2>1. PICK i \in Nat : i = n - 1 /\ n = i + 1 /\ n \in Nat /\ n \in 0..N
    OBVIOUS
  <2>2. PICK plan : plan = g[i] /\ PlanOK(D, plan, i)
    BY <1>5, <2>1
  <2>3. n \in Nat /\ n = i + 1
    BY <2>1
  <2>4. PlanOK(D, PlanCall(plan, n, D[n]), n)
    BY <2>2, <2>3, PlanStep
  <2>5. g[n] = PlanCall(plan, n, D[n])
    BY <1>3, <2>1, <2>2
  <2> QED BY <2>1, <2>4, <2>5
<1> HIDE DEF G
<1>6. 0..N \subseteq G
  BY <1>4, <1>5, Induction
<1>7. PlanOK(D, g[N], N)
  <2>1. N \in 0..N
    OBVIOUS
  <2> QED BY <1>6, <2>1 DEF G
<1>8. PICK m \in 0..N : \E B : /\ g[N] = PlanState(D, B, m, N)
                               /\ GoodBatches(D, B, m) /\ ApartIn(D, (m + 1)..N)
  BY <1>7 DEF PlanOK
<1>9. PICK B : /\ g[N] = PlanState(D, B, m, N)
               /\ GoodBatches(D, B, m) /\ ApartIn(D, (m + 1)..N)
  BY <1>8
<1>10. m \in Nat /\ m <= N
  OBVIOUS
<1>11. PICK C : Flush(g[N]) = PlanState(D, C, N, N) /\ GoodBatches(D, C, N)
  BY <1>9, <1>10, FlushFacts
<1>12. Flush(g[N]).batches = C
  BY <1>11 DEF PlanState
<1> QED
  BY <1>0, <1>2, <1>11, <1>12

-----------------------------------------------------------------------------
(* Ranges and duplicates of the sequences that the loop puts together.     *)

Join(X, s, t, u) ==
    /\ u \in Seq(X) /\ Range(u) = Range(s) \cup Range(t)
    /\ NoDuplicates(s) /\ NoDuplicates(t) /\ Range(s) \cap Range(t) = {} => NoDuplicates(u)

LEMMA RangeConcat ==
    ASSUME NEW X, NEW s \in Seq(X), NEW t \in Seq(X)
    PROVE  Join(X, s, t, s \o t)
<1>u. PICK u : u = s \o t
  OBVIOUS
<1>0. /\ u \in Seq(X) /\ Len(u) = Len(s) + Len(t) /\ Len(s) \in Nat /\ Len(t) \in Nat
      /\ \A i \in 1..Len(s) : u[i] = s[i]
      /\ \A i \in 1..Len(t) : u[Len(s) + i] = t[i]
  BY <1>u, Concat
<1>1. DOMAIN u = 1..Len(u) /\ DOMAIN s = 1..Len(s) /\ DOMAIN t = 1..Len(t)
  BY <1>0
<1>2. \A i \in 1..Len(u) : i \in 1..Len(s) \/ \E j \in 1..Len(t) : i = Len(s) + j
  <2> SUFFICES ASSUME NEW i \in 1..Len(u), i \notin 1..Len(s)
               PROVE  \E j \in 1..Len(t) : i = Len(s) + j
    OBVIOUS
  <2>1. i - Len(s) \in 1..Len(t) /\ i = Len(s) + (i - Len(s))
    BY <1>0
  <2> QED BY <2>1
<1>3. Range(u) = Range(s) \cup Range(t)
  <2>1. ASSUME NEW x \in Range(u) PROVE x \in Range(s) \cup Range(t)
    <3>1. PICK i \in 1..Len(u) : x = u[i]
      BY <1>1 DEF Range
    <3>2. CASE i \in 1..Len(s)
      BY <3>1, <3>2, <1>0, <1>1 DEF Range
    <3>3. CASE \E j \in 1..Len(t) : i = Len(s) + j
      BY <3>1, <3>3, <1>0, <1>1 DEF Range
    <3> QED BY <3>2, <3>3, <1>2
  <2>2. ASSUME NEW x \in Range(s) PROVE x \in Range(u)
    <3>1. PICK i \in 1..Len(s) : x = s[i]
      BY <1>1 DEF Range
    <3>2. i \in 1..Len(u) /\ u[i] = s[i]
      BY <1>0
    <3> QED BY <3>1, <3>2, <1>1 DEF Range
  <2>3. ASSUME NEW x \in Range(t) PROVE x \in Range(u)
    <3>1. PICK i \in 1..Len(t) : x = t[i]
      BY <1>1 DEF Range
    <3>2. Len(s) + i \in 1..Len(u) /\ u[Len(s) + i] = t[i]
      BY <1>0
    <3> QED BY <3>1, <3>2, <1>1 DEF Range
  <2> QED BY <2>1, <2>2, <2>3
<1>4. ASSUME NoDuplicates(s), NoDuplicates(t), Range(s) \cap Range(t) = {}
      PROVE  NoDuplicates(u)
  <2>1. ASSUME NEW m \in 1..Len(s), NEW j \in 1..Len(t) PROVE s[m] # t[j]
    BY <1>4, <1>1 DEF Range
  <2>2. ASSUME NEW m \in 1..Len(u), NEW n \in 1..Len(u), u[m] = u[n] PROVE m = n
    <3>1. CASE m \in 1..Len(s) /\ n \in 1..Len(s)
      BY <1>0, <1>4, <2>2, <3>1 DEF NoDuplicates
    <3>2. CASE m \in 1..Len(s) /\ n \notin 1..Len(s)
      <4>1. PICK j \in 1..Len(t) : n = Len(s) + j
        BY <1>2, <3>2
      <4> QED BY <4>1, <3>2, <1>0, <2>1, <2>2
    <3>3. CASE m \notin 1..Len(s) /\ n \in 1..Len(s)
      <4>1. PICK j \in 1..Len(t) : m = Len(s) + j
        BY <1>2, <3>3
      <4> QED BY <4>1, <3>3, <1>0, <2>1, <2>2
    <3>4. CASE m \notin 1..Len(s) /\ n \notin 1..Len(s)
      <4>1. PICK j \in 1..Len(t) : m = Len(s) + j
        BY <1>2, <3>4
      <4>2. PICK k \in 1..Len(t) : n = Len(s) + k
        BY <1>2, <3>4
      <4>3. t[j] = t[k]
        BY <4>1, <4>2, <1>0, <2>2
      <4>4. j = k
        BY <4>3, <1>4 DEF NoDuplicates
      <4> QED BY <4>1, <4>2, <4>4
    <3> QED BY <3>1, <3>2, <3>3, <3>4
  <2> QED BY <2>2 DEF NoDuplicates
<1> QED
  BY <1>u, <1>0, <1>3, <1>4 DEF Join

(* A sequence has at most as many elements as it is long.                  *)
LEMMA RangeBound ==
    ASSUME NEW X, NEW s \in Seq(X), NEW n \in Nat, Len(s) <= n
    PROVE  IsFiniteSet(Range(s)) /\ Cardinality(Range(s)) <= n
<1>0. PICK m \in Nat : m = Len(s)
  OBVIOUS
<1>1. DOMAIN s = 1..m
  BY <1>0
<1>2. s \in [1..m -> Range(s)] /\ \A x \in Range(s) : \E i \in 1..m : s[i] = x
  BY <1>0, <1>1 DEF Range
<1>3. s \in Surjection(1..m, Range(s))
  BY <1>2 DEF Surjection
<1>4. IsFiniteSet(1..m) /\ Cardinality(1..m) = m
  <2>1. 1 \in Int /\ m \in Int
    OBVIOUS
  <2>2. /\ IsFiniteSet(1..m)
        /\ Cardinality(1..m) = IF 1 > m THEN 0 ELSE m - 1 + 1
    BY <2>1, FS_Interval
  <2> QED BY <2>2
<1>5. IsFiniteSet(Range(s)) /\ Cardinality(Range(s)) <= Cardinality(1..m)
  BY <1>3, <1>4, FS_Surjection
<1>6. Cardinality(Range(s)) \in Nat
  BY <1>5, FS_CardinalityType
<1> QED
  BY <1>0, <1>4, <1>5, <1>6

(* The window takes a sequence's first n elements, the rest stays behind.  *)
Cut(X, q, n, w, r) ==
    /\ w \in Seq(X) /\ r \in Seq(X)
    /\ Range(w) \subseteq Range(q) /\ Range(r) \subseteq Range(q)
    /\ IsFiniteSet(Range(w)) /\ Cardinality(Range(w)) <= n
    /\ NoDuplicates(q) => /\ NoDuplicates(w) /\ NoDuplicates(r)
                          /\ \A x \in Range(w) : x \notin Range(r)

LEMMA WindowFacts ==
    ASSUME NEW X, NEW q \in Seq(X), NEW n \in Nat
    PROVE  Cut(X, q, n, Window(q, n), Beyond(q, n))
<1>w. PICK w : w = Window(q, n)
  OBVIOUS
<1>r. PICK r : r = Beyond(q, n)
  OBVIOUS
<1>0. PICK L \in Nat : L = Len(q)
  OBVIOUS
<1>1. PICK m \in Nat : m = (IF n < Len(q) THEN n ELSE Len(q)) /\ m <= n /\ m <= L
  <2>1. (IF n < L THEN n ELSE L) \in Nat /\ (IF n < L THEN n ELSE L) <= n /\ (IF n < L THEN n ELSE L) <= L
    OBVIOUS
  <2> QED BY <1>0, <2>1
<1>2. DOMAIN q = 1..L
  BY <1>0
<1>3. /\ w \in Seq(X) /\ Len(w) = m /\ \A i \in 1..m : w[i] = q[i]
  <2>1. w = SubSeq(q, 1, m)
    BY <1>w, <1>1 DEF Window
  <2>2. \A i \in 1..m : q[i] \in X
    BY <1>0, <1>1
  <2> QED BY <1>0, <1>1, <2>1, <2>2
<1>4. \A i \in 1..Len(r) : n + i \in 1..L /\ r[i] = q[n + i]
  <2>1. r = SubSeq(q, n + 1, L)
    BY <1>r, <1>0 DEF Beyond
  <2> QED BY <1>0, <2>1
<1>5. r \in Seq(X) /\ Len(r) \in Nat
  <2>1. r = SubSeq(q, n + 1, L)
    BY <1>r, <1>0 DEF Beyond
  <2>2. \A i \in (n + 1)..L : q[i] \in X
    BY <1>0
  <2>3. r \in Seq(X)
    BY <2>1, <2>2, <1>0
  <2> QED BY <2>3
<1>6. DOMAIN w = 1..m /\ DOMAIN r = 1..Len(r)
  BY <1>3, <1>5
<1>7. Range(w) \subseteq Range(q)
  BY <1>0, <1>1, <1>2, <1>3, <1>6 DEF Range
<1>8. Range(r) \subseteq Range(q)
  BY <1>2, <1>4, <1>6 DEF Range
<1>9. IsFiniteSet(Range(w)) /\ Cardinality(Range(w)) <= n
  <2>1. w \in Seq(X) /\ Len(w) <= n
    BY <1>1, <1>3
  <2> QED BY <2>1, RangeBound
<1>10. ASSUME NoDuplicates(q)
       PROVE  NoDuplicates(w) /\ NoDuplicates(r) /\ \A x \in Range(w) : x \notin Range(r)
  <2>1. \A i \in 1..m : i \in 1..L
    BY <1>0, <1>1
  <2>2. NoDuplicates(w)
    BY <1>0, <1>3, <1>10, <2>1 DEF NoDuplicates
  <2>3. NoDuplicates(r)
    <3>1. ASSUME NEW i \in 1..Len(r), NEW j \in 1..Len(r), r[i] = r[j] PROVE i = j
      <4>1. n + i \in 1..L /\ n + j \in 1..L /\ q[n + i] = q[n + j]
        BY <1>4, <3>1
      <4>2. n + i = n + j
        BY <4>1, <1>0, <1>10 DEF NoDuplicates
      <4> QED BY <4>2
    <3> QED BY <3>1 DEF NoDuplicates
  <2>4. ASSUME NEW i \in 1..m, NEW j \in 1..Len(r) PROVE w[i] # r[j]
    <3>1. i \in 1..L /\ n + j \in 1..L /\ i # n + j
      BY <1>1, <1>4
    <3>2. q[i] # q[n + j]
      BY <3>1, <1>0, <1>10 DEF NoDuplicates
    <3> QED BY <3>2, <1>3, <1>4
  <2>5. \A x \in Range(w) : x \notin Range(r)
    BY <2>4, <1>6 DEF Range
  <2> QED BY <2>2, <2>3, <2>5
<1> QED
  BY <1>w, <1>r, <1>3, <1>5, <1>7, <1>8, <1>9, <1>10 DEF Cut

(* An order of a finite set's elements has each of them once.              *)
LEMMA OrderFacts ==
    ASSUME NEW S, IsFiniteSet(S), NEW s \in SetToSeqs(S)
    PROVE  s \in Seq(S) /\ Range(s) = S /\ NoDuplicates(s)
<1>0. PICK n \in Nat : n = Cardinality(S)
  BY FS_CardinalityType
<1>1. s \in [1..n -> S] /\ \A i, j \in 1..n : i # j => s[i] # s[j]
  BY <1>0 DEF SetToSeqs
<1>2. s \in Injection(1..n, S)
  BY <1>1 DEF Injection, IsInjective
<1>3. Cardinality(1..n) = n
  <2>1. 1 \in Int /\ n \in Int
    OBVIOUS
  <2>2. Cardinality(1..n) = IF 1 > n THEN 0 ELSE n - 1 + 1
    BY <2>1, FS_Interval
  <2> QED BY <2>2
<1>4. s \in Surjection(1..n, S)
  BY <1>0, <1>2, <1>3, FS_Injection
<1>5. s \in Seq(S) /\ Len(s) = n /\ DOMAIN s = 1..n
  BY <1>1
<1>6. Range(s) = S
  BY <1>1, <1>4, <1>5 DEF Range, Surjection
<1> QED
  BY <1>1, <1>5, <1>6 DEF NoDuplicates

-----------------------------------------------------------------------------
(* The invariant is kept.                                                  *)

LEMMA SmallSets ==
    ASSUME NEW n \in Nat, NEW S, S \subseteq 1..n, NEW T, T \subseteq S
    PROVE  /\ IsFiniteSet(S) /\ Cardinality(S) \in Nat
           /\ IsFiniteSet(T) /\ Cardinality(T) \in Nat /\ Cardinality(T) <= Cardinality(S)
<1>1. 1 \in Int /\ n \in Int
  OBVIOUS
<1>2. IsFiniteSet(1..n)
  BY <1>1, FS_Interval
<1>3. IsFiniteSet(S)
  BY <1>2, FS_Subset
<1>4. IsFiniteSet(T) /\ Cardinality(T) <= Cardinality(S)
  BY <1>3, FS_Subset
<1> QED
  BY <1>3, <1>4, FS_CardinalityType

LEMMA Basics ==
    ASSUME TypeOK
    PROVE  /\ Len(calls) \in Nat /\ Indices = 1..Len(calls)
           /\ Live \subseteq 1..Len(calls) /\ IsFiniteSet(Live) /\ Cardinality(Live) \in Nat
           /\ [i \in Indices |-> i] = Interval(0, Len(calls))
<1>1. PICK N \in Nat : N = Len(calls)
  BY DEF TypeOK
<1>2. Indices = 1..N
  BY <1>1 DEF Indices
<1>3. Live \subseteq 1..N
  BY <1>2 DEF Live
<1>4. IsFiniteSet(Live) /\ Cardinality(Live) \in Nat
  BY <1>3, SmallSets
<1>5. [i \in Indices |-> i] = Interval(0, N)
  <2>1. N - 0 = N /\ \A k \in 1..N : 0 + k = k
    OBVIOUS
  <2> QED BY <1>2, <2>1 DEF Interval
<1> QED
  BY <1>1, <1>2, <1>3, <1>4, <1>5

LEMMA InitInv ==
    ASSUME Init
    PROVE  DispatchInv
<1>1. Len(calls) = 0 /\ Indices = {} /\ Live = {}
  BY DEF Init, Indices, Live
<1>2. Cardinality(Live) <= MaxConc
  <2>1. Cardinality({}) = 0
    BY FS_EmptySet
  <2> QED BY <1>1, <2>1, LimitsAssumption
<1>3. guard \in [key : Keys \cup {NoKey}, streak : 0..ForceStop] /\ guard.streak < ForceStop
  BY LimitsAssumption DEF Init
<1>4. /\ calls \in Seq(Calls) /\ Len(calls) <= MaxCalls
      /\ batches \in Seq(Seq(Indices)) /\ waiting \in Seq(Indices)
      /\ history \in Seq(Indices) /\ emitted \in Seq(Indices)
      /\ started \in Seq(Indices)
  BY <1>1, LimitsAssumption DEF Init
<1>5. /\ slot \in [Indices -> {"none", "gated", "running", "done"}]
      /\ task \in [Indices -> {"none", "running", "aborting", "ok", "err", "cut"}]
      /\ out \in [Indices -> {"none", "denied", "ok", "err", "cut"}]
  BY <1>1 DEF Init
<1>6. retries \in 0..MaxRetries
  BY LimitsAssumption DEF Init
<1>7. TypeOK
  BY <1>3, <1>4, <1>5, <1>6 DEF Init, TypeOK
<1>8. GuardInv
  BY <1>3 DEF Init, GuardInv
<1>9. Range(started) = {} /\ Range(emitted) = {}
  BY DEF Init, Range
<1>10. Reported
  BY <1>1, <1>9 DEF Init, Reported, NoDuplicates
<1>11. PhaseInv
  BY <1>1, <1>9 DEF Init, PhaseInv, StreamInv
<1> QED
  BY <1>2, <1>7, <1>8, <1>10, <1>11 DEF Init, DispatchInv

LEMMA TaskEndsKeeps ==
    ASSUME DispatchInv, NEW i \in Indices, NEW r \in {"ok", "err", "cut"}, TaskEnds(i, r)
    PROVE  DispatchInv'
<1> USE DEF TaskEnds, attempt, turn, ledger
<1>0. TypeOK /\ Len(calls) \in Nat /\ Live \subseteq 1..Len(calls) /\ Cardinality(Live) \in Nat
  BY Basics DEF DispatchInv
<1>1. /\ task' = [task EXCEPT ![i] = r] /\ task \in [Indices -> {"none", "running", "aborting", "ok", "err", "cut"}]
      /\ i \in Live /\ task[i] # "none" /\ Indices' = Indices
  BY <1>0 DEF TypeOK, Live, Indices
<1>2. /\ \A j \in Indices : j # i => task'[j] = task[j]
      /\ task'[i] = r
  BY <1>1
<1>3. Live' \subseteq Live
  BY <1>1, <1>2 DEF Live
<1>4. Cardinality(Live') <= MaxConc
  <2>1. Cardinality(Live') \in Nat /\ Cardinality(Live') <= Cardinality(Live)
    BY <1>0, <1>3, SmallSets
  <2>2. Cardinality(Live) <= MaxConc
    BY DEF DispatchInv
  <2> QED BY <1>0, <2>1, <2>2, LimitsAssumption
<1>5. TypeOK'
  BY <1>0, <1>1 DEF TypeOK, Indices
<1>6. GuardInv' /\ Reported' /\ \A c \in discarded' : OnlyReads(c)
  BY <1>1 DEF DispatchInv, GuardInv, Reported, OnlyReads
<1>7. CASE pc \in {"stream", "drain"}
  <2>1. StreamInv
    BY <1>7 DEF DispatchInv, PhaseInv
  <2>2. \A j \in Indices : StreamSlot(j)'
    <3>1. \A j \in Indices : StreamSlot(j)
      BY <2>1 DEF StreamInv
    <3> QED BY <3>1, <1>1, <1>2 DEF StreamSlot
  <2>3. StreamInv'
    BY <2>1, <2>2, <1>1 DEF StreamInv
  <2> QED BY <1>4, <1>5, <1>6, <1>7, <2>3 DEF DispatchInv, PhaseInv
<1>8. CASE pc = "execute"
  <2>1. PICK k \in 0..Len(calls) : ExecuteInv(k)
    BY <1>8 DEF DispatchInv, PhaseInv
  <2>2. i > k /\ slot[i] = "gated" /\ i \in Range(Head(batches)) /\ out[i] = "none"
    BY <2>1, <1>1 DEF ExecuteInv, BatchInv
  <2>3. \A j \in Indices : j <= k \/ slot[j] = "done" => j # i
    BY <2>2, <1>0, <1>1 DEF Indices
  <2>4. \A j \in Indices : j <= k \/ slot[j] = "done" => Settled(j)'
    BY <2>1, <2>3, <1>2 DEF ExecuteInv, BatchInv, Settled
  <2>5. BatchInv(k)'
    BY <2>1, <2>4, <1>1, <1>3 DEF ExecuteInv, BatchInv, Recorded, Apart, Acc
  <2>6. \A j \in Indices : j > k /\ slot[j] = "gated" =>
          /\ j \notin Range(Head(batches)) => Untouched(j)'
          /\ out[j] \in {"none", "denied"} /\ (out[j] = "denied" => task'[j] = "none")
    BY <2>1, <2>2, <1>2 DEF ExecuteInv, Untouched
  <2>7. \A j \in Range(waiting) : j \in Prepared' /\ Untouched(j)'
    <3>1. \A j \in Range(waiting) : j \in Prepared /\ Untouched(j)
      BY <2>1 DEF ExecuteInv
    <3>2. \A j \in Range(waiting) : j \in Indices
      BY <1>0 DEF TypeOK, Range
    <3>3. Prepared' = Prepared
      BY DEF Prepared
    <3> QED BY <3>1, <3>2, <3>3, <1>1, <1>2 DEF Untouched
  <2>8. ExecuteInv(k)'
    BY <2>1, <2>5, <2>6, <2>7, <1>1, <1>3 DEF ExecuteInv
  <2> QED BY <1>4, <1>5, <1>6, <1>8, <2>8 DEF DispatchInv, PhaseInv
<1>9. CASE pc \in {"prepare", "end", "returned"}
  <2>1. Live = {}
    BY <1>9 DEF DispatchInv, PhaseInv, PrepareInv
  <2> QED BY <2>1, <1>1
<1> QED
  BY <1>0, <1>7, <1>8, <1>9 DEF TypeOK

(* abort_all turns no task that has ended, or has not begun, into another. *)
LEMMA AbortFacts ==
    ASSUME TypeOK, NEW t, t = task \/ t = AbortAll(task)
    PROVE  /\ t \in [Indices -> {"none", "running", "aborting", "ok", "err", "cut"}]
           /\ \A i \in Indices : /\ t[i] \in {"running", "aborting"} <=> task[i] \in {"running", "aborting"}
                                 /\ task[i] \notin {"running", "aborting"} => t[i] = task[i]
<1>1. task \in [Indices -> {"none", "running", "aborting", "ok", "err", "cut"}]
  BY DEF TypeOK
<1>2. CASE t = task
  BY <1>1, <1>2
<1>3. CASE t = AbortAll(task)
  <2>1. t = [i \in Indices |-> IF task[i] = "running" THEN "aborting" ELSE task[i]]
    BY <1>1, <1>3 DEF AbortAll
  <2> QED BY <1>1, <2>1
<1> QED
  BY <1>2, <1>3

(* A call that the stream declares.                                        *)
LEMMA AddCallKeeps ==
    ASSUME DispatchInv, NEW c \in Calls, NEW s, NEW t, NEW o,
           pc = "stream", Len(calls) < MaxCalls, AddCall(c, s, t, o),
           t = task \/ t = AbortAll(task),
           \/ s = "none" /\ o = "none" /\ repeatStop'
           \/ s = "done" /\ o = "denied"
           \/ s = "gated" /\ o = "none"
           \/ s = "running" /\ o = "none" /\ OnlyReads(c) /\ Cardinality(Live) < MaxConc,
           emitted' = IF o = "denied" THEN Append(emitted, Len(calls) + 1) ELSE emitted,
           UNCHANGED <<pc, history, batches, waiting, checkpoint, retries, cancelled, discarded>>,
           joined' \subseteq Indices, aborted' \in BOOLEAN, repeatStop' \in BOOLEAN,
           repeatStop => repeatStop',
           guard' \in [key : Keys \cup {NoKey}, streak : 0..ForceStop],
           repeatStop' \/ guard'.streak < ForceStop
    PROVE  DispatchInv'
<1>0. /\ TypeOK /\ Live \subseteq 1..Len(calls) /\ Cardinality(Live) \in Nat
      /\ IsFiniteSet(Live) /\ StreamInv
  BY Basics DEF DispatchInv, PhaseInv
<1>1. PICK N \in Nat : N = Len(calls)
  BY <1>0, Basics
<1>2. Indices = 1..N
  BY <1>1 DEF Indices
<1>3. PICK e : e = IF s = "running" THEN "running" ELSE "none"
  OBVIOUS
<1>4. /\ calls' \in Seq(Calls) /\ Len(calls') = N + 1 /\ calls'[N + 1] = c
      /\ \A i \in 1..N : calls'[i] = calls[i]
  <2>1. calls \in Seq(Calls) /\ calls' = Append(calls, c)
    BY <1>0 DEF TypeOK, AddCall
  <2> QED BY <1>1, <2>1, AppendProperties
<1>5. Indices' = 1..(N + 1)
  BY <1>4 DEF Indices
<1>6. /\ slot' \in [Indices' -> {"none", "gated", "running", "done"}]
      /\ slot'[N + 1] = s /\ \A i \in 1..N : slot'[i] = slot[i]
  <2> DEFINE X == {"none", "gated", "running", "done"}
  <2>1. slot \in [1..N -> X] /\ slot' = Append(slot, s)
    BY <1>0, <1>2 DEF TypeOK, AddCall
  <2>2. s \in X
    OBVIOUS
  <2> HIDE DEF X
  <2>3. slot \in Seq(X) /\ Len(slot) = N
    BY <2>1
  <2>4. /\ slot' \in Seq(X) /\ Len(slot') = N + 1 /\ slot'[N + 1] = s
        /\ \A i \in 1..N : slot'[i] = slot[i]
    BY <2>1, <2>2, <2>3, AppendProperties
  <2>5. slot' \in [1..(N + 1) -> X]
    BY <2>4
  <2> QED BY <1>5, <2>4, <2>5 DEF X
<1>7. /\ out' \in [Indices' -> {"none", "denied", "ok", "err", "cut"}]
      /\ out'[N + 1] = o /\ \A i \in 1..N : out'[i] = out[i]
  <2> DEFINE X == {"none", "denied", "ok", "err", "cut"}
  <2>1. out \in [1..N -> X] /\ out' = Append(out, o)
    BY <1>0, <1>2 DEF TypeOK, AddCall
  <2>2. o \in X
    OBVIOUS
  <2> HIDE DEF X
  <2>3. out \in Seq(X) /\ Len(out) = N
    BY <2>1
  <2>4. /\ out' \in Seq(X) /\ Len(out') = N + 1 /\ out'[N + 1] = o
        /\ \A i \in 1..N : out'[i] = out[i]
    BY <2>1, <2>2, <2>3, AppendProperties
  <2>5. out' \in [1..(N + 1) -> X]
    BY <2>4
  <2> QED BY <1>5, <2>4, <2>5 DEF X
<1>8. /\ task' \in [Indices' -> {"none", "running", "aborting", "ok", "err", "cut"}]
      /\ task'[N + 1] = e /\ \A i \in 1..N : task'[i] = t[i]
  <2> DEFINE X == {"none", "running", "aborting", "ok", "err", "cut"}
  <2>1. t \in [1..N -> X] /\ task' = Append(t, e)
    BY <1>0, <1>2, <1>3, AbortFacts DEF AddCall
  <2>2. e \in X
    BY <1>3
  <2> HIDE DEF X
  <2>3. t \in Seq(X) /\ Len(t) = N
    BY <2>1
  <2>4. /\ task' \in Seq(X) /\ Len(task') = N + 1 /\ task'[N + 1] = e
        /\ \A i \in 1..N : task'[i] = t[i]
    BY <2>1, <2>2, <2>3, AppendProperties
  <2>5. task' \in [1..(N + 1) -> X]
    BY <2>4
  <2> QED BY <1>5, <2>4, <2>5 DEF X
<1>9. \A i \in 1..N : /\ task'[i] \in {"running", "aborting"} <=> task[i] \in {"running", "aborting"}
                      /\ task[i] \notin {"running", "aborting"} => task'[i] = task[i]
  BY <1>0, <1>2, <1>8, AbortFacts
<1>10. 1..N \subseteq 1..(N + 1) /\ N + 1 \in 1..(N + 1) /\ N + 1 \notin 1..N
       /\ \A i \in 1..(N + 1) : i \in 1..N \/ i = N + 1
  OBVIOUS
<1>11. Cardinality(Live') <= MaxConc
  <2>1. CASE s = "running"
    <3>1. Live' = Live \cup {N + 1}
      BY <1>0, <1>2, <1>3, <1>5, <1>8, <1>9, <1>10, <2>1 DEF Live
    <3>2. N + 1 \notin Live
      BY <1>0, <1>1, <1>10
    <3>3. Cardinality(Live \cup {N + 1}) = Cardinality(Live) + 1
      BY <1>0, <3>2, FS_AddElement
    <3> QED BY <1>0, <2>1, <3>1, <3>3, LimitsAssumption
  <2>2. CASE s # "running"
    <3>1. Live' = Live
      BY <1>0, <1>2, <1>3, <1>5, <1>8, <1>9, <1>10, <2>2 DEF Live
    <3> QED BY <3>1 DEF DispatchInv
  <2> QED BY <2>1, <2>2
<1>12. started \in Seq(1..(N + 1)) /\ emitted \in Seq(1..(N + 1))
  <2>1. started \in Seq(1..N) /\ emitted \in Seq(1..N)
    BY <1>0, <1>2 DEF TypeOK
  <2> QED BY <1>10, <2>1, SeqMonotonic
<1>13. /\ started' \in Seq(1..(N + 1))
       /\ \A i \in Range(started') : slot'[i] = "running"
  <2>1. \A i \in Range(started) : i \in 1..N /\ slot[i] = "running"
    <3>1. started \in Seq(1..N)
      BY <1>0, <1>2 DEF TypeOK
    <3> QED BY <1>0, <3>1, SMTT(40) DEF StreamInv, Range
  <2>2. CASE s = "running"
    <3>1. started' = Append(started, N + 1)
      BY <1>1, <2>2 DEF AddCall
    <3>0. N + 1 \in 1..(N + 1)
      BY <1>10
    <3>2. Range(started') = Range(started) \cup {N + 1}
      <4>1. started \in Seq(1..(N + 1))
        BY <1>12
      <4>2. Range(Append(started, N + 1)) = Range(started) \cup {N + 1}
        BY <3>0, <4>1, RangeAppend
      <4> QED BY <3>1, <4>2
    <3>3. started' \in Seq(1..(N + 1))
      BY <1>10, <1>12, <3>1, AppendProperties
    <3> QED BY <1>6, <2>1, <2>2, <3>2, <3>3
  <2>3. CASE s # "running"
    <3>1. started' = started
      BY <2>3 DEF AddCall
    <3> QED BY <1>6, <1>12, <2>1, <3>1
  <2> QED BY <2>2, <2>3
<1>14. emitted' \in Seq(1..(N + 1)) /\ Reported'
  <2>0. /\ Range(emitted) = {i \in 1..N : out[i] # "none"}
        /\ NoDuplicates(emitted)
    BY <1>2 DEF DispatchInv, Reported
  <2>1. CASE o = "denied"
    <3>1. emitted' = Append(emitted, N + 1)
      BY <1>1, <2>1
    <3>2. Range(emitted') = Range(emitted) \cup {N + 1}
      BY <1>10, <1>12, <3>1, RangeAppend
    <3>0. Len(emitted) \in Nat
      BY <1>12
    <3>3. /\ emitted' \in Seq(1..(N + 1)) /\ Len(emitted') = Len(emitted) + 1
          /\ emitted'[Len(emitted) + 1] = N + 1
          /\ \A j \in 1..Len(emitted) : emitted'[j] = emitted[j]
      <4>1. N + 1 \in 1..(N + 1) /\ emitted \in Seq(1..(N + 1))
        BY <1>10, <1>12
      <4>2. PICK u : u = Append(emitted, N + 1)
        OBVIOUS
      <4>3. /\ u \in Seq(1..(N + 1)) /\ Len(u) = Len(emitted) + 1 /\ u[Len(emitted) + 1] = N + 1
            /\ \A j \in 1..Len(emitted) : u[j] = emitted[j]
        BY <4>1, <4>2, AppendProperties
      <4> QED BY <3>1, <4>2, <4>3
    <3>4. Range(emitted') = {i \in 1..(N + 1) : out'[i] # "none"}
      BY <1>7, <1>10, <2>0, <2>1, <3>2
    <3>5. \A j \in 1..Len(emitted) : emitted[j] # N + 1
      BY <1>10, <1>12, <2>0, SMTT(40) DEF Range
    <3>6. NoDuplicates(emitted')
      BY <2>0, <3>0, <3>3, <3>5 DEF NoDuplicates
    <3> QED BY <1>5, <3>3, <3>4, <3>6 DEF Reported
  <2>2. CASE o # "denied"
    <3>1. emitted' = emitted /\ o = "none"
      BY <2>2
    <3>2. Range(emitted') = {i \in 1..(N + 1) : out'[i] # "none"}
      BY <1>7, <1>10, <2>0, <3>1
    <3> QED BY <1>5, <1>12, <2>0, <3>1, <3>2 DEF Reported
  <2> QED BY <2>1, <2>2
<1>15. StreamInv'
  <2>1. \A i \in 1..N : StreamSlot(i)
    BY <1>0, <1>2 DEF StreamInv
  <2>2. ASSUME NEW i \in 1..N PROVE StreamSlot(i)'
    <3>1. slot'[i] = slot[i] /\ out'[i] = out[i] /\ calls'[i] = calls[i] /\ StreamSlot(i)
      BY <2>1, <1>4, <1>6, <1>7
    <3>2. task[i] # "none" <=> task'[i] # "none"
      BY <1>9
    <3> QED BY <3>1, <3>2 DEF StreamSlot
  <2>3. StreamSlot(N + 1)'
    BY <1>3, <1>4, <1>6, <1>7, <1>8 DEF StreamSlot
  <2> QED BY <1>0, <1>5, <1>10, <1>13, <2>2, <2>3 DEF StreamInv
<1>16. TypeOK'
  <2>1. Len(calls') <= MaxCalls
    BY <1>1, <1>4, LimitsAssumption
  <2>2. joined' \subseteq Indices'
    BY <1>2, <1>5, <1>10
  <2>3. batches' = <<>> /\ waiting' = <<>> /\ history' = <<>>
    BY <1>0 DEF StreamInv
  <2>4. batches' \in Seq(Seq(Indices')) /\ waiting' \in Seq(Indices') /\ history' \in Seq(Indices')
    BY <2>3
  <2>5. {guard, checkpoint}' \subseteq [key : Keys \cup {NoKey}, streak : 0..ForceStop]
    BY <1>0 DEF TypeOK
  <2> QED BY <1>0, <1>4, <1>5, <1>6, <1>7, <1>8, <1>13, <1>14, <2>1, <2>2, <2>4, <2>5 DEF TypeOK
<1>17. GuardInv'
  BY DEF DispatchInv, GuardInv
<1>18. \A d \in discarded' : OnlyReads(d)
  BY DEF DispatchInv
<1> QED
  BY <1>11, <1>14, <1>15, <1>16, <1>17, <1>18 DEF DispatchInv, PhaseInv

(* What the repeat guard notes.                                            *)
LEMMA TrackFacts ==
    ASSUME TypeOK, GuardInv, ~repeatStop, NEW c \in Calls
    PROVE  track(c.key) \in [key : Keys \cup {NoKey}, streak : 0..ForceStop]
<1>1. c.key \in Keys
  BY DEF Keys
<1>2. guard.streak \in 0..ForceStop /\ guard.streak < ForceStop
  BY DEF TypeOK, GuardInv
<1>3. (IF guard.key = c.key THEN guard.streak + 1 ELSE 1) \in 0..ForceStop
  BY <1>2, LimitsAssumption
<1> QED
  BY <1>1, <1>3 DEF track

LEMMA DeclareStoppedKeeps ==
    ASSUME DispatchInv, NEW c \in Calls, DeclareStopped(c)
    PROVE  DispatchInv'
<1> USE DEF turn, ledger
<1>1. /\ pc = "stream" /\ Len(calls) < MaxCalls /\ AddCall(c, "none", task, "none")
      /\ UNCHANGED <<pc, history, emitted, batches, waiting, checkpoint, retries, cancelled, discarded>>
      /\ joined' = joined /\ aborted' = aborted
  BY DEF DeclareStopped
<1>2. TypeOK /\ GuardInv
  BY DEF DispatchInv
<1>3. joined' \subseteq Indices /\ aborted' \in BOOLEAN
  BY <1>1, <1>2 DEF TypeOK
<1>4. repeatStop' = TRUE
  BY <1>2 DEF DeclareStopped, TypeOK
<1>5. guard' \in [key : Keys \cup {NoKey}, streak : 0..ForceStop]
  <2>1. CASE ~repeatStop
    BY <1>2, <2>1, TrackFacts DEF DeclareStopped
  <2>2. CASE repeatStop
    BY <1>2, <2>2 DEF DeclareStopped, TypeOK
  <2> QED BY <2>1, <2>2
<1> QED
  BY <1>1, <1>3, <1>4, <1>5, AddCallKeeps

LEMMA GateFacts ==
    ASSUME DispatchInv, NEW c \in Calls, Gate(c)
    PROVE  /\ pc = "stream" /\ Len(calls) < MaxCalls
           /\ UNCHANGED <<pc, history, batches, waiting, checkpoint, retries, cancelled, discarded>>
           /\ repeatStop' \in BOOLEAN /\ (repeatStop => repeatStop')
           /\ guard' \in [key : Keys \cup {NoKey}, streak : 0..ForceStop]
           /\ guard'.streak < ForceStop
<1>1. TypeOK /\ GuardInv /\ ~repeatStop
  BY DEF DispatchInv, Gate
<1>2. guard' \in [key : Keys \cup {NoKey}, streak : 0..ForceStop] /\ guard'.streak < ForceStop
  BY <1>1, TrackFacts DEF Gate
<1> QED
  BY <1>1, <1>2 DEF Gate, turn, TypeOK

LEMMA DeclareRefusedKeeps ==
    ASSUME DispatchInv, NEW c \in Calls, DeclareRefused(c)
    PROVE  DispatchInv'
<1>1. /\ AddCall(c, "done", task, "denied") /\ emitted' = Append(emitted, Len(calls) + 1)
      /\ Gate(c)
  BY DEF DeclareRefused
<1>2. joined' \subseteq Indices /\ aborted' \in BOOLEAN
  BY DEF DeclareRefused, DispatchInv, TypeOK
<1>3. /\ pc = "stream" /\ Len(calls) < MaxCalls
      /\ UNCHANGED <<pc, history, batches, waiting, checkpoint, retries, cancelled, discarded>>
      /\ repeatStop' \in BOOLEAN /\ (repeatStop => repeatStop')
      /\ guard' \in [key : Keys \cup {NoKey}, streak : 0..ForceStop]
      /\ guard'.streak < ForceStop
  BY <1>1, GateFacts
<1> QED
  BY <1>1, <1>2, <1>3, AddCallKeeps

LEMMA EarlyGateKeeps ==
    ASSUME DispatchInv, NEW c \in Calls, early_gate_dispatch(c)
    PROVE  DispatchInv'
<1>0. PICK s : s = IF eligible(c) THEN "running" ELSE "gated"
  OBVIOUS
<1>1. /\ AddCall(c, s, PolledTasks, "none") /\ emitted' = emitted
      /\ Gate(c)
  BY <1>0 DEF early_gate_dispatch
<1>2. joined' \subseteq Indices /\ aborted' \in BOOLEAN
  BY DEF early_gate_dispatch, DispatchInv, TypeOK, Ended
<1>3. /\ pc = "stream" /\ Len(calls) < MaxCalls
      /\ UNCHANGED <<pc, history, batches, waiting, checkpoint, retries, cancelled, discarded>>
      /\ repeatStop' \in BOOLEAN /\ (repeatStop => repeatStop')
      /\ guard' \in [key : Keys \cup {NoKey}, streak : 0..ForceStop]
      /\ guard'.streak < ForceStop
  BY <1>1, GateFacts
<1>4. PICK t : t = PolledTasks
  OBVIOUS
<1>5. t = task \/ t = AbortAll(task)
  BY <1>4 DEF PolledTasks
<1>6. \/ s = "gated"
      \/ s = "running" /\ OnlyReads(c) /\ Cardinality(Live) < MaxConc
  <2>1. CASE eligible(c)
    <3>1. c.acc \in Declarations
      BY CallsAssumption
    <3>2. /\ ~normalize_accesses(c.acc).all /\ normalize_accesses(c.acc).writes = {}
          /\ c.direct /\ Cardinality(Live) < MaxConc
      BY <2>1 DEF eligible
    <3>3. OnlyReads(c)
      BY <3>1, <3>2, NormalKeeps DEF OnlyReads
    <3> QED BY <1>0, <2>1, <3>2, <3>3
  <2> QED BY <1>0, <2>1
<1>7. CASE s = "gated"
  BY <1>1, <1>2, <1>3, <1>4, <1>5, <1>7, AddCallKeeps
<1>8. CASE s = "running" /\ OnlyReads(c) /\ Cardinality(Live) < MaxConc
  BY <1>1, <1>2, <1>3, <1>4, <1>5, <1>8, AddCallKeeps
<1> QED
  BY <1>6, <1>7, <1>8

(* The calls of a discarded attempt that had begun.                        *)
LEMMA DiscardedFacts ==
    ASSUME DispatchInv, pc = "stream",
           discarded' = discarded \cup {calls[i] : i \in Range(started)}
    PROVE  discarded' \subseteq Calls /\ \A c \in discarded' : OnlyReads(c)
<1>1. TypeOK /\ StreamInv /\ \A c \in discarded : OnlyReads(c)
  BY DEF DispatchInv, PhaseInv
<1>2. ASSUME NEW i \in Range(started) PROVE calls[i] \in Calls /\ OnlyReads(calls[i])
  <2>1. i \in Indices
    BY <1>1 DEF TypeOK, Range
  <2>2. slot[i] = "running" /\ StreamSlot(i)
    BY <1>1, <2>1 DEF StreamInv
  <2>3. calls[i] \in Calls
    BY <1>1, <2>1 DEF TypeOK, Indices
  <2> QED BY <2>2, <2>3 DEF StreamSlot
<1> QED
  BY <1>1, <1>2 DEF TypeOK

LEMMA RetryStreamKeeps ==
    ASSUME DispatchInv, RetryStream
    PROVE  DispatchInv'
<1>1. TypeOK /\ GuardInv /\ StreamInv /\ pc = "stream" /\ pc' = pc
  BY DEF DispatchInv, PhaseInv, RetryStream
<1>2. discarded' \subseteq Calls /\ \A c \in discarded' : OnlyReads(c)
  BY <1>1, DiscardedFacts DEF RetryStream
<1>3. Len(calls') = 0 /\ Indices' = {} /\ Live' = {}
  BY DEF RetryStream, Indices, Live
<1>4. Cardinality(Live') <= MaxConc
  <2>1. Cardinality({}) = 0
    BY FS_EmptySet
  <2> QED BY <1>3, <2>1, LimitsAssumption
<1>5. /\ calls' \in Seq(Calls) /\ Len(calls') <= MaxCalls
      /\ batches' \in Seq(Seq(Indices')) /\ waiting' \in Seq(Indices')
      /\ history' \in Seq(Indices') /\ emitted' \in Seq(Indices')
      /\ started' \in Seq(Indices')
  BY <1>1, <1>3, LimitsAssumption DEF RetryStream, StreamInv
<1>6. /\ slot' \in [Indices' -> {"none", "gated", "running", "done"}]
      /\ task' \in [Indices' -> {"none", "running", "aborting", "ok", "err", "cut"}]
      /\ out' \in [Indices' -> {"none", "denied", "ok", "err", "cut"}]
  BY <1>3 DEF RetryStream
<1>7. retries' \in 0..MaxRetries
  BY <1>1, LimitsAssumption DEF RetryStream, TypeOK
<1>8. {guard, checkpoint}' \subseteq [key : Keys \cup {NoKey}, streak : 0..ForceStop]
  BY <1>1 DEF RetryStream, TypeOK
<1>9. TypeOK'
  BY <1>1, <1>2, <1>3, <1>5, <1>6, <1>7, <1>8 DEF RetryStream, TypeOK
<1>10. GuardInv'
  BY <1>1 DEF RetryStream, GuardInv
<1>11. Range(started') = {} /\ Range(emitted') = {}
  BY DEF RetryStream, Range
<1>12. Reported'
  BY <1>3, <1>11 DEF RetryStream, Reported, NoDuplicates
<1>13. StreamInv'
  BY <1>1, <1>3, <1>11 DEF RetryStream, StreamInv
<1> QED
  BY <1>1, <1>2, <1>4, <1>9, <1>10, <1>12, <1>13 DEF DispatchInv, PhaseInv

(* Dropping the task set leaves nothing in flight.                         *)
LEMMA CutFacts ==
    ASSUME TypeOK, UNCHANGED calls,
           task' = [i \in Indices |-> IF task[i] \in {"running", "aborting"} THEN "cut" ELSE task[i]]
    PROVE  /\ task' \in [Indices -> {"none", "running", "aborting", "ok", "err", "cut"}]
           /\ Indices' = Indices /\ Live' = {} /\ Cardinality(Live') <= MaxConc
<1>1. Indices' = Indices
  BY DEF Indices
<1>2. Live' = {}
  BY <1>1 DEF Live
<1>3. Cardinality({}) = 0
  BY FS_EmptySet
<1>4. task' \in [Indices -> {"none", "running", "aborting", "ok", "err", "cut"}]
  BY DEF TypeOK
<1> QED
  BY <1>1, <1>2, <1>3, <1>4, LimitsAssumption

LEMMA StreamFailedKeeps ==
    ASSUME DispatchInv, StreamFailed
    PROVE  DispatchInv'
<1> USE DEF attempt, turn, ledger
<1>1. TypeOK /\ pc = "stream" /\ UNCHANGED calls
  BY DEF DispatchInv, StreamFailed
<1>2. discarded' \subseteq Calls /\ \A c \in discarded' : OnlyReads(c)
  BY <1>1, DiscardedFacts DEF StreamFailed
<1>3. /\ task' \in [Indices -> {"none", "running", "aborting", "ok", "err", "cut"}]
      /\ Indices' = Indices /\ Live' = {} /\ Cardinality(Live') <= MaxConc
  BY <1>1, CutFacts DEF StreamFailed
<1>4. TypeOK'
  BY <1>1, <1>2, <1>3 DEF StreamFailed, TypeOK
<1>5. GuardInv' /\ Reported'
  BY <1>3 DEF DispatchInv, StreamFailed, GuardInv, Reported
<1>6. PhaseInv'
  BY <1>3 DEF StreamFailed, PhaseInv
<1> QED
  BY <1>2, <1>3, <1>4, <1>5, <1>6 DEF DispatchInv

(* Reports for calls that have had none, in declaration order.             *)
LEMMA ReportFacts ==
    ASSUME DispatchInv, NEW S, S \subseteq Indices, \A i \in S : out[i] = "none",
           NEW order \in Seq(Indices), Range(order) = S, NoDuplicates(order),
           emitted' = emitted \o order, UNCHANGED calls,
           \A i \in Indices : i \in S => out'[i] # "none",
           \A i \in Indices : i \notin S => out'[i] = out[i]
    PROVE  emitted' \in Seq(Indices) /\ Reported'
<1>1. Range(emitted) = {i \in Indices : out[i] # "none"} /\ NoDuplicates(emitted)
  BY DEF DispatchInv, Reported
<1>2. emitted \in Seq(Indices) /\ Indices' = Indices
  BY DEF DispatchInv, TypeOK, Indices
<1>3. Range(emitted) \cap Range(order) = {}
  BY <1>1
<1>4. /\ emitted' \in Seq(Indices) /\ Range(emitted') = Range(emitted) \cup Range(order)
      /\ NoDuplicates(emitted')
  <2>1. emitted \in Seq(Indices)
    BY <1>2
  <2>2. Join(Indices, emitted, order, emitted')
    BY <2>1, RangeConcat
  <2> QED BY <1>1, <1>3, <2>2 DEF Join
<1>5. Range(emitted') = {i \in Indices : out'[i] # "none"}
  BY <1>1, <1>4
<1> QED
  BY <1>2, <1>4, <1>5 DEF Reported

LEMMA InOrderReport ==
    ASSUME TypeOK, NEW S, S \subseteq Indices, NEW s, s = InOrder(S)
    PROVE  s \in Seq(Indices) /\ Range(s) = S /\ NoDuplicates(s)
<1>1. PICK N \in Nat : N = Len(calls)
  BY Basics
<1>2. Indices = 1..N /\ [i \in Indices |-> i] = Interval(0, N)
  BY <1>1, Basics
<1>3. S \subseteq 1..N /\ s = At(Interval(0, N), S)
  BY <1>2 DEF InOrder
<1>4. s \in Seq(1..N) /\ Range(s) = S /\ NoDuplicates(s)
  BY <1>3, InOrderFacts
<1> QED
  BY <1>2, <1>4

LEMMA WindDownKeeps ==
    ASSUME DispatchInv, wind_down_early
    PROVE  DispatchInv'
<1> USE DEF attempt, turn
<1> DEFINE running == {i \in Indices : slot[i] = "running"}
<1>1. TypeOK /\ pc = "stream" /\ UNCHANGED calls /\ StreamInv
  BY DEF DispatchInv, wind_down_early, PhaseInv
<1>2. discarded' \subseteq Calls /\ \A c \in discarded' : OnlyReads(c)
  BY <1>1, DiscardedFacts DEF wind_down_early
<1>3. /\ task' \in [Indices -> {"none", "running", "aborting", "ok", "err", "cut"}]
      /\ Indices' = Indices /\ Live' = {} /\ Cardinality(Live') <= MaxConc
  BY <1>1, CutFacts DEF wind_down_early
<1>4. PICK s : s = InOrder(running)
  OBVIOUS
<1>5. /\ out' = [i \in Indices |-> IF i \in running THEN "cut" ELSE out[i]]
      /\ emitted' = emitted \o s
  BY <1>4 DEF wind_down_early
<1>6. running \subseteq Indices /\ \A i \in running : out[i] = "none"
  BY <1>1 DEF StreamInv, StreamSlot
<1> HIDE DEF running
<1>7. s \in Seq(Indices) /\ Range(s) = running /\ NoDuplicates(s)
  BY <1>1, <1>4, <1>6, InOrderReport
<1>8. /\ \A i \in Indices : i \in running => out'[i] # "none"
      /\ \A i \in Indices : i \notin running => out'[i] = out[i]
  BY <1>5
<1>9. emitted' \in Seq(Indices) /\ Reported'
  BY <1>1, <1>5, <1>6, <1>7, <1>8, ReportFacts
<1>10. out' \in [Indices -> {"none", "denied", "ok", "err", "cut"}]
  BY <1>1, <1>5 DEF TypeOK
<1>11. TypeOK'
  BY <1>1, <1>2, <1>3, <1>9, <1>10 DEF wind_down_early, TypeOK
<1>12. GuardInv' /\ PhaseInv'
  BY <1>3 DEF DispatchInv, wind_down_early, GuardInv, PhaseInv
<1> QED
  BY <1>2, <1>3, <1>9, <1>11, <1>12 DEF DispatchInv

LEMMA StreamEndsKeeps ==
    ASSUME DispatchInv, StreamEnds
    PROVE  DispatchInv'
<1> USE DEF attempt, turn, ledger, StreamEnds
<1>1. Indices' = Indices /\ Live' = Live
  BY DEF Indices, Live
<1>2. TypeOK'
  BY <1>1 DEF DispatchInv, TypeOK
<1>3. StreamInv'
  BY <1>1 DEF DispatchInv, PhaseInv, StreamInv, StreamSlot, OnlyReads
<1>4. GuardInv' /\ Reported'
  BY <1>1 DEF DispatchInv, GuardInv, Reported
<1> QED
  BY <1>1, <1>2, <1>3, <1>4 DEF DispatchInv, PhaseInv

LEMMA SameKeeps ==
    ASSUME DispatchInv, cancelled' \in BOOLEAN,
           UNCHANGED <<pc, calls, slot, task, joined, out, aborted, guard, checkpoint, repeatStop,
                       retries, batches, waiting, history, emitted, started, discarded>>
    PROVE  DispatchInv'
<1>1. Indices' = Indices /\ Live' = Live
  BY DEF Indices, Live
<1>2. TypeOK'
  BY <1>1 DEF DispatchInv, TypeOK
<1>3. GuardInv' /\ Reported'
  BY <1>1 DEF DispatchInv, GuardInv, Reported
<1>4. pc \in {"stream", "drain"} => StreamInv'
  BY <1>1 DEF DispatchInv, PhaseInv, StreamInv, StreamSlot, OnlyReads
<1>5. ASSUME NEW k, BatchInv(k) PROVE BatchInv(k)'
  BY <1>1, <1>5 DEF BatchInv, Recorded, Settled, Apart, Acc
<1>6. pc = "prepare" => \E k \in 0..Len(calls') : PrepareInv(k)'
  BY <1>1, <1>5 DEF DispatchInv, PhaseInv, PrepareInv, Untouched
<1>7. pc = "execute" => \E k \in 0..Len(calls') : ExecuteInv(k)'
  BY <1>1, <1>5 DEF DispatchInv, PhaseInv, ExecuteInv, Untouched, Prepared
<1>8. pc = "end" => Live' = {} /\ Accounts' /\ Range(history') \subseteq Range(emitted')
  BY <1>1 DEF DispatchInv, PhaseInv, Accounts, InOrder
<1>9. PhaseInv'
  BY <1>1, <1>4, <1>6, <1>7, <1>8 DEF DispatchInv, PhaseInv
<1> QED
  BY <1>1, <1>2, <1>3, <1>9 DEF DispatchInv

LEMMA DrainKeeps ==
    ASSUME DispatchInv, NEW i \in Indices, drain(i)
    PROVE  DispatchInv'
<1> USE DEF attempt, turn, ledger
<1>1. TypeOK /\ pc = "drain" /\ StreamInv /\ Indices' = Indices
  BY DEF DispatchInv, drain, PhaseInv, Indices
<1>2. task' = task \/ task' = AbortAll(task)
  BY DEF drain, Joins
<1>3. /\ task' \in [Indices -> {"none", "running", "aborting", "ok", "err", "cut"}]
      /\ \A j \in Indices : /\ task'[j] \in {"running", "aborting"} <=> task[j] \in {"running", "aborting"}
                            /\ task[j] \notin {"running", "aborting"} => task'[j] = task[j]
  BY <1>1, <1>2, AbortFacts
<1>4. Live' = Live
  BY <1>1, <1>3 DEF Live
<1>5. joined' \subseteq Indices /\ aborted' \in BOOLEAN
  BY <1>1 DEF drain, Joins, TypeOK
<1>6. TypeOK'
  BY <1>1, <1>3, <1>5 DEF drain, TypeOK
<1>7. \A j \in Indices : StreamSlot(j)'
  <2> SUFFICES ASSUME NEW j \in Indices PROVE StreamSlot(j)'
    OBVIOUS
  <2>1. StreamSlot(j)
    BY <1>1 DEF StreamInv
  <2>2. task[j] # "none" <=> task'[j] # "none"
    BY <1>3
  <2>3. slot' = slot /\ out' = out /\ calls' = calls /\ repeatStop' = repeatStop
    BY DEF drain
  <2> QED BY <2>1, <2>2, <2>3 DEF StreamSlot
<1>8. StreamInv'
  BY <1>1, <1>7 DEF drain, StreamInv
<1>9. GuardInv' /\ Reported'
  BY <1>1 DEF DispatchInv, drain, GuardInv, Reported
<1>10. pc' = "drain" /\ discarded' = discarded
  BY <1>1 DEF drain
<1> QED
  BY <1>4, <1>6, <1>8, <1>9, <1>10 DEF DispatchInv, PhaseInv

(* What the calls dispatched beside the stream came to.                    *)
LEMMA DrainedFacts ==
    ASSUME DispatchInv, drain_early_finalize,
           NEW running, running = {i \in Indices : slot[i] = "running"}
    PROVE  /\ TypeOK /\ StreamInv /\ Live = {} /\ pc = "drain" /\ Indices' = Indices
           /\ \A i \in running : task[i] \in {"ok", "err", "cut"} /\ out[i] = "none" /\ out'[i] = task[i]
           /\ \A i \in Indices \ running : out'[i] = out[i] /\ task[i] = "none"
           /\ out' \in [Indices -> {"none", "denied", "ok", "err", "cut"}]
           /\ emitted' \in Seq(Indices) /\ Reported'
<1> USE DEF turn
<1>1. TypeOK /\ StreamInv /\ Live = {} /\ pc = "drain" /\ Indices' = Indices
  BY DEF DispatchInv, PhaseInv, drain_early_finalize, Indices
<1>2. out' = Outcomes(running) /\ UNCHANGED calls
  BY DEF drain_early_finalize
<1>3. running \subseteq Indices
  OBVIOUS
<1>4. \A i \in Indices : /\ slot[i] = "running" => task[i] # "none" /\ out[i] = "none"
                         /\ slot[i] # "running" => task[i] = "none"
  BY <1>1 DEF StreamInv, StreamSlot
<1>5. ASSUME NEW i \in running
      PROVE  task[i] \in {"ok", "err", "cut"} /\ out[i] = "none" /\ out'[i] = task[i]
  <2>1. i \in Indices /\ task[i] # "none" /\ out[i] = "none"
    BY <1>3, <1>4
  <2>2. task[i] \notin {"running", "aborting"}
    BY <1>1, <2>1 DEF Live
  <2>3. task[i] \in {"none", "running", "aborting", "ok", "err", "cut"}
    BY <1>1, <2>1 DEF TypeOK
  <2>4. out'[i] = task[i]
    BY <1>2, <2>1 DEF Outcomes
  <2> QED BY <2>1, <2>2, <2>3, <2>4
<1>6. \A i \in Indices \ running : out'[i] = out[i] /\ task[i] = "none"
  BY <1>2, <1>4 DEF Outcomes
<1>7. out' \in [Indices -> {"none", "denied", "ok", "err", "cut"}]
  <2>1. \A i \in Indices : out'[i] \in {"none", "denied", "ok", "err", "cut"}
    BY <1>1, <1>5, <1>6 DEF TypeOK
  <2> QED BY <1>2, <2>1 DEF Outcomes
<1>8. PICK s : s = InOrder(running)
  OBVIOUS
<1>9. emitted' = emitted \o s
  BY <1>8 DEF drain_early_finalize
<1>10. s \in Seq(Indices) /\ Range(s) = running /\ NoDuplicates(s)
  BY <1>1, <1>3, <1>8, InOrderReport
<1>11. /\ \A i \in running : out[i] = "none"
       /\ \A i \in Indices : i \in running => out'[i] # "none"
       /\ \A i \in Indices : i \notin running => out'[i] = out[i]
  BY <1>5, <1>6
<1>12. emitted' \in Seq(Indices) /\ Reported'
  BY <1>2, <1>3, <1>9, <1>10, <1>11, ReportFacts
<1> QED
  BY <1>1, <1>5, <1>6, <1>7, <1>12

(* A forced stop: the accounts are closed.                                 *)
LEMMA ForcedStopKeeps ==
    ASSUME DispatchInv, drain_early_finalize, repeatStop
    PROVE  DispatchInv'
<1> USE DEF turn
<1> DEFINE running == {i \in Indices : slot[i] = "running"}
<1>1. /\ TypeOK /\ StreamInv /\ Live = {} /\ pc = "drain" /\ Indices' = Indices
      /\ \A i \in running : task[i] \in {"ok", "err", "cut"} /\ out[i] = "none" /\ out'[i] = task[i]
      /\ \A i \in Indices \ running : out'[i] = out[i] /\ task[i] = "none"
      /\ out' \in [Indices -> {"none", "denied", "ok", "err", "cut"}]
      /\ emitted' \in Seq(Indices) /\ Reported'
  BY DrainedFacts
<1>2. /\ slot' = [i \in Indices |-> IF i \in running THEN "done" ELSE slot[i]]
      /\ absorb_outcome([i \in Indices |-> i], out') /\ pc' = "end" /\ batches' = batches
      /\ UNCHANGED <<checkpoint, retries, cancelled, calls, task, joined, aborted, guard, repeatStop,
                     waiting, started, discarded>>
  BY DEF drain_early_finalize
<1>3. PICK N \in Nat : N = Len(calls)
  BY <1>1, Basics
<1>4. Indices = 1..N /\ [i \in Indices |-> i] = Interval(0, N)
  BY <1>1, <1>3, Basics
<1>5. PICK all : all = Interval(0, N)
  OBVIOUS
<1>6. all \in Seq(1..N) /\ Len(all) = N /\ \A i \in 1..N : all[i] = i
  BY <1>5, IntervalFromOne
<1> DEFINE K == {k \in DOMAIN all : out'[all[k]] \notin {"none", "cut"}}
           S == {i \in Indices : task[i] \in {"ok", "err"} \/ out'[i] = "denied"}
<1>7. history' = <<>> \o At(all, K)
  BY <1>1, <1>2, <1>4, <1>5 DEF absorb_outcome, StreamInv
<1>8. \A i \in 1..N : i \in K <=> i \in S
  <2> SUFFICES ASSUME NEW i \in 1..N PROVE i \in K <=> i \in S
    OBVIOUS
  <2>1. i \in K <=> out'[i] \notin {"none", "cut"}
    BY <1>6
  <2>2. CASE i \in running
    BY <1>1, <1>4, <2>1, <2>2
  <2>3. CASE i \notin running
    <3>1. task[i] = "none" /\ out'[i] = out[i] /\ slot[i] # "running"
      BY <1>1, <1>4, <2>3
    <3>2. out[i] \in {"none", "denied"}
      BY <1>1, <1>4, <3>1 DEF StreamInv, StreamSlot, TypeOK
    <3> QED BY <1>4, <2>1, <3>1, <3>2
  <2> QED BY <2>2, <2>3
<1> HIDE DEF K, S
<1>9. At(all, K) = At(all, S)
  <2>1. \A i \in 1..Len(all) : i \in K <=> i \in S
    BY <1>6, <1>8
  <2>2. all \in Seq(1..N)
    BY <1>6
  <2> QED BY <2>1, <2>2, AtSame
<1>10. S \subseteq 1..N /\ \A i \in S : out'[i] # "none"
  BY <1>1, <1>4 DEF S
<1>11. /\ At(all, S) \in Seq(1..N) /\ Range(At(all, S)) = S
  BY <1>5, <1>10, InOrderFacts
<1>12. history' = At(all, S)
  BY <1>7, <1>9, <1>11
<1>13. Accounts'
  <2>1. [i \in Indices' |-> i] = all
    BY <1>1, <1>4, <1>5
  <2>2. {i \in Indices' : task'[i] \in {"ok", "err"} \/ out'[i] = "denied"} = S
    BY <1>1, <1>2 DEF S
  <2> QED BY <1>12, <2>1, <2>2 DEF Accounts, InOrder
<1>14. Range(history') \subseteq Range(emitted')
  BY <1>1, <1>4, <1>10, <1>11, <1>12 DEF Reported
<1>15. Live' = {}
  BY <1>1, <1>2 DEF Live
<1>16. Cardinality(Live') <= MaxConc
  BY <1>1, <1>15 DEF DispatchInv
<1>17. slot' \in [Indices -> {"none", "gated", "running", "done"}]
  BY <1>1, <1>2 DEF TypeOK
<1>18. TypeOK'
  BY <1>1, <1>2, <1>4, <1>11, <1>12, <1>17 DEF TypeOK
<1>19. GuardInv' /\ PhaseInv'
  BY <1>2, <1>13, <1>14, <1>15 DEF DispatchInv, GuardInv, PhaseInv
<1> QED
  BY <1>1, <1>2, <1>16, <1>18, <1>19 DEF DispatchInv

(* Otherwise the whole turn is planned.                                    *)
LEMMA PlannedKeeps ==
    ASSUME DispatchInv, drain_early_finalize, ~repeatStop
    PROVE  DispatchInv'
<1> USE DEF turn
<1> DEFINE running == {i \in Indices : slot[i] = "running"}
           D == [i \in Indices |-> calls[i].acc]
<1>1. /\ TypeOK /\ StreamInv /\ Live = {} /\ pc = "drain" /\ Indices' = Indices
      /\ \A i \in running : task[i] \in {"ok", "err", "cut"} /\ out[i] = "none" /\ out'[i] = task[i]
      /\ \A i \in Indices \ running : out'[i] = out[i] /\ task[i] = "none"
      /\ out' \in [Indices -> {"none", "denied", "ok", "err", "cut"}]
      /\ emitted' \in Seq(Indices) /\ Reported'
  BY DrainedFacts
<1>2. /\ slot' = [i \in Indices |-> IF i \in running THEN "done" ELSE slot[i]]
      /\ batches' = plan_batches(D) /\ pc' = "prepare" /\ history' = history
      /\ UNCHANGED <<checkpoint, retries, cancelled, calls, task, joined, aborted, guard, repeatStop,
                     waiting, started, discarded>>
  BY DEF drain_early_finalize
<1>3. PICK N \in Nat : N = Len(calls)
  BY <1>1, Basics
<1>4. Indices = 1..N
  BY <1>1, <1>3, Basics
<1>5. /\ D \in Seq({calls[i].acc : i \in Indices}) /\ Len(D) = N
      /\ \A i \in 1..N : D[i] = calls[i].acc
  BY <1>3, <1>4
<1> HIDE DEF D
<1>6. GoodBatches(D, batches', N)
  BY <1>2, <1>5, PlanSound
<1>7. batches' \in Seq(Seq(1..N)) /\ Chain(batches', 0, N)
  BY <1>6 DEF GoodBatches
<1>8. ASSUME NEW b \in Range(batches') PROVE Apart(Range(b))'
  <2>1. b \in Seq(1..N)
    BY <1>7 DEF Range
  <2>2. \A i \in Range(b) : i \in 1..N
    BY <2>1 DEF Range
  <2>3. ApartIn(D, Range(b))
    BY <1>6, <1>8 DEF GoodBatches
  <2>4. \A i \in 1..N : Acc(i)' = Norm(D, i)
    BY <1>2, <1>5 DEF Acc, Norm
  <2> QED BY <2>2, <2>3, <2>4 DEF Apart, ApartIn
<1>9. Recorded(0)'
  <2>1. history' = <<>>
    BY <1>1, <1>2 DEF StreamInv
  <2>2. Interval(0, 0) = <<>> /\ <<>> \in Seq({}) /\ Len(<<>>) = 0
    BY IntervalEmpty
  <2>3. At(<<>>, {i \in 1..0 : out'[i] # "cut"}) = <<>>
    <3>1. PICK e : e = <<>> /\ e \in Seq({}) /\ Len(e) = 0
      BY <2>2
    <3>2. PICK J : J = {i \in 1..0 : out'[i] # "cut"}
      OBVIOUS
    <3>3. \A n \in 1..Len(e) : n \notin J
      BY <3>1
    <3>4. e \in Seq({})
      BY <3>1
    <3>5. At(e, J) = <<>>
      BY <3>3, <3>4, AtNone
    <3> QED BY <3>1, <3>2, <3>5
  <2> QED BY <2>1, <2>2, <2>3 DEF Recorded
<1>10. ASSUME NEW i \in Indices
       PROVE  /\ slot'[i] \in {"gated", "done"}
              /\ slot'[i] = "done" => Settled(i)'
              /\ slot'[i] = "gated" => Untouched(i)'
  <2>1. StreamSlot(i) /\ slot[i] \in {"none", "gated", "running", "done"}
    BY <1>1 DEF StreamInv, TypeOK
  <2>2. CASE slot[i] = "running"
    <3>1. i \in running /\ slot'[i] = "done" /\ task' = task
      BY <1>2, <2>2
    <3>2. task[i] \in {"ok", "err", "cut"} /\ out'[i] = task[i]
      BY <1>1, <3>1
    <3> QED BY <3>1, <3>2 DEF Settled
  <2>3. CASE slot[i] # "running"
    <3>1. slot'[i] = slot[i] /\ task' = task /\ task[i] = "none" /\ out'[i] = out[i]
      BY <1>1, <1>2, <2>3
    <3> QED BY <2>1, <2>3, <3>1 DEF StreamSlot, Settled, Untouched
  <2> QED BY <2>2, <2>3
<1>11. Live' = {}
  BY <1>1, <1>2 DEF Live
<1>12. \A i \in Indices : ~(i <= 0)
  BY <1>4
<1>13. Chain(batches', 0, Len(calls'))
  BY <1>2, <1>3, <1>7
<1>14. BatchInv(0)'
  BY <1>1, <1>8, <1>9, <1>10, <1>11, <1>12, <1>13 DEF BatchInv
<1>15. PrepareInv(0)'
  BY <1>1, <1>10, <1>11, <1>14 DEF PrepareInv
<1>16. PhaseInv'
  <2>1. 0 \in 0..Len(calls')
    BY <1>2, <1>3
  <2> QED BY <1>2, <1>15, <2>1 DEF PhaseInv
<1>17. Cardinality(Live') <= MaxConc
  BY <1>1, <1>11 DEF DispatchInv
<1>18. slot' \in [Indices -> {"none", "gated", "running", "done"}]
  BY <1>1, <1>2 DEF TypeOK
<1>19. TypeOK'
  BY <1>1, <1>2, <1>4, <1>7, <1>18 DEF TypeOK
<1>20. GuardInv'
  BY <1>2 DEF DispatchInv, GuardInv
<1> QED
  BY <1>1, <1>2, <1>16, <1>17, <1>19, <1>20 DEF DispatchInv

(* The calls from k + 1 to m, as a batch.                                  *)
IsBatch(b, k, m, N) ==
    /\ b \in Seq(1..N) /\ Len(b) = m - k /\ DOMAIN b = 1..(m - k)
    /\ \A n \in 1..(m - k) : b[n] = k + n
    /\ Range(b) = (k + 1)..m /\ NoDuplicates(b)

LEMMA BatchShape ==
    ASSUME NEW N \in Nat, NEW k \in Nat, NEW m \in Nat, k < m, m <= N, NEW b, b = Interval(k, m)
    PROVE  IsBatch(b, k, m, N)
<1>1. k <= m
  OBVIOUS
<1>2. /\ b \in Seq((k + 1)..m) /\ Len(b) = m - k
      /\ \A n \in 1..(m - k) : b[n] = k + n
      /\ Range(b) = (k + 1)..m /\ NoDuplicates(b)
  BY <1>1, IntervalFacts, ZenonT(60)
<1>3. (k + 1)..m \subseteq 1..N
  OBVIOUS
<1>4. b \in Seq(1..N)
  <2>1. b \in Seq((k + 1)..m)
    BY <1>2
  <2> QED BY <1>3, <2>1, SeqMonotonic
<1>5. DOMAIN b = 1..(m - k)
  BY <1>2
<1> QED
  BY <1>2, <1>4, <1>5 DEF IsBatch

(* The batch in progress.                                                  *)
LEMMA BatchFacts ==
    ASSUME TypeOK, NEW N \in Nat, N = Len(calls), NEW k \in 0..N, BatchInv(k), batches # <<>>
    PROVE  \E m \in 0..N :
              /\ k < m /\ Head(batches) = Interval(k, m) /\ Chain(Tail(batches), m, N)
              /\ IsBatch(Head(batches), k, m, N) /\ Apart((k + 1)..m)
<1>1. k \in Nat /\ k <= N /\ Indices = 1..N
  BY DEF Indices
<1>2. batches \in Seq(Seq(1..N)) /\ Chain(batches, k, N)
  BY <1>1 DEF TypeOK, BatchInv
<1>3. batches \in Seq(Seq(1..N))
  BY <1>2
<1>4. PICK m \in 0..N : k < m /\ Head(batches) = Interval(k, m) /\ Chain(Tail(batches), m, N)
  <2>1. k \in Nat /\ Chain(batches, k, N)
    BY <1>1, <1>2
  <2> QED BY <1>3, <2>1, ChainTail
<1>5. m \in Nat /\ k <= m
  BY <1>1, <1>4
<1>6. PICK b : b = Head(batches)
  OBVIOUS
<1>7. IsBatch(b, k, m, N)
  BY <1>1, <1>4, <1>5, <1>6, BatchShape
<1>10. b \in Range(batches)
  <2>1. batches[1] = b /\ 1 \in DOMAIN batches
    BY <1>3, <1>6
  <2> QED BY <2>1 DEF Range
<1>11. Apart((k + 1)..m)
  BY <1>7, <1>10 DEF BatchInv, IsBatch
<1> QED
  BY <1>4, <1>6, <1>7, <1>11

LEMMA PrepareBatchKeeps ==
    ASSUME DispatchInv, NEW R, prepare_batch(R)
    PROVE  DispatchInv'
<1> USE DEF attempt, turn
<1>1. TypeOK /\ pc = "prepare" /\ batches # <<>> /\ Indices' = Indices /\ UNCHANGED calls
  BY DEF DispatchInv, prepare_batch, Indices
<1>2. PICK N \in Nat : N = Len(calls)
  BY <1>1, Basics
<1>3. Indices = 1..N
  BY <1>1, <1>2, Basics
<1>4. PICK k \in 0..N : PrepareInv(k)
  BY <1>1, <1>2 DEF DispatchInv, PhaseInv
<1>5. BatchInv(k) /\ Live = {} /\ k \in Nat
  BY <1>4 DEF PrepareInv
<1>6. PICK m \in 0..N :
              /\ k < m /\ Head(batches) = Interval(k, m) /\ Chain(Tail(batches), m, N)
              /\ IsBatch(Head(batches), k, m, N) /\ Apart((k + 1)..m)
  BY <1>1, <1>2, <1>5, BatchFacts
<1>7. PICK b : b = Head(batches) /\ b \in Seq(1..N) /\ IsBatch(b, k, m, N)
  BY <1>6 DEF IsBatch
<1> DEFINE gated == {n \in DOMAIN b : slot[b[n]] = "gated"}
           I == {n \in gated : b[n] \notin R}
           Ready == {i \in (k + 1)..m : slot[i] = "gated" /\ i \notin R}
<1>8. PICK q : q = At(b, I)
  OBVIOUS
<1>9. PICK w : w = Window(q, MaxConc)
  OBVIOUS
<1>10. PICK r : r = Beyond(q, MaxConc)
  OBVIOUS
<1>11. /\ R \subseteq {b[n] : n \in gated}
       /\ out' = [i \in Indices |-> IF i \in R THEN "denied" ELSE out[i]]
       /\ emitted' = emitted \o InOrder(R)
       /\ task' = Spawn(task, Range(w)) /\ started' = started \o w /\ waiting' = r
       /\ aborted' = FALSE /\ pc' = "execute"
       /\ UNCHANGED <<slot, checkpoint, retries, cancelled, joined, guard, repeatStop, batches, history,
                      discarded>>
  BY <1>7, <1>8, <1>9, <1>10 DEF prepare_batch
<1>12. \A i \in R : i \in (k + 1)..m /\ slot[i] = "gated"
  <2>1. \A n \in DOMAIN b : b[n] \in Range(b)
    BY DEF Range
  <2> QED BY <1>6, <1>7, <1>11, <2>1 DEF IsBatch
<1>13. \A i \in (k + 1)..m : i \in Indices /\ i > k /\ ~(i <= k)
  BY <1>3, <1>5, <1>6
<1>14. \A i \in Indices : i > k /\ slot[i] = "gated" => task[i] = "none" /\ out[i] = "none"
  BY <1>4 DEF PrepareInv, Untouched
<1>15. q \in Seq(1..N) /\ Range(q) = Ready /\ NoDuplicates(q)
  <2>1. b \in Seq(1..N)
    BY <1>7
  <2>2. /\ q \in Seq(1..N) /\ Range(q) = {b[n] : n \in (1..Len(b)) \cap I}
        /\ NoDuplicates(b) => NoDuplicates(q)
    <3>0. PICK J : J = I
      OBVIOUS
    <3>1. q = At(b, J)
      BY <1>8, <3>0
    <3>2. /\ q \in Seq(1..N) /\ Range(q) = {b[n] : n \in (1..Len(b)) \cap J}
          /\ NoDuplicates(b) => NoDuplicates(q)
      BY <2>1, <3>1, AtRange
    <3> QED BY <3>0, <3>2
  <2>3. 1..Len(b) = 1..(m - k) /\ DOMAIN b = 1..(m - k) /\ \A n \in 1..(m - k) : b[n] = k + n
    BY <1>6, <1>7 DEF IsBatch
  <2>4. \A i \in (k + 1)..m : i - k \in 1..(m - k) /\ b[i - k] = i
    <3>1. \A i \in (k + 1)..m : i - k \in 1..(m - k) /\ k + (i - k) = i
      BY <1>5, <1>6
    <3> QED BY <2>3, <3>1
  <2>5. \A n \in 1..(m - k) : b[n] \in (k + 1)..m
    BY <1>5, <1>6, <2>3
  <2>6. {b[n] : n \in (1..Len(b)) \cap I} = Ready
    <3>1. ASSUME NEW n \in (1..Len(b)) \cap I PROVE b[n] \in Ready
      BY <2>3, <2>5
    <3>2. ASSUME NEW i \in Ready PROVE \E n \in (1..Len(b)) \cap I : i = b[n]
      <4>1. i - k \in 1..(m - k) /\ b[i - k] = i
        BY <2>4
      <4>2. i - k \in I /\ i - k \in 1..Len(b)
        BY <2>3, <4>1
      <4> QED BY <4>1, <4>2
    <3> QED BY <3>1, <3>2
  <2> QED BY <1>6, <1>7, <2>2, <2>6 DEF IsBatch
<1> HIDE DEF I
<1>16. /\ w \in Seq(1..N) /\ r \in Seq(1..N)
       /\ Range(w) \subseteq Ready /\ Range(r) \subseteq Ready
       /\ IsFiniteSet(Range(w)) /\ Cardinality(Range(w)) <= MaxConc
       /\ NoDuplicates(r) /\ Range(w) \cap Range(r) = {}
  <2>1. q \in Seq(1..N) /\ MaxConc \in Nat
    BY <1>15, LimitsAssumption
  <2>2. Cut(1..N, q, MaxConc, w, r)
    BY <1>9, <1>10, <2>1, WindowFacts
  <2> QED BY <1>15, <2>2 DEF Cut
<1>17. /\ task \in [Indices -> {"none", "running", "aborting", "ok", "err", "cut"}]
       /\ task' = [i \in Indices |-> IF i \in Range(w) THEN "running" ELSE task[i]]
  BY <1>1, <1>11 DEF TypeOK, Spawn
<1>18. Live' = Range(w)
  <2>1. Range(w) \subseteq Indices
    BY <1>13, <1>16
  <2>2. \A i \in Indices : task[i] \notin {"running", "aborting"}
    BY <1>5 DEF Live
  <2> QED BY <1>1, <1>17, <2>1, <2>2 DEF Live
<1>19. emitted' \in Seq(Indices) /\ Reported'
  <2>1. PICK s : s = InOrder(R)
    OBVIOUS
  <2>2. R \subseteq Indices /\ \A i \in R : out[i] = "none"
    BY <1>12, <1>13, <1>14
  <2>3. s \in Seq(Indices) /\ Range(s) = R /\ NoDuplicates(s)
    BY <1>1, <2>1, <2>2, InOrderReport
  <2>4. /\ \A i \in Indices : i \in R => out'[i] # "none"
        /\ \A i \in Indices : i \notin R => out'[i] = out[i]
    BY <1>11
  <2>5. emitted' = emitted \o s
    BY <1>11, <2>1
  <2> QED BY <1>1, <2>2, <2>3, <2>4, <2>5, ReportFacts
<1>20. \A i \in Indices : i \notin (k + 1)..m \/ slot[i] # "gated" => out'[i] = out[i] /\ task'[i] = task[i]
  BY <1>11, <1>12, <1>16, <1>17
<1>21. Recorded(k)'
  <2>1. PICK s : s = Interval(0, k)
    OBVIOUS
  <2>2. s \in Seq(1..k) /\ Len(s) = k
    BY <1>5, <2>1, IntervalFromOne
  <2>3. PICK J : J = {i \in 1..k : out[i] # "cut"}
    OBVIOUS
  <2>4. PICK L : L = {i \in 1..k : out'[i] # "cut"}
    OBVIOUS
  <2>5. \A i \in 1..k : i \in Indices /\ i \notin (k + 1)..m
    BY <1>3, <1>5
  <2>6. \A i \in 1..Len(s) : i \in J <=> i \in L
    BY <1>20, <2>2, <2>3, <2>4, <2>5
  <2>7. s \in Seq(1..k)
    BY <2>2
  <2>8. At(s, J) = At(s, L)
    BY <2>6, <2>7, AtSame
  <2>9. history' = At(s, J)
    BY <1>5, <1>11, <2>1, <2>3 DEF BatchInv, Recorded
  <2> QED BY <2>1, <2>4, <2>8, <2>9 DEF Recorded
<1>22. BatchInv(k)'
  <2>1. ASSUME NEW i \in Indices, i <= k \/ slot[i] = "done" PROVE Settled(i)'
    <3>1. i \notin (k + 1)..m \/ slot[i] # "gated"
      BY <1>13, <2>1
    <3>2. out'[i] = out[i] /\ task'[i] = task[i]
      BY <1>20, <3>1
    <3> QED BY <1>5, <2>1, <3>2 DEF BatchInv, Settled
  <2>2. Chain(batches', k, Len(calls')) /\ \A d \in Range(batches') : Apart(Range(d))'
    BY <1>1, <1>5, <1>11 DEF BatchInv, Apart, Acc
  <2>3. \A i \in Indices : slot[i] \in {"gated", "done"}
    BY <1>5 DEF BatchInv
  <2>4. Live' \subseteq {i \in Indices : i > k /\ slot[i] = "gated"}
    BY <1>13, <1>16, <1>18
  <2> QED BY <1>1, <1>11, <1>21, <2>1, <2>2, <2>3, <2>4 DEF BatchInv
<1>23. ExecuteInv(k)'
  <2>1. ASSUME NEW i \in Indices, i > k, slot[i] = "gated"
        PROVE  /\ i \notin (k + 1)..m => Untouched(i)'
               /\ out'[i] \in {"none", "denied"} /\ (out'[i] = "denied" => task'[i] = "none")
    <3>1. task[i] = "none" /\ out[i] = "none"
      BY <1>14, <2>1
    <3>2. i \notin (k + 1)..m => Untouched(i)'
      BY <1>20, <3>1 DEF Untouched
    <3>3. out'[i] \in {"none", "denied"} /\ (out'[i] = "denied" => i \in R)
      BY <1>11, <3>1
    <3>4. i \in R => task'[i] = "none"
      BY <1>16, <1>17, <3>1
    <3> QED BY <3>2, <3>3, <3>4
  <2>2. ASSUME NEW i \in Range(r) PROVE i \in Prepared' /\ Untouched(i)'
    <3>1. i \in (k + 1)..m /\ slot[i] = "gated" /\ i \notin R /\ i \notin Range(w) /\ i \in Indices
      BY <1>13, <1>16
    <3>2. task'[i] = "none" /\ out'[i] = "none"
      BY <1>11, <1>13, <1>14, <1>17, <3>1
    <3> QED BY <1>6, <1>11, <3>1, <3>2 DEF Prepared, Untouched, IsBatch
  <2>3. Live' \subseteq (k + 1)..m
    BY <1>16, <1>18
  <2> QED BY <1>1, <1>6, <1>11, <1>16, <1>22, <2>1, <2>2, <2>3 DEF ExecuteInv, IsBatch
<1>24. started' \in Seq(Indices) /\ waiting' \in Seq(Indices)
  <2>1. started \in Seq(1..N) /\ w \in Seq(1..N)
    BY <1>1, <1>3, <1>16 DEF TypeOK
  <2>2. started \o w \in Seq(1..N)
    BY <2>1, ConcatProperties
  <2> QED BY <1>3, <1>11, <1>16, <2>2
<1>25. out' \in [Indices -> {"none", "denied", "ok", "err", "cut"}]
  BY <1>1, <1>11 DEF TypeOK
<1>26. task' \in [Indices -> {"none", "running", "aborting", "ok", "err", "cut"}]
  BY <1>17
<1>27. TypeOK'
  BY <1>1, <1>11, <1>19, <1>24, <1>25, <1>26 DEF TypeOK
<1>28. GuardInv' /\ PhaseInv'
  <2>1. k \in 0..Len(calls')
    BY <1>1, <1>2
  <2> QED BY <1>11, <1>23, <2>1 DEF DispatchInv, GuardInv, PhaseInv
<1> QED
  BY <1>11, <1>16, <1>18, <1>19, <1>27, <1>28 DEF DispatchInv

LEMMA JoinNextKeeps ==
    ASSUME DispatchInv, NEW i \in Indices, join_next(i)
    PROVE  DispatchInv'
<1> USE DEF attempt, turn, ledger
<1>1. /\ TypeOK /\ pc = "execute" /\ Indices' = Indices /\ UNCHANGED calls
      /\ Cardinality(Live) <= MaxConc
  BY DEF DispatchInv, join_next, Indices
<1>2. PICK N \in Nat : N = Len(calls)
  BY <1>1, Basics
<1>3. Indices = 1..N /\ Live \subseteq 1..N /\ IsFiniteSet(Live) /\ Cardinality(Live) \in Nat
  BY <1>1, <1>2, Basics
<1>4. PICK k \in 0..N : ExecuteInv(k)
  BY <1>1, <1>2 DEF DispatchInv, PhaseInv
<1>5. BatchInv(k) /\ k \in Nat /\ batches # <<>>
  BY <1>4 DEF ExecuteInv
<1>6. PICK m \in 0..N :
              /\ k < m /\ Head(batches) = Interval(k, m) /\ Chain(Tail(batches), m, N)
              /\ IsBatch(Head(batches), k, m, N) /\ Apart((k + 1)..m)
  BY <1>1, <1>2, <1>5, BatchFacts
<1>7. Range(Head(batches)) = (k + 1)..m /\ \A j \in (k + 1)..m : j \in Indices /\ j > k
  BY <1>3, <1>5, <1>6 DEF IsBatch
<1>8. PICK room \in Nat : room = Room(i) /\ Cardinality(Live) + room <= MaxConc
  <2>1. InFlight(i) \subseteq 1..N
    BY <1>3 DEF InFlight, Live, Ended
  <2>2. IsFiniteSet(InFlight(i)) /\ Cardinality(InFlight(i)) \in Nat
    BY <2>1, SmallSets, FS_CardinalityType
  <2>3. Live \subseteq InFlight(i)
    BY DEF join_next, InFlight, Live, Ended
  <2>4. Cardinality(Live) <= Cardinality(InFlight(i))
    BY <2>2, <2>3, FS_Subset
  <2>5. CASE aborted' \/ Cardinality(InFlight(i)) >= MaxConc
    BY <1>1, <1>3, <2>5, LimitsAssumption DEF Room
  <2>6. CASE ~(aborted' \/ Cardinality(InFlight(i)) >= MaxConc)
    <3>1. Room(i) = MaxConc - Cardinality(InFlight(i))
      BY <2>6 DEF Room
    <3>2. Room(i) \in Nat /\ Cardinality(Live) + Room(i) <= MaxConc
      BY <1>3, <2>2, <2>4, <2>6, <3>1, LimitsAssumption
    <3> QED BY <3>2
  <2> QED BY <2>5, <2>6
<1>9. PICK t : t = IF aborted' THEN AbortAll(task) ELSE task
  OBVIOUS
<1>10. PICK w : w = Window(waiting, room)
  OBVIOUS
<1>11. PICK r : r = Beyond(waiting, room)
  OBVIOUS
<1>12. /\ joined' = joined \cup {i} /\ aborted' = (aborted \/ task[i] = "err" \/ cancelled)
       /\ task' = Spawn(t, Range(w)) /\ started' = started \o w
       /\ waiting' = IF aborted' THEN <<>> ELSE r
       /\ UNCHANGED <<calls, slot, checkpoint, retries, cancelled, history, emitted, pc, out, guard,
                      repeatStop, batches, discarded>>
  BY <1>8, <1>9, <1>10, <1>11 DEF join_next
<1>13. waiting \in Seq(1..N) /\ NoDuplicates(waiting)
  BY <1>1, <1>3, <1>4 DEF TypeOK, ExecuteInv
<1>14. Cut(1..N, waiting, room, w, r)
  <2>1. waiting \in Seq(1..N)
    BY <1>13
  <2> QED BY <1>10, <1>11, <2>1, WindowFacts
<1>15. /\ w \in Seq(1..N) /\ Range(w) \subseteq Range(waiting)
       /\ IsFiniteSet(Range(w)) /\ Cardinality(Range(w)) <= room
  BY <1>14 DEF Cut
<1>16. /\ waiting' \in Seq(1..N) /\ Range(waiting') \subseteq Range(waiting)
       /\ NoDuplicates(waiting') /\ \A x \in Range(w) : x \notin Range(waiting')
  <2>1. CASE aborted'
    <3>1. waiting' = <<>>
      BY <1>12, <2>1
    <3>2. Range(<<>>) = {} /\ NoDuplicates(<<>>) /\ <<>> \in Seq(1..N)
      BY DEF Range, NoDuplicates
    <3> QED BY <3>1, <3>2
  <2>2. CASE ~aborted'
    BY <1>12, <1>13, <1>14, <2>2 DEF Cut
  <2> QED BY <2>1, <2>2
<1>17. /\ t \in [Indices -> {"none", "running", "aborting", "ok", "err", "cut"}]
       /\ \A j \in Indices : /\ t[j] \in {"running", "aborting"} <=> task[j] \in {"running", "aborting"}
                             /\ task[j] \notin {"running", "aborting"} => t[j] = task[j]
  <2>1. t = task \/ t = AbortAll(task)
    BY <1>9
  <2> QED BY <1>1, <2>1, AbortFacts
<1>18. task' = [j \in Indices |-> IF j \in Range(w) THEN "running" ELSE t[j]]
  BY <1>12, <1>17 DEF Spawn
<1>19. \A j \in Range(waiting) : /\ j \in (k + 1)..m /\ j \in Indices /\ j > k
                                 /\ slot[j] = "gated" /\ out[j] = "none" /\ task[j] = "none"
  BY <1>4, <1>7 DEF ExecuteInv, Prepared, Untouched
<1>20. Live' = Live \cup Range(w)
  <2>1. Range(w) \subseteq Indices
    BY <1>15, <1>19
  <2> QED BY <1>1, <1>17, <1>18, <2>1 DEF Live
<1>21. Cardinality(Live') <= MaxConc
  <2>1. IsFiniteSet(Live \cap Range(w))
    <3>1. Live \cap Range(w) \subseteq 1..N
      BY <1>3
    <3> QED BY <3>1, SmallSets
  <2>2. /\ Cardinality(Range(w)) \in Nat /\ Cardinality(Live \cap Range(w)) \in Nat
    BY <1>15, <2>1, FS_CardinalityType
  <2>3. Cardinality(Live \cup Range(w))
          = Cardinality(Live) + Cardinality(Range(w)) - Cardinality(Live \cap Range(w))
    BY <1>3, <1>15, FS_Union
  <2> QED BY <1>3, <1>8, <1>15, <1>20, <2>2, <2>3, LimitsAssumption
<1>22. \A j \in Live : j \in (k + 1)..m /\ j \in Indices /\ j > k /\ slot[j] = "gated"
  BY <1>4, <1>5, <1>7 DEF ExecuteInv, BatchInv
<1>23. \A j \in Indices : j \notin Live /\ j \notin Range(w) => task'[j] = task[j]
  BY <1>17, <1>18 DEF Live
<1>24. BatchInv(k)'
  <2>1. ASSUME NEW j \in Indices, j <= k \/ slot[j] = "done" PROVE Settled(j)'
    <3>1. j \notin Live /\ j \notin Range(w)
      <4>1. j \notin Live
        <5>1. j \in Live => j > k /\ slot[j] = "gated"
          BY <1>22
        <5> QED BY <1>3, <1>5, <2>1, <5>1
      <4>2. j \notin Range(w)
        <5>1. j \in Range(w) => j > k /\ slot[j] = "gated"
          BY <1>15, <1>19
        <5> QED BY <1>3, <1>5, <2>1, <5>1
      <4> QED BY <4>1, <4>2
    <3>2. task'[j] = task[j] /\ out' = out
      BY <1>12, <1>23, <3>1
    <3> QED BY <1>5, <2>1, <3>2 DEF BatchInv, Settled
  <2>2. Live' \subseteq {j \in Indices : j > k /\ slot[j] = "gated"}
    BY <1>15, <1>19, <1>20, <1>22
  <2> QED BY <1>1, <1>5, <1>12, <2>1, <2>2 DEF BatchInv, Recorded, Apart, Acc
<1>25. ExecuteInv(k)'
  <2>1. ASSUME NEW j \in Indices, j > k, slot[j] = "gated"
        PROVE  /\ j \notin (k + 1)..m => Untouched(j)'
               /\ out[j] \in {"none", "denied"} /\ (out[j] = "denied" => task'[j] = "none")
    <3>1. /\ j \notin (k + 1)..m => Untouched(j)
          /\ out[j] \in {"none", "denied"} /\ (out[j] = "denied" => task[j] = "none")
      BY <1>4, <1>7, <2>1 DEF ExecuteInv
    <3>2. j \notin (k + 1)..m => j \notin Live /\ j \notin Range(w)
      BY <1>15, <1>19, <1>22
    <3>3. out[j] = "denied" => j \notin Live /\ j \notin Range(w)
      BY <1>15, <1>19, <3>1 DEF Live
    <3> QED BY <1>12, <1>23, <3>1, <3>2, <3>3 DEF Untouched
  <2>2. ASSUME NEW j \in Range(waiting') PROVE j \in Prepared' /\ Untouched(j)'
    <3>1. j \in Range(waiting) /\ j \notin Range(w) /\ j \in Indices /\ task[j] = "none"
      BY <1>16, <1>19
    <3>2. j \notin Live
      BY <3>1 DEF Live
    <3>3. j \in Prepared /\ Untouched(j)
      BY <1>4, <3>1 DEF ExecuteInv
    <3>4. Prepared' = Prepared
      BY <1>12 DEF Prepared
    <3> QED BY <1>12, <1>23, <3>1, <3>2, <3>3, <3>4 DEF Untouched
  <2>3. Live' \subseteq (k + 1)..m
    BY <1>15, <1>19, <1>20, <1>22
  <2> QED BY <1>1, <1>5, <1>7, <1>12, <1>16, <1>24, <2>1, <2>2, <2>3 DEF ExecuteInv
<1>26. started' \in Seq(Indices) /\ waiting' \in Seq(Indices)
  <2>1. started \in Seq(1..N) /\ w \in Seq(1..N)
    BY <1>1, <1>3, <1>15 DEF TypeOK
  <2>2. started \o w \in Seq(1..N)
    BY <2>1, ConcatProperties
  <2> QED BY <1>3, <1>12, <1>16, <2>2
<1>27. task' \in [Indices -> {"none", "running", "aborting", "ok", "err", "cut"}]
  BY <1>17, <1>18
<1>28. joined' \subseteq Indices /\ aborted' \in BOOLEAN
  BY <1>1, <1>12 DEF TypeOK
<1>29. TypeOK'
  BY <1>1, <1>12, <1>26, <1>27, <1>28 DEF TypeOK
<1>30. GuardInv' /\ PhaseInv' /\ Reported'
  <2>1. k \in 0..Len(calls')
    BY <1>1, <1>2
  <2> QED BY <1>1, <1>12, <1>25, <2>1 DEF DispatchInv, GuardInv, PhaseInv, Reported
<1> QED
  BY <1>12, <1>21, <1>29, <1>30 DEF DispatchInv

(* The barrier: the batch's calls are settled, and its part of the history *)
(* follows the part before it.                                             *)
LEMMA BarrierFacts ==
    ASSUME DispatchInv, NEW order, Barrier(order),
           NEW N \in Nat, N = Len(calls), NEW k \in 0..N, ExecuteInv(k)
    PROVE  \E m \in 0..N :
              /\ k < m /\ Chain(batches', m, N) /\ Recorded(m)'
              /\ history' \in Seq(1..N)
              /\ \A i \in Indices : i <= m \/ slot[i] = "done" => Settled(i)'
              /\ \A i \in Indices : i > m /\ slot[i] = "gated" => Untouched(i)'
              /\ out' \in [Indices -> {"none", "denied", "ok", "err", "cut"}]
              /\ emitted' \in Seq(Indices) /\ Reported'
<1> USE DEF attempt, turn
<1>1. TypeOK /\ Live = {} /\ Indices' = Indices /\ UNCHANGED calls /\ Indices = 1..N
  BY DEF DispatchInv, Barrier, Indices
<1>2. BatchInv(k) /\ k \in Nat /\ batches # <<>> /\ k <= N
  BY DEF ExecuteInv
<1>3. PICK m \in 0..N :
              /\ k < m /\ Head(batches) = Interval(k, m) /\ Chain(Tail(batches), m, N)
              /\ IsBatch(Head(batches), k, m, N) /\ Apart((k + 1)..m)
  BY <1>1, <1>2, BatchFacts
<1>4. PICK b : b = Head(batches) /\ b = Interval(k, m)
  BY <1>3
<1>5. /\ b \in Seq(1..N) /\ Len(b) = m - k /\ DOMAIN b = 1..(m - k)
      /\ \A n \in 1..(m - k) : b[n] = k + n
      /\ Range(b) = (k + 1)..m
  BY <1>3, <1>4 DEF IsBatch
<1>6. \A i \in (k + 1)..m : i \in Indices /\ i > k
  BY <1>1, <1>2
<1> DEFINE P == {i \in (k + 1)..m : slot[i] = "gated" /\ out[i] = "none"}
<1>7. Prepared = P
  BY <1>4, <1>5 DEF Prepared
<1>8. /\ order \in SetToSeqs(P) /\ out' = Outcomes(P) /\ emitted' = emitted \o order
      /\ absorb_outcome(b, out') /\ batches' = Tail(batches)
      /\ UNCHANGED <<slot, task>>
  BY <1>4, <1>7 DEF Barrier
<1>9. P \subseteq 1..N
  BY <1>1, <1>6
<1>10. \A i \in P : i \in Indices /\ i > k /\ i <= m /\ slot[i] = "gated" /\ out[i] = "none"
  BY <1>6
<1>11. /\ \A i \in Indices : i \in P => out'[i] = (IF task[i] = "none" THEN "cut" ELSE task[i])
       /\ \A i \in Indices : i \notin P => out'[i] = out[i]
  BY <1>8 DEF Outcomes
<1>12. \A i \in Indices : i \in (k + 1)..m /\ slot[i] = "gated" /\ out[i] = "none" => i \in P
  OBVIOUS
<1> HIDE DEF P
<1>13. \A i \in Indices : task[i] \in {"none", "ok", "err", "cut"}
  BY <1>1 DEF Live, TypeOK
<1>14. emitted' \in Seq(Indices) /\ Reported'
  <2>1. P \subseteq P
    OBVIOUS
  <2>2. IsFiniteSet(P)
    BY <1>9, <2>1, SmallSets
  <2>3. order \in Seq(P) /\ Range(order) = P /\ NoDuplicates(order)
    BY <1>8, <2>2, OrderFacts
  <2>4. order \in Seq(Indices)
    <3>1. P \subseteq Indices /\ order \in Seq(P)
      BY <1>1, <1>9, <2>3
    <3> QED BY <3>1, SeqMonotonic
  <2>5. P \subseteq Indices /\ \A i \in P : out[i] = "none"
    BY <1>10
  <2>6. \A i \in Indices : i \in P => out'[i] # "none"
    BY <1>11
  <2> QED BY <1>1, <1>8, <1>11, <2>3, <2>4, <2>5, <2>6, ReportFacts, ZenonT(60)
<1>15. ASSUME NEW i \in Indices, i <= m \/ slot[i] = "done" PROVE Settled(i)'
  <2>0. i \in Nat /\ slot[i] \in {"gated", "done"} /\ task'[i] = task[i]
    BY <1>1, <1>2, <1>8 DEF BatchInv
  <2>1. CASE i \in P
    BY <1>11, <1>13, <2>0, <2>1 DEF Settled
  <2>2. CASE i \notin P /\ (i <= k \/ slot[i] = "done")
    <3>1. out'[i] = out[i] /\ Settled(i)
      BY <1>2, <1>11, <2>2 DEF BatchInv
    <3> QED BY <2>0, <3>1 DEF Settled
  <2>3. CASE i \notin P /\ ~(i <= k) /\ slot[i] # "done"
    <3>1. slot[i] = "gated" /\ i > k /\ i \in (k + 1)..m
      BY <1>2, <1>15, <2>0, <2>3
    <3>2. out[i] # "none"
      BY <1>12, <2>3, <3>1
    <3>3. out[i] = "denied" /\ out'[i] = "denied"
      BY <1>11, <2>3, <3>1, <3>2 DEF ExecuteInv
    <3> QED BY <3>3 DEF Settled
  <2> QED BY <2>1, <2>2, <2>3
<1>16. ASSUME NEW i \in Indices, i > m, slot[i] = "gated" PROVE Untouched(i)'
  <2>1. i > k /\ i \notin (k + 1)..m /\ i \notin P
    BY <1>1, <1>2, <1>3, <1>10, <1>16
  <2>2. Untouched(i)
    BY <1>4, <1>5, <1>16, <2>1 DEF ExecuteInv
  <2> QED BY <1>8, <1>11, <2>1, <2>2 DEF Untouched
<1>17. out' \in [Indices -> {"none", "denied", "ok", "err", "cut"}]
  <2>1. \A i \in Indices : out'[i] \in {"none", "denied", "ok", "err", "cut"}
    BY <1>1, <1>11, <1>13 DEF TypeOK
  <2> QED BY <1>8, <2>1 DEF Outcomes
<1>18. Recorded(m)' /\ history' \in Seq(1..N)
  <2>1. PICK s : s = Interval(0, k)
    OBVIOUS
  <2>2. s \in Seq(1..k) /\ Len(s) = k
    BY <1>2, <2>1, IntervalFromOne
  <2>3. 1..k \subseteq 1..N
    BY <1>2
  <2>4. s \in Seq(1..N)
    <3>1. s \in Seq(1..k)
      BY <2>2
    <3> QED BY <2>3, <3>1, SeqMonotonic
  <2>5. PICK I : I = {i \in 1..k : out[i] # "cut"}
    OBVIOUS
  <2>6. PICK L : L = {i \in 1..m : out'[i] # "cut"}
    OBVIOUS
  <2>7. PICK J : J = {n \in DOMAIN b : out'[b[n]] \notin {"none", "cut"}}
    OBVIOUS
  <2>8. \A n \in 1..Len(s) : n \in I <=> n \in L
    <3>1. \A n \in 1..k : n \in Indices /\ n \notin P /\ n \in 1..m
      BY <1>1, <1>2, <1>3, <1>10
    <3> QED BY <1>11, <2>2, <2>5, <2>6, <3>1
  <2>9. At(s, I) = At(s, L)
    BY <2>4, <2>8, AtSame
  <2>10. \A n \in 1..Len(b) : n \in J <=> Len(s) + n \in L
    <3> SUFFICES ASSUME NEW n \in 1..(m - k) PROVE n \in J <=> k + n \in L
      BY <1>5, <2>2
    <3>1. b[n] = k + n /\ k + n \in 1..m /\ k + n \in Indices /\ k + n <= m /\ n \in DOMAIN b
      BY <1>1, <1>2, <1>3, <1>5
    <3>2. Settled(k + n)'
      BY <1>15, <3>1
    <3>3. out'[k + n] # "none"
      BY <3>2 DEF Settled
    <3> QED BY <2>6, <2>7, <3>1, <3>3
  <2>11. b \in Seq(1..N)
    BY <1>5
  <2>12. At(s \o b, L) = At(s, L) \o At(b, J)
    BY <2>4, <2>10, <2>11, AtConcat
  <2>13. s \o b = Interval(0, m)
    <3>1. m \in Nat /\ k <= m
      BY <1>2, <1>3
    <3>2. Interval(0, k) \o Interval(k, m) = Interval(0, m)
      BY <1>2, <3>1, IntervalConcat
    <3> QED BY <1>4, <2>1, <3>2
  <2>14. history = At(s, I)
    BY <1>2, <2>1, <2>5 DEF BatchInv, Recorded
  <2>15. history' = history \o At(b, J)
    BY <1>8, <2>7 DEF absorb_outcome
  <2>16. history' = At(s \o b, L)
    BY <2>9, <2>12, <2>14, <2>15
  <2>17. Recorded(m)'
    BY <2>6, <2>13, <2>16 DEF Recorded
  <2>18. s \o b \in Seq(1..N)
    BY <2>4, <2>11, ConcatProperties
  <2>19. At(s \o b, L) \in Seq(1..N)
    BY <2>18, AtPlaces
  <2> QED BY <2>16, <2>17, <2>19
<1> QED
  BY <1>3, <1>8, <1>14, <1>15, <1>16, <1>17, <1>18

LEMMA BarrierKeeps ==
    ASSUME DispatchInv, NEW order, Barrier(order)
    PROVE  DispatchInv'
<1> USE DEF attempt, turn
<1>1. TypeOK /\ pc = "execute" /\ Live = {} /\ Indices' = Indices /\ UNCHANGED calls
  BY DEF DispatchInv, Barrier, Indices
<1>2. PICK N \in Nat : N = Len(calls)
  BY <1>1, Basics
<1>3. Indices = 1..N
  BY <1>1, <1>2, Basics
<1>4. PICK k \in 0..N : ExecuteInv(k)
  BY <1>1, <1>2 DEF DispatchInv, PhaseInv
<1>5. PICK m \in 0..N :
              /\ k < m /\ Chain(batches', m, N) /\ Recorded(m)'
              /\ history' \in Seq(1..N)
              /\ \A i \in Indices : i <= m \/ slot[i] = "done" => Settled(i)'
              /\ \A i \in Indices : i > m /\ slot[i] = "gated" => Untouched(i)'
              /\ out' \in [Indices -> {"none", "denied", "ok", "err", "cut"}]
              /\ emitted' \in Seq(Indices) /\ Reported'
  BY <1>2, <1>4, BarrierFacts
<1>6. /\ batches' = Tail(batches) /\ pc' = (IF Len(batches) = 1 THEN "end" ELSE "prepare")
      /\ UNCHANGED <<slot, checkpoint, retries, cancelled, task, joined, aborted, guard, repeatStop,
                     waiting, started, discarded>>
  BY DEF Barrier
<1>7. BatchInv(k) /\ batches # <<>> /\ batches \in Seq(Seq(1..N))
  BY <1>1, <1>3, <1>4 DEF ExecuteInv, TypeOK
<1>8. /\ batches' \in Seq(Seq(1..N)) /\ Range(batches') \subseteq Range(batches)
      /\ (Len(batches) = 1 => batches' = <<>>)
  <2>1. PICK B \in Seq(Seq(1..N)) : B = batches /\ B # <<>>
    BY <1>7
  <2>2. PICK T : T = Tail(B)
    OBVIOUS
  <2>3. /\ T \in Seq(Seq(1..N)) /\ Len(T) = Len(B) - 1 /\ Len(B) \in Nat
        /\ \A j \in 1..Len(T) : T[j] = B[j + 1] /\ j + 1 \in 1..Len(B)
    BY <2>1, <2>2
  <2>4. Range(T) \subseteq Range(B)
    <3>1. DOMAIN T = 1..Len(T) /\ DOMAIN B = 1..Len(B)
      BY <2>1, <2>3
    <3>2. ASSUME NEW x \in Range(T) PROVE x \in Range(B)
      <4>1. PICK j \in 1..Len(T) : x = T[j]
        BY <3>1 DEF Range
      <4>2. j + 1 \in DOMAIN B /\ x = B[j + 1]
        BY <2>3, <3>1, <4>1
      <4> QED BY <4>2 DEF Range
    <3> QED BY <3>2
  <2>5. Len(B) = 1 => T = <<>>
    BY <2>3
  <2> QED BY <1>6, <2>1, <2>2, <2>3, <2>4, <2>5
<1>9. Live' = {}
  BY <1>1, <1>6 DEF Live
<1>10. Cardinality(Live') <= MaxConc
  BY <1>1, <1>9 DEF DispatchInv
<1>11. TypeOK'
  BY <1>1, <1>3, <1>5, <1>6, <1>8 DEF TypeOK
<1>12. GuardInv'
  BY <1>6 DEF DispatchInv, GuardInv
<1>13. CASE Len(batches) # 1
  <2>1. \A d \in Range(batches') : Apart(Range(d))'
    BY <1>1, <1>7, <1>8 DEF BatchInv, Apart, Acc
  <2>2. \A i \in Indices : slot[i] \in {"gated", "done"}
    BY <1>7 DEF BatchInv
  <2>3. Chain(batches', m, Len(calls'))
    BY <1>1, <1>2, <1>5
  <2>4. BatchInv(m)'
    BY <1>1, <1>5, <1>6, <1>9, <2>1, <2>2, <2>3 DEF BatchInv
  <2>5. PrepareInv(m)'
    BY <1>1, <1>5, <1>6, <1>9, <2>4 DEF PrepareInv
  <2>6. m \in 0..Len(calls') /\ pc' = "prepare"
    BY <1>1, <1>2, <1>6, <1>13
  <2>7. PhaseInv'
    BY <2>5, <2>6 DEF PhaseInv
  <2> QED BY <1>5, <1>6, <1>10, <1>11, <1>12, <2>7 DEF DispatchInv
<1>14. CASE Len(batches) = 1
  <2>1. m = N
    <3>1. Chain(<<>>, m, N) /\ m \in Nat
      BY <1>5, <1>8, <1>14
    <3> QED BY <3>1, ChainNone
  <2>2. \A i \in 1..N : Settled(i)'
    BY <1>3, <1>5, <2>1
  <2>3. PICK s : s = Interval(0, N)
    OBVIOUS
  <2>4. PICK I : I = {i \in 1..N : out'[i] # "cut"}
    OBVIOUS
  <2>5. PICK J : J = {i \in 1..N : task'[i] \in {"ok", "err"} \/ out'[i] = "denied"}
    OBVIOUS
  <2>6. s \in Seq(1..N) /\ Len(s) = N
    BY <2>3, IntervalFromOne
  <2>7. \A i \in 1..Len(s) : i \in I <=> i \in J
    BY <2>2, <2>4, <2>5, <2>6 DEF Settled
  <2>8. At(s, I) = At(s, J)
    <3>1. s \in Seq(1..N)
      BY <2>6
    <3> QED BY <2>7, <3>1, AtSame
  <2>9. history' = At(s, J)
    BY <1>5, <2>1, <2>3, <2>4, <2>8 DEF Recorded
  <2>10. Accounts'
    <3>1. [i \in Indices' |-> i] = s
      BY <1>1, <1>2, <2>3, Basics
    <3>2. {i \in Indices' : task'[i] \in {"ok", "err"} \/ out'[i] = "denied"} = J
      BY <1>1, <1>3, <2>5
    <3> QED BY <2>9, <3>1, <3>2 DEF Accounts, InOrder
  <2>11. Range(history') \subseteq Range(emitted')
    <3>1. J \subseteq 1..N /\ \A i \in J : out'[i] # "none"
      BY <2>2, <2>5 DEF Settled
    <3>2. Range(At(s, J)) = J
      BY <2>3, <3>1, InOrderFacts
    <3> QED BY <1>1, <1>3, <1>5, <2>9, <3>1, <3>2 DEF Reported
  <2>12. pc' = "end"
    BY <1>6, <1>14
  <2>13. PhaseInv'
    BY <1>9, <2>10, <2>11, <2>12 DEF PhaseInv
  <2> QED BY <1>5, <1>6, <1>10, <1>11, <1>12, <2>13 DEF DispatchInv
<1> QED
  BY <1>13, <1>14

LEMMA NextKeeps ==
    ASSUME DispatchInv, [Next]_vars
    PROVE  DispatchInv'
<1>1. CASE UNCHANGED vars
  <2>1. cancelled' \in BOOLEAN
    BY <1>1 DEF vars, DispatchInv, TypeOK
  <2> QED BY <1>1, <2>1, SameKeeps DEF vars
<1>2. CASE Cancel
  BY <1>2, SameKeeps DEF Cancel, attempt, ledger
<1>3. CASE RetryStream
  BY <1>3, RetryStreamKeeps
<1>4. CASE StreamFailed
  BY <1>4, StreamFailedKeeps
<1>5. CASE wind_down_early
  BY <1>5, WindDownKeeps
<1>6. CASE StreamEnds
  BY <1>6, StreamEndsKeeps
<1>7. CASE \E i \in Indices : drain(i)
  BY <1>7, DrainKeeps
<1>8. CASE drain_early_finalize
  BY <1>8, ForcedStopKeeps, PlannedKeeps
<1>9. CASE \E R \in SUBSET Indices : prepare_batch(R)
  BY <1>9, PrepareBatchKeeps
<1>10. CASE \E i \in Indices : join_next(i)
  BY <1>10, JoinNextKeeps
<1>11. CASE \E order \in SetToSeqs(Prepared) : Barrier(order)
  BY <1>11, BarrierKeeps
<1>12. CASE \E c \in Calls : DeclareStopped(c) \/ DeclareRefused(c) \/ early_gate_dispatch(c)
  BY <1>12, DeclareStoppedKeeps, DeclareRefusedKeeps, EarlyGateKeeps
<1>13. CASE \E i \in Indices, r \in {"ok", "err", "cut"} : TaskEnds(i, r)
  BY <1>13, TaskEndsKeeps
<1> QED
  BY <1>1, <1>2, <1>3, <1>4, <1>5, <1>6, <1>7, <1>8, <1>9, <1>10, <1>11, <1>12, <1>13
  DEF Next, LoopStep

LEMMA Invariant == Spec => []DispatchInv
<1>1. Init => DispatchInv
  BY InitInv
<1>2. DispatchInv /\ [Next]_vars => DispatchInv'
  BY NextKeeps
<1> QED
  BY <1>1, <1>2, PTL DEF Spec

-----------------------------------------------------------------------------
(* The theorems.                                                           *)

(* Calls that run at the same time do not conflict: beside the stream all  *)
(* of them only read, and in a batch plan_batches has kept them apart.     *)
LEMMA InvSafe ==
    ASSUME DispatchInv
    PROVE  ConcurrencySafe
<1>1. TypeOK /\ Cardinality(Live) <= MaxConc
  BY DEF DispatchInv
<1>2. CASE pc \in {"stream", "drain"}
  <2>1. ASSUME NEW i \in Live PROVE ~Acc(i).all /\ Acc(i).writes = {}
    <3>1. i \in Indices /\ task[i] # "none"
      BY DEF Live
    <3>2. OnlyReads(calls[i])
      BY <1>2, <3>1 DEF DispatchInv, PhaseInv, StreamInv, StreamSlot
    <3>3. calls[i] \in Calls
      BY <1>1, <3>1 DEF TypeOK, Indices
    <3>4. calls[i].acc \in Declarations
      BY <3>3, CallsAssumption
    <3> QED BY <3>2, <3>4, NormalKeeps DEF OnlyReads, Acc
  <2>2. \A i, j \in Live : ~accesses_conflict(Acc(i), Acc(j))
    BY <2>1, ReadersAgree
  <2> QED BY <1>1, <2>2 DEF ConcurrencySafe
<1>3. CASE pc = "execute"
  <2>1. PICK k \in 0..Len(calls) : ExecuteInv(k)
    BY <1>3 DEF DispatchInv, PhaseInv
  <2>2. batches \in Seq(Seq(Indices)) /\ batches # <<>>
    BY <1>1, <2>1 DEF TypeOK, ExecuteInv
  <2>3. Head(batches) \in Range(batches)
    <3>1. Head(batches) = batches[1] /\ 1 \in DOMAIN batches
      BY <2>2
    <3> QED BY <3>1 DEF Range
  <2>4. Apart(Range(Head(batches))) /\ Live \subseteq Range(Head(batches))
    BY <2>1, <2>3 DEF ExecuteInv, BatchInv
  <2> QED BY <1>1, <2>4 DEF ConcurrencySafe, Apart
<1>4. CASE pc \in {"prepare", "end", "returned"}
  <2>1. Live = {}
    BY <1>4 DEF DispatchInv, PhaseInv, PrepareInv
  <2> QED BY <1>1, <2>1 DEF ConcurrencySafe
<1> QED
  BY <1>1, <1>2, <1>3, <1>4 DEF TypeOK

(* For any calls, limits and interleaving of the stream, the tasks and the *)
(* user's cancellation, no two executions that overlap conflict, and there *)
(* are never more of them than max_tool_concurrency: neither beside the    *)
(* stream (eligible) nor in the batches (plan_batches, the window).        *)
THEOREM ConcurrencyIsSafe == Spec => []ConcurrencySafe
<1>1. DispatchInv => ConcurrencySafe
  BY InvSafe
<1> QED
  BY <1>1, Invariant, PTL

(* At the end of a turn the history holds the calls that were refused or   *)
(* ran to an end, each once and in declaration order (absorb_outcome), the *)
(* client has had one ToolResult for each, and an attempt that a retry, an *)
(* error or a cancellation threw away has only read.                       *)
THEOREM WorkIsAccounted == Spec => []WorkAccounted
<1>1. DispatchInv => WorkAccounted
  BY DEF DispatchInv, WorkAccounted, TurnAccounted, DiscardedReadOnly, Reported, NoDuplicates,
         PhaseInv, Accounts, OnlyReads
<1> QED
  BY <1>1, Invariant, PTL

=============================================================================
