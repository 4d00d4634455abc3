----------------------------- MODULE Selection ------------------------------
(***************************************************************************)
(* The part of a sequence at some of its positions (what retain, filter    *)
(* and partition leave of a Vec), as a recursive function, so that         *)
(* theorems can be stated about it.                                        *)
(***************************************************************************)
EXTENDS Integers, Sequences, SequenceTheorems, WellFoundedInduction, TLAPS

At(s, I) ==
    LET pick[n \in 0..Len(s)] ==
            IF n = 0 THEN <<>>
            ELSE IF n \in I THEN Append(pick[n - 1], s[n]) ELSE pick[n - 1]
    IN  pick[Len(s)]

(* A set of natural numbers has a least one: induction, as a fact about a  *)
(* set.                                                                    *)
LEMMA LeastNumber ==
    ASSUME NEW T \in SUBSET Nat, T # {}
    PROVE  \E m \in T : \A n \in T : m <= n
<1> DEFINE R == OpToRel(<, Nat)
<1>1. IsWellFoundedOn(R, Nat)
  BY NatLessThanWellFounded
<1>2. \A x, y \in Nat : (<<y, x>> \in R) <=> y < x
  BY DEF OpToRel
<1> HIDE DEF R
<1>3. PICK x \in T : \A y \in T : ~(<<y, x>> \in R)
  BY <1>1, WFMin, Zenon
<1>4. \A n \in T : x <= n
  <2> SUFFICES ASSUME NEW n \in T PROVE x <= n
    OBVIOUS
  <2>1. x \in Nat /\ n \in Nat /\ ~(n < x)
    BY <1>2, <1>3
  <2> QED
    BY <2>1
<1> QED
  BY <1>4

(* A set of numbers that holds 0 and the successor of each of its elements *)
(* below N holds all the numbers up to N.                                  *)
LEMMA Induction ==
    ASSUME NEW N \in Nat, NEW G,
           0 \in G,
           \A n \in 1..N : n - 1 \in G => n \in G
    PROVE  0..N \subseteq G
<1> SUFFICES ASSUME (0..N) \ G # {} PROVE FALSE
  OBVIOUS
<1> DEFINE T == (0..N) \ G
<1>0. T \in SUBSET Nat /\ T # {}
  OBVIOUS
<1>1. PICK m \in T : \A n \in T : m <= n
  <2> HIDE DEF T
  <2> QED
    BY <1>0, LeastNumber
<1>2. m \in 1..N /\ m - 1 \in 0..N /\ ~(m <= m - 1)
  BY <1>1
<1>3. m - 1 \in G
  BY <1>1, <1>2
<1> QED
  BY <1>1, <1>2, <1>3

IsPick(s, I, N, g) ==
    g = [n \in 0..N |-> IF n = 0 THEN <<>>
                        ELSE IF n \in I THEN Append(g[n - 1], s[n]) ELSE g[n - 1]]

LEMMA PickExists ==
    ASSUME NEW s, NEW I, NEW N \in Nat
    PROVE  \E g : IsPick(s, I, N, g)
<1> DEFINE G == {n \in 0..N : \E g : IsPick(s, I, n, g)}
<1>1. 0 \in G
  <2> DEFINE g == [n \in 0..0 |-> <<>>]
  <2>1. IsPick(s, I, 0, g)
    BY DEF IsPick
  <2> QED
    BY <2>1
<1>2. ASSUME NEW n \in 1..N, n - 1 \in G PROVE n \in G
  <2>1. PICK g : IsPick(s, I, n - 1, g)
    BY <1>2
  <2> DEFINE v == IF n \in I THEN Append(g[n - 1], s[n]) ELSE g[n - 1]
             h == [k \in 0..n |-> IF k = n THEN v ELSE g[k]]
  <2>2. \A k \in 0..(n - 1) : h[k] = g[k]
    OBVIOUS
  <2>3. h[n] = v
    OBVIOUS
  <2>4. \A k \in 1..n : k - 1 \in 0..(n - 1)
    OBVIOUS
  <2>5. \A k \in 0..(n-1) : g[k] = IF k = 0 THEN <<>>
                        ELSE IF k \in I THEN Append(g[k - 1], s[k]) ELSE g[k - 1]
    BY <2>1 DEF IsPick
  <2> HIDE DEF v
  <2>6. \A k \in 0..n : h[k] = IF k = 0 THEN <<>>
                        ELSE IF k \in I THEN Append(h[k - 1], s[k]) ELSE h[k - 1]
    <3> SUFFICES ASSUME NEW k \in 0..n
                 PROVE h[k] = IF k = 0 THEN <<>>
                        ELSE IF k \in I THEN Append(h[k - 1], s[k]) ELSE h[k - 1]
      OBVIOUS
    <3>1. CASE k = n
      BY <3>1, <2>2, <2>3, <2>4 DEF v
    <3>2. CASE k \in 0..(n - 1)
      BY <3>2, <2>2, <2>4, <2>5
    <3> QED BY <3>1, <3>2
  <2>7. IsPick(s, I, n, h)
    BY <2>6 DEF IsPick
  <2> QED
    BY <2>7
<1> HIDE DEF G
<1>3. 0..N \subseteq G
  BY <1>1, <1>2, Induction
<1> QED
  BY <1>3 DEF G

LEMMA AtPick ==
    ASSUME NEW S, NEW s \in Seq(S), NEW I
    PROVE  \E g : /\ At(s, I) = g[Len(s)]
                  /\ g[0] = <<>>
                  /\ \A n \in 1..Len(s) :
                        g[n] = IF n \in I THEN Append(g[n - 1], s[n]) ELSE g[n - 1]
<1> DEFINE g == CHOOSE g : IsPick(s, I, Len(s), g)
<1>1. Len(s) \in Nat
  OBVIOUS
<1>2. IsPick(s, I, Len(s), g)
  BY <1>1, PickExists
<1>3. At(s, I) = g[Len(s)]
  BY DEF At, IsPick
<1> HIDE DEF g
<1>4. \A n \in 0..Len(s) : g[n] = IF n = 0 THEN <<>>
                        ELSE IF n \in I THEN Append(g[n - 1], s[n]) ELSE g[n - 1]
  BY <1>2 DEF IsPick
<1> QED
  BY <1>1, <1>3, <1>4

(* f says where in s the elements of its part t are: at all positions of I *)
(* up to n, in order.                                                      *)
Places(f, t, s, I, n) ==
    /\ f \in [1..Len(t) -> (1..n) \cap I]
    /\ \A i, j \in 1..Len(t) : i < j => f[i] < f[j]
    /\ \A k \in (1..n) \cap I : \E j \in 1..Len(t) : f[j] = k
    /\ \A j \in 1..Len(t) : t[j] = s[f[j]]

LEMMA PlacesGrow ==
    ASSUME NEW S, NEW s \in Seq(S), NEW I, NEW n \in 1..Len(s), NEW t \in Seq(S),
           NEW f, Places(f, t, s, I, n - 1)
    PROVE  IF n \in I THEN \E h : Places(h, Append(t, s[n]), s, I, n)
           ELSE Places(f, t, s, I, n)
<1>1. CASE n \notin I
  <2>1. (1..n) \cap I = (1..(n - 1)) \cap I
    BY <1>1
  <2> QED
    BY <1>1, <2>1 DEF Places
<1>2. CASE n \in I
  <2> DEFINE u == Append(t, s[n])
             h == [j \in 1..(Len(t) + 1) |-> IF j = Len(t) + 1 THEN n ELSE f[j]]
  <2>1. /\ u \in Seq(S) /\ Len(u) = Len(t) + 1 /\ Len(t) \in Nat
        /\ \A j \in 1..Len(t) : u[j] = t[j]
        /\ u[Len(t) + 1] = s[n]
    OBVIOUS
  <2>2. /\ \A j \in 1..Len(t) : h[j] = f[j] /\ f[j] \in 1..(n - 1) /\ f[j] \in I
        /\ h[Len(t) + 1] = n
    BY SMTT(60), <2>1 DEF Places
  <2> HIDE DEF u
  <2>3. h \in [1..Len(u) -> (1..n) \cap I]
    <3>1. \A j \in 1..(Len(t) + 1) : h[j] \in (1..n) \cap I
      <4> SUFFICES ASSUME NEW j \in 1..(Len(t) + 1) PROVE h[j] \in (1..n) \cap I
        OBVIOUS
      <4>1. CASE j = Len(t) + 1
        BY <4>1, <1>2, <2>2
      <4>2. CASE j \in 1..Len(t)
        <5>1. h[j] = f[j] /\ f[j] \in 1..(n - 1) /\ f[j] \in I
          BY <4>2, <2>2
        <5> QED BY <5>1
      <4> QED
        BY <4>1, <4>2, <2>1
    <3> QED
      BY <3>1, <2>1
  <2> HIDE DEF h
  <2>4. ASSUME NEW i \in 1..Len(u), NEW j \in 1..Len(u), i < j
        PROVE  h[i] < h[j]
    <3>0. i \in 1..Len(t)
      BY <2>1, <2>4
    <3>1. h[i] = f[i] /\ f[i] \in 1..(n - 1)
      BY <3>0, <2>2
    <3>2. CASE j = Len(t) + 1
      BY <3>1, <3>2, <2>2
    <3>3. CASE j \in 1..Len(t)
      BY <3>0, <3>1, <3>3, <2>2, <2>4 DEF Places
    <3> QED
      BY <3>2, <3>3, <2>1
  <2>5. ASSUME NEW k \in (1..n) \cap I
        PROVE  \E j \in 1..Len(u) : h[j] = k
    <3>1. CASE k = n
      BY <3>1, <2>1, <2>2
    <3>2. CASE k # n
      <4>1. k \in (1..(n - 1)) \cap I
        BY <3>2
      <4>2. PICK j \in 1..Len(t) : f[j] = k
        BY <4>1 DEF Places
      <4>3. j \in 1..Len(u) /\ h[j] = k
        BY <4>2, <2>1, <2>2
      <4> QED
        BY <4>3
    <3> QED
      BY <3>1, <3>2
  <2>6. ASSUME NEW j \in 1..Len(u)
        PROVE  u[j] = s[h[j]]
    <3>1. CASE j = Len(t) + 1
      BY <3>1, <2>1, <2>2
    <3>2. CASE j \in 1..Len(t)
      BY <3>2, <2>1, <2>2 DEF Places
    <3> QED
      BY <3>1, <3>2, <2>1
  <2>7. Places(h, u, s, I, n)
    BY <2>3, <2>4, <2>5, <2>6 DEF Places
  <2> QED
    BY <1>2, <2>7 DEF u
<1> QED
  BY <1>1, <1>2

(* The part is a sequence of the elements at the given positions, each one *)
(* once and in their order.                                                *)
LEMMA AtPlaces ==
    ASSUME NEW S, NEW s \in Seq(S), NEW I
    PROVE  /\ At(s, I) \in Seq(S)
           /\ \E f : Places(f, At(s, I), s, I, Len(s))
<1>1. PICK g : /\ At(s, I) = g[Len(s)]
               /\ g[0] = <<>>
               /\ \A n \in 1..Len(s) :
                     g[n] = IF n \in I THEN Append(g[n - 1], s[n]) ELSE g[n - 1]
  BY AtPick
<1>0. Len(s) \in Nat /\ 0 \in 0..Len(s) /\ Len(s) \in 0..Len(s)
  OBVIOUS
<1> DEFINE G == {n \in 0..Len(s) : g[n] \in Seq(S) /\ \E f : Places(f, g[n], s, I, n)}
<1>2. 0 \in G
  <2> DEFINE f == [j \in {} |-> j]
  <2>1. Places(f, <<>>, s, I, 0)
    BY DEF Places
  <2>2. <<>> \in Seq(S)
    OBVIOUS
  <2> HIDE DEF f
  <2> QED
    BY <1>0, <1>1, <2>1, <2>2
<1>3. ASSUME NEW n \in 1..Len(s), n - 1 \in G PROVE n \in G
  <2>1. /\ g[n - 1] \in Seq(S)
        /\ \E f : Places(f, g[n - 1], s, I, n - 1)
    BY <1>3
  <2>2. s[n] \in S
    OBVIOUS
  <2>3. g[n] = IF n \in I THEN Append(g[n - 1], s[n]) ELSE g[n - 1]
    BY <1>1
  <2>4. g[n] \in Seq(S)
    BY <2>1, <2>2, <2>3
  <2>5. \E f : Places(f, g[n], s, I, n)
    BY <2>1, <2>3, PlacesGrow
  <2> QED
    BY <2>4, <2>5
<1> HIDE DEF G
<1>4. Len(s) \in 0..Len(s) /\ 0..Len(s) \subseteq G
  BY <1>0, <1>2, <1>3, Induction
<1> QED
  BY <1>1, <1>4 DEF G

(* What is kept and what is left make up the whole.                        *)
LEMMA AtLengths ==
    ASSUME NEW S, NEW s \in Seq(S), NEW I, NEW J,
           \A n \in 1..Len(s) : n \in I <=> n \notin J
    PROVE  Len(At(s, I)) + Len(At(s, J)) = Len(s)
<1>1. PICK g : /\ At(s, I) = g[Len(s)]
               /\ g[0] = <<>>
               /\ \A n \in 1..Len(s) :
                     g[n] = IF n \in I THEN Append(g[n - 1], s[n]) ELSE g[n - 1]
  BY AtPick
<1>2. PICK h : /\ At(s, J) = h[Len(s)]
               /\ h[0] = <<>>
               /\ \A n \in 1..Len(s) :
                     h[n] = IF n \in J THEN Append(h[n - 1], s[n]) ELSE h[n - 1]
  BY AtPick
<1>0. Len(s) \in Nat /\ 0 \in 0..Len(s) /\ Len(s) \in 0..Len(s)
  OBVIOUS
<1> DEFINE G == {n \in 0..Len(s) : g[n] \in Seq(S) /\ h[n] \in Seq(S) /\ Len(g[n]) + Len(h[n]) = n}
<1>3. 0 \in G
  <2>1. g[0] \in Seq(S) /\ h[0] \in Seq(S) /\ Len(g[0]) + Len(h[0]) = 0
    <3>1. <<>> \in Seq(S) /\ Len(<<>>) = 0
      OBVIOUS
    <3> QED
      BY <3>1, <1>1, <1>2
  <2> QED
    BY <1>0, <2>1
<1>4. ASSUME NEW n \in 1..Len(s), n - 1 \in G PROVE n \in G
  <2>1. /\ g[n - 1] \in Seq(S) /\ h[n - 1] \in Seq(S)
        /\ Len(g[n - 1]) + Len(h[n - 1]) = n - 1
    BY <1>4
  <2>2. s[n] \in S /\ n \in 0..Len(s) /\ n \in Nat
    OBVIOUS
  <2>3. g[n] \in Seq(S) /\ h[n] \in Seq(S) /\ Len(g[n]) + Len(h[n]) = n
    <3>0. PICK a \in Nat, b \in Nat : a = Len(g[n - 1]) /\ b = Len(h[n - 1])
      BY <2>1
    <3>3. a + b = n - 1
      BY <2>1, <3>0
    <3>1. CASE n \in I
      <4>1. g[n] = Append(g[n - 1], s[n]) /\ h[n] = h[n - 1]
        BY <3>1, <1>1, <1>2
      <4>2. g[n] \in Seq(S) /\ Len(g[n]) = a + 1
        BY <4>1, <2>1, <2>2, <3>0
      <4>3. h[n] \in Seq(S) /\ Len(h[n]) = b
        BY <4>1, <2>1, <3>0
      <4> QED
        BY <2>2, <3>3, <4>2, <4>3
    <3>2. CASE n \in J
      <4>1. h[n] = Append(h[n - 1], s[n]) /\ g[n] = g[n - 1]
        BY <3>2, <1>1, <1>2
      <4>2. h[n] \in Seq(S) /\ Len(h[n]) = b + 1
        BY <4>1, <2>1, <2>2, <3>0
      <4>3. g[n] \in Seq(S) /\ Len(g[n]) = a
        BY <4>1, <2>1, <3>0
      <4> QED
        BY <2>2, <3>3, <4>2, <4>3
    <3> QED
      BY <3>1, <3>2
  <2> QED
    BY <2>2, <2>3
<1> HIDE DEF G
<1>5. Len(s) \in 0..Len(s) /\ 0..Len(s) \subseteq G
  BY <1>0, <1>3, <1>4, Induction
<1> QED
  BY <1>1, <1>2, <1>5 DEF G

(* Only the positions within the sequence count.                           *)
LEMMA AtSame ==
    ASSUME NEW S, NEW s \in Seq(S), NEW I, NEW J,
           \A n \in 1..Len(s) : n \in I <=> n \in J
    PROVE  At(s, I) = At(s, J)
<1>1. PICK g : /\ At(s, I) = g[Len(s)]
               /\ g[0] = <<>>
               /\ \A n \in 1..Len(s) :
                     g[n] = IF n \in I THEN Append(g[n - 1], s[n]) ELSE g[n - 1]
  BY AtPick
<1>2. PICK h : /\ At(s, J) = h[Len(s)]
               /\ h[0] = <<>>
               /\ \A n \in 1..Len(s) :
                     h[n] = IF n \in J THEN Append(h[n - 1], s[n]) ELSE h[n - 1]
  BY AtPick
<1>0. Len(s) \in Nat /\ 0 \in 0..Len(s) /\ Len(s) \in 0..Len(s)
  OBVIOUS
<1> DEFINE G == {n \in 0..Len(s) : g[n] = h[n]}
<1>3. 0 \in G
  BY <1>0, <1>1, <1>2
<1>4. ASSUME NEW n \in 1..Len(s), n - 1 \in G PROVE n \in G
  BY <1>4, <1>1, <1>2
<1> HIDE DEF G
<1>5. Len(s) \in 0..Len(s) /\ 0..Len(s) \subseteq G
  BY <1>0, <1>3, <1>4, Induction
<1> QED
  BY <1>1, <1>2, <1>5 DEF G

(* All positions keep the sequence, none leave nothing.                    *)
LEMMA AtAll ==
    ASSUME NEW S, NEW s \in Seq(S), NEW I, 1..Len(s) \subseteq I
    PROVE  At(s, I) = s
<1>1. PICK g : /\ At(s, I) = g[Len(s)]
               /\ g[0] = <<>>
               /\ \A n \in 1..Len(s) :
                     g[n] = IF n \in I THEN Append(g[n - 1], s[n]) ELSE g[n - 1]
  BY AtPick
<1>0. Len(s) \in Nat /\ 0 \in 0..Len(s) /\ Len(s) \in 0..Len(s)
  OBVIOUS
<1> DEFINE G == {n \in 0..Len(s) : /\ g[n] \in Seq(S) /\ Len(g[n]) = n
                                   /\ \A k \in 1..n : g[n][k] = s[k]}
<1>3. 0 \in G
  <2>1. g[0] \in Seq(S) /\ Len(g[0]) = 0
    <3>1. <<>> \in Seq(S) /\ Len(<<>>) = 0
      OBVIOUS
    <3> QED
      BY <3>1, <1>1
  <2>2. \A k \in 1..0 : g[0][k] = s[k]
    OBVIOUS
  <2> QED
    BY <1>0, <2>1, <2>2
<1>4. ASSUME NEW n \in 1..Len(s), n - 1 \in G PROVE n \in G
  <2>1. /\ g[n - 1] \in Seq(S) /\ Len(g[n - 1]) = n - 1
        /\ \A k \in 1..(n - 1) : g[n - 1][k] = s[k]
    BY <1>4
  <2>2. s[n] \in S /\ n \in 0..Len(s) /\ n \in Nat
    OBVIOUS
  <2>3. g[n] = Append(g[n - 1], s[n])
    BY <1>1
  <2>4. g[n] \in Seq(S) /\ Len(g[n]) = n
    BY <2>1, <2>2, <2>3
  <2>5. \A k \in 1..n : g[n][k] = s[k]
    BY <2>1, <2>2, <2>3
  <2> QED
    BY <2>2, <2>4, <2>5
<1> HIDE DEF G
<1>5. Len(s) \in 0..Len(s) /\ 0..Len(s) \subseteq G
  BY <1>0, <1>3, <1>4, Induction
<1>6. /\ At(s, I) \in Seq(S) /\ Len(At(s, I)) = Len(s)
      /\ \A k \in 1..Len(s) : At(s, I)[k] = s[k]
  BY <1>1, <1>5 DEF G
<1> QED
  BY <1>6, SeqEqual

LEMMA AtNone ==
    ASSUME NEW S, NEW s \in Seq(S), NEW I, \A n \in 1..Len(s) : n \notin I
    PROVE  At(s, I) = <<>>
<1>1. At(s, I) \in Seq(S)
  BY AtPlaces
<1>2. Len(At(s, I)) + Len(At(s, 1..Len(s))) = Len(s)
  BY AtLengths
<1>3. At(s, 1..Len(s)) = s
  BY AtAll
<1> QED
  BY <1>1, <1>2, <1>3
====
