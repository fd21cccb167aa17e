----------------------------- MODULE DataLemmas -----------------------------
(***************************************************************************)
(* Lemmas about the data of the models: the sequences that the clients'    *)
(* queues and the results of a query are made of, and the sums that the    *)
(* totals of summaries and reports are.                                    *)
(***************************************************************************)
EXTENDS Integers, Sequences, FiniteSets, SequencesExt, FiniteSetTheorems,
        WellFoundedInduction, TLAPS

-----------------------------------------------------------------------------
(* Sequences.                                                              *)

\* ToSet of a sequence over S is a subset of S, and its members are the
\* items at the positions of the sequence.
LEMMA ToSetMembers ==
    ASSUME NEW S, NEW s \in Seq(S)
    PROVE  /\ ToSet(s) \subseteq S
           /\ \A x : x \in ToSet(s) <=> \E i \in 1..Len(s) : x = s[i]
  BY DEF ToSet

\* What the items of a sequence are.
LEMMA SequenceItems ==
    ASSUME NEW S, NEW s \in Seq(S)
    PROVE  /\ Len(s) \in Nat
           /\ \A i \in 1..Len(s) : s[i] \in S
           /\ \A T : (\A i \in 1..Len(s) : s[i] \in T) => s \in Seq(T)
  OBVIOUS

\* The reverse of a prefix: its type, its length and its items.
LEMMA ReversedPrefix ==
    ASSUME NEW S, NEW s \in Seq(S), NEW n \in 0..Len(s)
    PROVE  LET r == Reverse(SubSeq(s, 1, n))
           IN  /\ r \in Seq(S)
               /\ Len(r) = n
               /\ \A i \in 1..n : r[i] = s[n - i + 1]
<1> DEFINE p == SubSeq(s, 1, n)
<1>1. p \in Seq(S) /\ Len(p) = n /\ \A i \in 1..n : p[i] = s[i]
  OBVIOUS
<1>2. Reverse(p) = [i \in 1..n |-> p[n - i + 1]]
  BY <1>1 DEF Reverse
<1>3. \A i \in 1..n : n - i + 1 \in 1..n
  OBVIOUS
<1> HIDE DEF p
<1>4. \A i \in 1..n : p[n - i + 1] \in S
  BY <1>1, <1>3
<1>5. Reverse(p) \in Seq(S) /\ Len(Reverse(p)) = n
  BY <1>2, <1>4
<1> QED BY <1>1, <1>2, <1>3, <1>5 DEF p

\* A sequence is a suffix of any sequence that ends with its items.
LEMMA SuffixItems ==
    ASSUME NEW S, NEW s \in Seq(S), NEW t \in Seq(S), NEW k \in Nat,
           Len(t) = k + Len(s),
           \A i \in 1..Len(s) : t[k + i] = s[i]
    PROVE  IsSuffix(s, t)
<1> DEFINE rs == Reverse(s)
           rt == Reverse(t)
<1>1. /\ rs \in Seq(S) /\ Len(rs) = Len(s)
      /\ \A i \in 1..Len(s) : rs[i] = s[Len(s) - i + 1]
  BY DEF Reverse
<1>2. /\ rt \in Seq(S) /\ Len(rt) = Len(t)
      /\ \A i \in 1..Len(t) : rt[i] = t[Len(t) - i + 1]
  BY DEF Reverse
<1> HIDE DEF rs, rt
<1>3. \A i \in 1..Len(s) : rt[i] = rs[i]
  <2> TAKE i \in 1..Len(s)
  <2>1. Len(s) - i + 1 \in 1..Len(s) /\ i \in 1..Len(t)
        /\ Len(t) - i + 1 = k + (Len(s) - i + 1)
    OBVIOUS
  <2> QED BY <2>1, <1>1, <1>2
<1>4. SubSeq(rs, 1, Len(rs)) = SubSeq(rt, 1, Len(rs))
  <2>1. /\ SubSeq(rs, 1, Len(s)) = [i \in 1..Len(s) |-> rs[i]]
        /\ SubSeq(rt, 1, Len(s)) = [i \in 1..Len(s) |-> rt[i]]
    BY <1>1, <1>2
  <2> QED BY <2>1, <1>1, <1>3
<1> QED BY <1>1, <1>2, <1>4 DEF IsSuffix, IsPrefix, rs, rt

\* It has no other items, and none twice if b and q have none twice and
\* none in common; and q is its end.
LEMMA PutInFrontKeeps ==
    ASSUME NEW S, NEW b \in Seq(S), NEW q \in Seq(S), NEW n \in 0..Len(b),
           NEW s \in Seq(S), Len(s) = n + Len(q),
           \A i \in 1..n : s[i] = b[n - i + 1],
           \A i \in 1..Len(q) : s[n + i] = q[i]
    PROVE  /\ ToSet(s) \subseteq ToSet(b) \union ToSet(q)
           /\ ToSet(q) \subseteq ToSet(s)
           /\ IsInjective(b) /\ IsInjective(q) /\ ToSet(b) \cap ToSet(q) = {}
                => IsInjective(s)
           /\ IsSuffix(q, s)
<1>1. \A i \in 1..Len(q) : n + i \in 1..Len(s)
  OBVIOUS
<1>2. \A i \in 1..Len(s) :
         \/ i \in 1..n /\ n - i + 1 \in 1..Len(b) /\ s[i] = b[n - i + 1]
         \/ i \notin 1..n /\ i - n \in 1..Len(q) /\ s[i] = q[i - n]
  <2> SUFFICES ASSUME NEW i \in 1..Len(s), i \notin 1..n
               PROVE  i - n \in 1..Len(q) /\ s[i] = q[i - n]
    BY <1>1
  <2>1. i - n \in 1..Len(q) /\ n + (i - n) = i
    BY <1>1
  <2> QED BY <2>1, <1>1
<1>3. ToSet(s) \subseteq ToSet(b) \union ToSet(q)
  <2>1. /\ \A i \in 1..Len(b) : b[i] \in ToSet(b)
        /\ \A i \in 1..Len(q) : q[i] \in ToSet(q)
    BY DEF ToSet
  <2>2. \A i \in 1..Len(s) : s[i] \in ToSet(b) \union ToSet(q)
    BY <2>1, <1>2
  <2> QED BY <2>2, <1>1 DEF ToSet
<1>4. ToSet(q) \subseteq ToSet(s)
  <2>1. \A i \in 1..Len(q) : q[i] \in ToSet(s)
    <3> TAKE i \in 1..Len(q)
    <3>1. s[n + i] = q[i] /\ n + i \in 1..Len(s)
      BY <1>1
    <3>2. s[n + i] \in ToSet(s)
      BY <3>1, ToSetMembers
    <3> QED BY <3>1, <3>2
  <2> QED BY <2>1, ToSetMembers
<1>5. ASSUME IsInjective(b), IsInjective(q), ToSet(b) \cap ToSet(q) = {}
      PROVE  IsInjective(s)
  <2> SUFFICES ASSUME NEW i \in 1..Len(s), NEW j \in 1..Len(s), s[i] = s[j]
               PROVE  i = j
    BY <1>1 DEF IsInjective
  <2>1. \A k \in 1..Len(b), l \in 1..Len(q) : b[k] # q[l]
    <3>1. /\ \A k \in 1..Len(b) : b[k] \in ToSet(b)
          /\ \A k \in 1..Len(q) : q[k] \in ToSet(q)
      BY DEF ToSet
    <3> QED BY <3>1, <1>5
  <2>2. \A k, l \in 1..Len(b) : b[k] = b[l] => k = l
    BY <1>5 DEF IsInjective
  <2>3. \A k, l \in 1..Len(q) : q[k] = q[l] => k = l
    BY <1>5 DEF IsInjective
  <2>4. \/ i \in 1..n /\ n - i + 1 \in 1..Len(b) /\ s[i] = b[n - i + 1]
        \/ i \notin 1..n /\ i - n \in 1..Len(q) /\ s[i] = q[i - n]
    BY <1>2
  <2>5. \/ j \in 1..n /\ n - j + 1 \in 1..Len(b) /\ s[j] = b[n - j + 1]
        \/ j \notin 1..n /\ j - n \in 1..Len(q) /\ s[j] = q[j - n]
    BY <1>2
  <2>6. CASE i \in 1..n /\ j \in 1..n
    <3>1. n - i + 1 = n - j + 1
      BY <2>2, <2>6, <2>4, <2>5
    <3> QED BY <3>1
  <2>7. CASE i \notin 1..n /\ j \notin 1..n
    <3>1. i - n = j - n
      BY <2>3, <2>7, <2>4, <2>5
    <3> QED BY <3>1
  <2>8. CASE i \in 1..n /\ j \notin 1..n
    <3>1. b[n - i + 1] = q[j - n]
      BY <2>8, <2>4, <2>5
    <3> QED BY <3>1, <2>1, <2>8, <2>4, <2>5
  <2>9. CASE i \notin 1..n /\ j \in 1..n
    <3>1. b[n - j + 1] = q[i - n]
      BY <2>9, <2>4, <2>5
    <3> QED BY <3>1, <2>1, <2>9, <2>4, <2>5
  <2> QED BY <2>6, <2>7, <2>8, <2>9
<1>6. IsSuffix(q, s)
  <2>1. /\ s \in Seq(S) /\ q \in Seq(S) /\ n \in Nat /\ Len(s) = n + Len(q)
        /\ \A i \in 1..Len(q) : s[n + i] = q[i]
    OBVIOUS
  <2> QED BY ONLY <2>1, SuffixItems
<1> QED BY <1>3, <1>4, <1>5, <1>6
\* An enumeration of a finite set: each member stands at one position.
LEMMA EnumerationOfSet ==
    ASSUME NEW S, IsFiniteSet(S), NEW s \in SetToSeqs(S)
    PROVE  /\ s \in Seq(S)
           /\ \A x \in S : \E i \in 1..Len(s) : s[i] = x
           /\ \A i, j \in 1..Len(s) : s[i] = s[j] => i = j
<1> DEFINE n == Cardinality(S)
<1>1. n \in Nat /\ s \in [1..n -> S]
      /\ \A i, j \in 1..n : i # j => s[i] # s[j]
  BY FS_CardinalityType DEF SetToSeqs
<1>2. s \in Seq(S) /\ Len(s) = n
  BY <1>1
<1>3. s \in Injection(1..n, S)
  BY <1>1 DEF Injection, IsInjective
<1>4. Cardinality(1..n) = n
  BY <1>1, FS_Interval
<1>5. s \in Surjection(1..n, S)
  BY <1>3, <1>4, FS_Injection
<1> QED BY <1>1, <1>2, <1>5 DEF Surjection

-----------------------------------------------------------------------------
(* Sums.  A statement about every subset of a finite set is proved by      *)
(* looking at a minimal one for which it does not hold.                    *)

\* Of some subsets of a finite set one is minimal.
LEMMA MinimalSubset ==
    ASSUME NEW S, IsFiniteSet(S), NEW B, B \subseteq SUBSET S, B # {}
    PROVE  \E t \in B : \A u \in B : u \subseteq t => u = t
<1>1. IsWellFoundedOn(StrictSubsetOrdering(S), SUBSET S)
  BY FS_StrictSubsetOrderingWellFounded, FS_FiniteSubsetsOfFinite
<1>2. PICK t \in B : \A u \in B : <<u, t>> \notin StrictSubsetOrdering(S)
  <2> HIDE DEF StrictSubsetOrdering
  <2> QED BY <1>1, WFMin, Zenon
<1> QED BY <1>2 DEF StrictSubsetOrdering

\* g is the function by whose recursion the sum of f over s is computed.
Sums(f, g, s) ==
    g = [t \in SUBSET s |->
            IF t = {} THEN 0
            ELSE f[CHOOSE x \in t : TRUE] + g[t \ {CHOOSE x \in t : TRUE}]]

LEMMA SumUnfolded ==
    ASSUME NEW f, NEW S
    PROVE  SumFunctionOnSet(f, S) = (CHOOSE g : Sums(f, g, S))[S]
  BY Zenon DEF SumFunctionOnSet, FoldFunctionOnSet, MapThenFoldSet, Sums

LEMMA SumsAgree ==
    ASSUME NEW f, NEW S, IsFiniteSet(S), NEW T \in SUBSET S,
           NEW g, Sums(f, g, S), NEW h, Sums(f, h, T)
    PROVE  g[T] = h[T]
<1> DEFINE B == {t \in SUBSET T : g[t] # h[t]}
<1>1. SUFFICES ASSUME B # {} PROVE FALSE
  OBVIOUS
<1>2. PICK t \in B : \A u \in B : u \subseteq t => u = t
  <2>1. B \subseteq SUBSET S OBVIOUS
  <2> HIDE DEF B
  <2> QED BY <1>1, <2>1, MinimalSubset
<1> DEFINE c == CHOOSE x \in t : TRUE
<1>3. t \in SUBSET T /\ t \in SUBSET S /\ g[t] # h[t] 
  OBVIOUS
<1>4. g[t] = IF t = {} THEN 0 ELSE f[c] + g[t \ {c}]
  BY <1>3, Zenon DEF Sums
<1>5. h[t] = IF t = {} THEN 0 ELSE f[c] + h[t \ {c}]
  BY <1>3, Zenon DEF Sums
<1>6. t # {} /\ c \in t
  BY <1>3, <1>4, <1>5
<1>7. g[t \ {c}] = h[t \ {c}]
  BY <1>2, <1>6, <1>3
<1> QED BY <1>3, <1>4, <1>5, <1>7

LEMMA SumsExist ==
    ASSUME NEW f, NEW S, IsFiniteSet(S)
    PROVE  \E g : Sums(f, g, S)
<1> DEFINE B == {t \in SUBSET S : \A g : ~Sums(f, g, t)}
<1>1. SUFFICES ASSUME B # {} PROVE FALSE
  OBVIOUS
<1>2. PICK T \in B : \A u \in B : u \subseteq T => u = T
  <2>1. B \subseteq SUBSET S OBVIOUS
  <2> HIDE DEF B
  <2> QED BY <1>1, <2>1, MinimalSubset
<1> DEFINE c(t) == CHOOSE x \in t : TRUE
           G(t) == CHOOSE g : Sums(f, g, t)
           F == [t \in SUBSET T |-> IF t = {} THEN 0
                                    ELSE f[c(t)] + G(t \ {c(t)})[t \ {c(t)}]]
<1>3. \A u \in SUBSET T : u # T => Sums(f, G(u), u)
  <2> TAKE u \in SUBSET T
  <2> HAVE u # T
  <2>1. \E g : Sums(f, g, u)
    BY <1>2
  <2> HIDE DEF Sums
  <2> QED BY <2>1
<1>4. \A t \in SUBSET T : t # {} => c(t) \in t /\ t \ {c(t)} \in SUBSET T /\ t \ {c(t)} # T
  OBVIOUS
<1>5. \A u \in SUBSET T : u # T => F[u] = G(u)[u]
  <2> SUFFICES ASSUME NEW u \in SUBSET T, u # T PROVE F[u] = G(u)[u]
    OBVIOUS
  <2>1. Sums(f, G(u), u)
    BY <1>3
  <2>2. G(u)[u] = IF u = {} THEN 0 ELSE f[c(u)] + G(u)[u \ {c(u)}]
    <3> DEFINE g == G(u)
    <3>1. Sums(f, g, u) BY <2>1
    <3> HIDE DEF g
    <3>2. u \in SUBSET u OBVIOUS
    <3>3. g[u] = IF u = {} THEN 0 ELSE f[c(u)] + g[u \ {c(u)}]
      BY <3>1, <3>2, Zenon DEF Sums
    <3> QED BY <3>3 DEF g
  <2>3. CASE u = {}
    BY <2>2, <2>3
  <2>4. CASE u # {}
    <3> DEFINE v == u \ {c(u)}
    <3>1. v \in SUBSET T /\ v # T /\ v \in SUBSET u
      BY <1>4, <2>4
    <3>2. Sums(f, G(v), v)
      BY <3>1, <1>3
    <3>3. IsFiniteSet(u)
      BY FS_Subset, <1>2
    <3> HIDE DEF v, G
    <3>4. G(u)[v] = G(v)[v]
      BY <2>1, <3>1, <3>2, <3>3, SumsAgree
    <3>5. G(u)[u] = f[c(u)] + G(u)[v]
      BY <2>2, <2>4 DEF v
    <3>6. F[u] = f[c(u)] + G(v)[v]
      BY <2>4 DEF v
    <3> QED BY <3>4, <3>5, <3>6
  <2> QED BY <2>3, <2>4
<1>6. F = [t \in SUBSET T |-> IF t = {} THEN 0 ELSE f[c(t)] + F[t \ {c(t)}]]
  <2>1. \A t \in SUBSET T : t # {} => F[t \ {c(t)}] = G(t \ {c(t)})[t \ {c(t)}]
    <3> HIDE DEF F, G, c
    <3> QED BY <1>4, <1>5
  <2> DEFINE H == [t \in SUBSET T |-> IF t = {} THEN 0 ELSE f[c(t)] + F[t \ {c(t)}]]
  <2>2. \A t \in SUBSET T : F[t] = H[t]
    <3> TAKE t \in SUBSET T
    <3>1. F[t] = IF t = {} THEN 0 ELSE f[c(t)] + G(t \ {c(t)})[t \ {c(t)}]
      BY Zenon
    <3>2. H[t] = IF t = {} THEN 0 ELSE f[c(t)] + F[t \ {c(t)}]
      BY Zenon
    <3> HIDE DEF F, G, c, H
    <3> QED BY <2>1, <3>1, <3>2
  <2> QED BY <2>2, Zenon
<1>7. Sums(f, F, T)
  BY <1>6, Zenon DEF Sums
<1> QED BY <1>7, <1>2

\* A sum takes one item after the other, in the order of CHOOSE.
LEMMA SumStep ==
    ASSUME NEW f, NEW S, IsFiniteSet(S)
    PROVE  SumFunctionOnSet(f, S) =
              IF S = {} THEN 0
              ELSE f[CHOOSE x \in S : TRUE]
                   + SumFunctionOnSet(f, S \ {CHOOSE x \in S : TRUE})
<1> DEFINE c == CHOOSE x \in S : TRUE
           g == CHOOSE g : Sums(f, g, S)
           h == CHOOSE h : Sums(f, h, S \ {c})
<1>1. Sums(f, g, S) /\ SumFunctionOnSet(f, S) = g[S]
  <2>1. \E x : Sums(f, x, S)
    BY SumsExist
  <2> HIDE DEF Sums
  <2> QED BY <2>1, SumUnfolded, Zenon
<1>2. Sums(f, h, S \ {c}) /\ SumFunctionOnSet(f, S \ {c}) = h[S \ {c}]
  <2>0. IsFiniteSet(S \ {c})
    BY FS_RemoveElement
  <2>1. \E x : Sums(f, x, S \ {c})
    BY <2>0, SumsExist
  <2> HIDE DEF Sums
  <2> QED BY <2>1, SumUnfolded, Zenon
<1> HIDE DEF g, h
<1>3. g[S] = IF S = {} THEN 0 ELSE f[c] + g[S \ {c}]
  BY <1>1, Zenon DEF Sums
<1>4. g[S \ {c}] = h[S \ {c}]
  BY <1>1, <1>2, SumsAgree
<1> QED BY <1>1, <1>2, <1>3, <1>4

LEMMA SumEmpty ==
    ASSUME NEW f
    PROVE  SumFunctionOnSet(f, {}) = 0
  BY SumStep, FS_EmptySet

\* A sum of naturals is one, and an item may be taken out of it.
LEMMA SumRemove ==
    ASSUME NEW S, IsFiniteSet(S), NEW f, \A x \in S : f[x] \in Nat
    PROVE  /\ SumFunctionOnSet(f, S) \in Nat
           /\ \A x \in S : SumFunctionOnSet(f, S)
                              = f[x] + SumFunctionOnSet(f, S \ {x})
<1> DEFINE sum(t) == SumFunctionOnSet(f, t)
           Good(t) == /\ sum(t) \in Nat
                      /\ \A x \in t : sum(t) = f[x] + sum(t \ {x})
           B == {t \in SUBSET S : ~Good(t)}
<1>1. SUFFICES ASSUME B # {} PROVE FALSE
  OBVIOUS
<1>2. PICK t \in B : \A u \in B : u \subseteq t => u = t
  <2>1. B \subseteq SUBSET S OBVIOUS
  <2> HIDE DEF B
  <2> QED BY <1>1, <2>1, MinimalSubset
<1>3. t \in SUBSET S /\ ~Good(t)
  OBVIOUS
<1>4. \A u \in SUBSET t : u # t => Good(u)
  <2> HIDE DEF Good
  <2> QED BY <1>2, <1>3
<1>5. \A u \in SUBSET t : IsFiniteSet(u)
  BY <1>3, FS_Subset
<1> DEFINE c(u) == CHOOSE x \in u : TRUE
<1>6. \A u \in SUBSET t : sum(u) = IF u = {} THEN 0
                                   ELSE f[c(u)] + sum(u \ {c(u)})
  BY <1>5, SumStep
<1> HIDE DEF sum, B
<1>7. CASE t = {}
  <2>1. t \in SUBSET t /\ \A x \in t : FALSE
    BY <1>7
  <2>2. sum(t) = 0
    BY <1>6, <1>7, <2>1
  <2> QED BY <1>3, <2>1, <2>2
<1>8. CASE t # {}
  <2> DEFINE y == c(t)
             v == t \ {y}
  <2>1. y \in t /\ f[y] \in Nat /\ v \in SUBSET t /\ v # t
    BY <1>3, <1>8
  <2>2. sum(t) = f[y] + sum(v) /\ Good(v)
    BY <1>4, <1>6, <1>8, <2>1
  <2>3. sum(t) \in Nat
    BY <2>1, <2>2
  <2>4. ASSUME NEW x \in t PROVE sum(t) = f[x] + sum(t \ {x})
    <3>1. CASE x = y
      BY <2>2, <3>1
    <3>2. CASE x # y
      <4> DEFINE w == t \ {x}
      <4>1. w \in SUBSET t /\ w # t /\ y \in w /\ x \in v /\ f[x] \in Nat
        BY <2>1, <3>2, <1>3
      <4>2. Good(w) /\ w \ {y} = v \ {x} /\ v \ {x} \in SUBSET t /\ v \ {x} # t
        BY <1>4, <4>1
      <4>3. sum(v \ {x}) \in Nat
        BY <4>2, <1>4
      <4>4. sum(w) = f[y] + sum(w \ {y}) /\ sum(v) = f[x] + sum(v \ {x})
        BY <4>1, <4>2, <2>2
      <4> HIDE DEF w, v, y
      <4>5. sum(t) = f[x] + sum(w)
        BY <4>2, <4>3, <4>4, <2>1, <2>2, <4>1
      <4> QED BY <4>5 DEF w
    <3> QED BY <3>1, <3>2
  <2> QED BY <2>3, <2>4, <1>3
<1> QED BY <1>7, <1>8

\* Larger items, larger sum.
LEMMA SumAtMost ==
    ASSUME NEW S, IsFiniteSet(S), NEW f, NEW g,
           \A x \in S : f[x] \in Nat /\ g[x] \in Nat /\ f[x] <= g[x]
    PROVE  SumFunctionOnSet(f, S) <= SumFunctionOnSet(g, S)
<1> DEFINE B == {t \in SUBSET S : ~(SumFunctionOnSet(f, t) <= SumFunctionOnSet(g, t))}
<1>1. SUFFICES ASSUME B # {} PROVE FALSE
  OBVIOUS
<1>2. PICK t \in B : \A u \in B : u \subseteq t => u = t
  <2>1. B \subseteq SUBSET S OBVIOUS
  <2> HIDE DEF B
  <2> QED BY <1>1, <2>1, MinimalSubset
<1>3. t # {}
  BY SumEmpty
<1>4. PICK x : x \in t
  BY <1>3
<1>5. SumFunctionOnSet(f, t \ {x}) <= SumFunctionOnSet(g, t \ {x})
  BY <1>2, <1>4
<1>6. IsFiniteSet(t) /\ IsFiniteSet(t \ {x})
  BY FS_Subset
<1>7. /\ SumFunctionOnSet(f, t) = f[x] + SumFunctionOnSet(f, t \ {x})
      /\ SumFunctionOnSet(g, t) = g[x] + SumFunctionOnSet(g, t \ {x})
  BY <1>4, <1>6, SumRemove
<1>8. /\ SumFunctionOnSet(f, t \ {x}) \in Nat
      /\ SumFunctionOnSet(g, t \ {x}) \in Nat
  BY <1>4, <1>6, SumRemove
<1> QED BY <1>4, <1>5, <1>7, <1>8

\* An item is at most the sum.
LEMMA SumItem ==
    ASSUME NEW S, IsFiniteSet(S), NEW f, \A x \in S : f[x] \in Nat,
           NEW x \in S
    PROVE  f[x] <= SumFunctionOnSet(f, S)
<1>1. IsFiniteSet(S \ {x})
  BY FS_RemoveElement
<1>2. SumFunctionOnSet(f, S \ {x}) \in Nat
  BY <1>1, SumRemove
<1>3. SumFunctionOnSet(f, S) = f[x] + SumFunctionOnSet(f, S \ {x})
  BY SumRemove
<1> QED BY <1>2, <1>3

\* The sum over two sets without a common item.
LEMMA SumUnion ==
    ASSUME NEW S, IsFiniteSet(S), NEW T, IsFiniteSet(T), S \cap T = {},
           NEW f, \A x \in S \union T : f[x] \in Nat
    PROVE  SumFunctionOnSet(f, S \union T)
              = SumFunctionOnSet(f, S) + SumFunctionOnSet(f, T)
<1> DEFINE sum(t) == SumFunctionOnSet(f, t)
           B == {t \in SUBSET S : sum(t \union T) # sum(t) + sum(T)}
<1>0. sum(T) \in Nat
  BY SumRemove
<1>1. SUFFICES ASSUME B # {} PROVE FALSE
  OBVIOUS
<1>2. PICK t \in B : \A u \in B : u \subseteq t => u = t
  <2>1. B \subseteq SUBSET S OBVIOUS
  <2> HIDE DEF B
  <2> QED BY <1>1, <2>1, MinimalSubset
<1>3. t \in SUBSET S /\ sum(t \union T) # sum(t) + sum(T)
  BY <1>2
<1>4. t # {}
  <2> SUFFICES ASSUME t = {} PROVE FALSE
    OBVIOUS
  <2>1. t \union T = T
    OBVIOUS
  <2> QED BY <1>0, <1>3, <2>1, SumEmpty
<1>5. PICK x : x \in t
  BY <1>4
<1> DEFINE u == t \ {x}
<1>6. sum(u \union T) = sum(u) + sum(T)
  BY <1>2, <1>5
<1>7. IsFiniteSet(t) /\ IsFiniteSet(u) /\ IsFiniteSet(t \union T)
      /\ (t \union T) \ {x} = u \union T
  BY FS_Subset, FS_Union, <1>5
<1>8. sum(t) = f[x] + sum(u) /\ sum(u) \in Nat
  BY <1>5, <1>7, SumRemove
<1>9. sum(t \union T) = f[x] + sum(u \union T)
  BY <1>5, <1>7, SumRemove
<1>10. f[x] \in Nat
  BY <1>5
<1> HIDE DEF sum, u
<1> QED BY <1>0, <1>3, <1>6, <1>8, <1>9, <1>10
\* The sum of a function depends on its items only.
LEMMA SumSame ==
    ASSUME NEW S, IsFiniteSet(S), NEW f, NEW g,
           \A x \in S : f[x] \in Nat /\ g[x] = f[x]
    PROVE  SumFunctionOnSet(f, S) = SumFunctionOnSet(g, S)
<1>1. \A x \in S : f[x] \in Nat /\ g[x] \in Nat /\ f[x] <= g[x] /\ g[x] <= f[x]
  OBVIOUS
<1>2. /\ SumFunctionOnSet(f, S) <= SumFunctionOnSet(g, S)
      /\ SumFunctionOnSet(g, S) <= SumFunctionOnSet(f, S)
  BY <1>1, SumAtMost
<1>3. SumFunctionOnSet(f, S) \in Nat /\ SumFunctionOnSet(g, S) \in Nat
  BY <1>1, SumRemove
<1> QED BY <1>2, <1>3

\* A subset has the smaller sum.
LEMMA SumSubset ==
    ASSUME NEW S, IsFiniteSet(S), NEW T \in SUBSET S,
           NEW f, \A x \in S : f[x] \in Nat
    PROVE  SumFunctionOnSet(f, T) <= SumFunctionOnSet(f, S)
<1> DEFINE D == S \ T
<1>1. IsFiniteSet(T) /\ IsFiniteSet(D) /\ T \cap D = {} /\ T \union D = S
  BY FS_Subset
<1>2. \A x \in T \union D : f[x] \in Nat
  OBVIOUS
<1> HIDE DEF D
<1>3. SumFunctionOnSet(f, T \union D)
         = SumFunctionOnSet(f, T) + SumFunctionOnSet(f, D)
  BY <1>1, <1>2, SumUnion
<1>4. SumFunctionOnSet(f, S) = SumFunctionOnSet(f, T) + SumFunctionOnSet(f, D)
  BY <1>1, <1>3
<1>5. SumFunctionOnSet(f, T) \in Nat /\ SumFunctionOnSet(f, D) \in Nat
  BY <1>1, <1>2, SumRemove
<1> QED BY <1>4, <1>5

\* The cardinality of a set is a sum of ones.
LEMMA SumOfOnes ==
    ASSUME NEW S, IsFiniteSet(S), NEW f, \A x \in S : f[x] = 1
    PROVE  SumFunctionOnSet(f, S) = Cardinality(S)
<1> DEFINE B == {t \in SUBSET S : SumFunctionOnSet(f, t) # Cardinality(t)}
<1>1. SUFFICES ASSUME B # {} PROVE FALSE
  OBVIOUS
<1>2. PICK t \in B : \A u \in B : u \subseteq t => u = t
  <2>1. B \subseteq SUBSET S OBVIOUS
  <2> HIDE DEF B
  <2> QED BY <1>1, <2>1, MinimalSubset
<1>3. t \in SUBSET S /\ SumFunctionOnSet(f, t) # Cardinality(t)
  BY <1>2
<1>4. t # {}
  BY <1>3, SumEmpty, FS_EmptySet
<1>5. PICK x : x \in t
  BY <1>4
<1> DEFINE u == t \ {x}
<1>6. SumFunctionOnSet(f, u) = Cardinality(u)
  BY <1>2, <1>5
<1>7. IsFiniteSet(t) /\ IsFiniteSet(u)
  BY FS_Subset
<1>8. Cardinality(u) = Cardinality(t) - 1 /\ Cardinality(t) \in Nat
  BY <1>5, <1>7, FS_RemoveElement, FS_CardinalityType
<1>9. SumFunctionOnSet(f, t) = 1 + SumFunctionOnSet(f, u)
  BY <1>5, <1>7, SumRemove
<1> QED BY <1>3, <1>6, <1>8, <1>9

\* Nothing is the sum of nothings.
LEMMA SumOfZeros ==
    ASSUME NEW S, IsFiniteSet(S), NEW f, \A x \in S : f[x] = 0
    PROVE  SumFunctionOnSet(f, S) = 0
<1> DEFINE B == {t \in SUBSET S : SumFunctionOnSet(f, t) # 0}
<1>1. SUFFICES ASSUME B # {} PROVE FALSE
  OBVIOUS
<1>2. PICK t \in B : \A u \in B : u \subseteq t => u = t
  <2>1. B \subseteq SUBSET S OBVIOUS
  <2> HIDE DEF B
  <2> QED BY <1>1, <2>1, MinimalSubset
<1>3. PICK x : x \in t
  BY <1>2, SumEmpty
<1>4. SumFunctionOnSet(f, t \ {x}) = 0
  BY <1>2, <1>3
<1>5. SumFunctionOnSet(f, t) = f[x] + SumFunctionOnSet(f, t \ {x})
  BY <1>2, <1>3, FS_Subset, SumRemove
<1> QED BY <1>2, <1>3, <1>4, <1>5

\* Grouped by a key, the sums of the groups add up to the sum of all.
LEMMA SumOfGroups ==
    ASSUME NEW S, IsFiniteSet(S), NEW f, \A x \in S : f[x] \in Nat,
           NEW key, NEW V, IsFiniteSet(V), \A x \in S : key[x] \in V,
           NEW h, \A v \in V : h[v] = SumFunctionOnSet(f, {x \in S : key[x] = v})
    PROVE  SumFunctionOnSet(h, V) = SumFunctionOnSet(f, S)
<1> DEFINE in(W) == {x \in S : key[x] \in W}
           B == {W \in SUBSET V : SumFunctionOnSet(h, W)
                                      # SumFunctionOnSet(f, in(W))}
<1>0. B = {}
  <2>1. SUFFICES ASSUME B # {} PROVE FALSE
    OBVIOUS
  <2>2. PICK W \in B : \A u \in B : u \subseteq W => u = W
    <3>1. B \subseteq SUBSET V OBVIOUS
    <3> HIDE DEF B
    <3> QED BY <2>1, <3>1, MinimalSubset
  <2>3. W \in SUBSET V /\ SumFunctionOnSet(h, W) # SumFunctionOnSet(f, in(W))
    BY <2>2
  <2>4. W # {}
    <3> SUFFICES ASSUME W = {} PROVE FALSE
      OBVIOUS
    <3>1. in(W) = {}
      OBVIOUS
    <3> QED BY <2>3, <3>1, SumEmpty
  <2>5. PICK v : v \in W
    BY <2>4
  <2> DEFINE U == W \ {v}
             one == {x \in S : key[x] = v}
  <2>6. SumFunctionOnSet(h, U) = SumFunctionOnSet(f, in(U))
    BY <2>2, <2>5
  <2>7. IsFiniteSet(W) /\ IsFiniteSet(in(U)) /\ IsFiniteSet(one)
        /\ in(U) \cap one = {} /\ in(U) \union one = in(W)
    <3>1. IsFiniteSet(W) /\ IsFiniteSet(in(U)) /\ IsFiniteSet(one)
      BY FS_Subset, <2>3
    <3>2. in(U) \cap one = {} /\ in(U) \union one = in(W)
      BY <2>5
    <3> QED BY <3>1, <3>2
  <2>8. \A w \in V : h[w] \in Nat
    <3> TAKE w \in V
    <3>1. IsFiniteSet({x \in S : key[x] = w})
      BY FS_Subset
    <3> QED BY <3>1, SumRemove
  <2>9. SumFunctionOnSet(h, W) = h[v] + SumFunctionOnSet(h, U)
    BY <2>3, <2>5, <2>7, <2>8, SumRemove
  <2>10. SumFunctionOnSet(f, in(W))
            = SumFunctionOnSet(f, in(U)) + SumFunctionOnSet(f, one)
    <3>1. \A x \in in(U) \union one : f[x] \in Nat
      OBVIOUS
    <3> HIDE DEF in, one, U
    <3> QED BY <2>7, <3>1, SumUnion
  <2>11. SumFunctionOnSet(f, in(U)) \in Nat /\ SumFunctionOnSet(f, one) \in Nat
    BY <2>7, SumRemove
  <2>12. h[v] = SumFunctionOnSet(f, one)
    BY <2>3, <2>5
  <2> HIDE DEF in, one, U
  <2> QED BY <2>3, <2>6, <2>9, <2>10, <2>11, <2>12
<1>1. SumFunctionOnSet(h, V) = SumFunctionOnSet(f, in(V))
  BY <1>0
<1>2. in(V) = S
  OBVIOUS
<1> QED BY <1>1, <1>2

\* A set of naturals has a least member.
LEMMA LeastNatural ==
    ASSUME NEW I \in SUBSET Nat, I # {}
    PROVE  Min(I) \in I /\ \A i \in I : Min(I) <= i
<1>1. PICK n \in I : \A i \in I : <<i, n>> \notin OpToRel(<, Nat)
  BY NatLessThanWellFounded, WFMin
<1>2. ASSUME NEW i \in I PROVE n <= i
  <2>1. <<i, n>> \in Nat \X Nat /\ <<i, n>>[1] = i /\ <<i, n>>[2] = n
    OBVIOUS
  <2>2. ~(i < n)
    BY <1>1, <2>1 DEF OpToRel
  <2> QED BY <2>2
<1> QED BY <1>2 DEF Min
=============================================================================
