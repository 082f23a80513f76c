--------------------------- MODULE RTPHashTableProofs ---------------------------
(***************************************************************************)
(* Proofs about RTPHashTable: as long as it is used through its functions, *)
(* its list and its chains agree, for any keys and any hash function.      *)
(***************************************************************************)
EXTENDS RTPHashTable, Integers, FiniteSetTheorems, SequenceTheorems, NaturalsInduction,
        WellFoundedInduction, TLAPS

Field == {"table", "first", "last", "cur", "hashprev", "hashnext", "listprev", "listnext"}

\* The n elements of s, linked one after the other in both directions.
Chained(next, prev, n, s) ==
  /\ n \in Nat /\ s \in [1 .. n -> DOMAIN next]
  /\ \A i, j \in 1 .. n : s[i] = s[j] => i = j
  /\ \A i \in 1 .. n : /\ next[s[i]] = IF i = n THEN NULL ELSE s[i + 1]
                       /\ prev[s[i]] = IF i = 1 THEN NULL ELSE s[i - 1]

Head1(n, s) == IF n = 0 THEN NULL ELSE s[1]
Tail1(n, s) == IF n = 0 THEN NULL ELSE s[n]
Members(n, s) == {s[i] : i \in 1 .. n}

\* The list of all elements is s.
IsList(t, n, s) ==
  /\ Chained(t.listnext, t.listprev, n, s)
  /\ Members(n, s) = Elements(t)
  /\ t.first = Head1(n, s) /\ t.last = Tail1(n, s)

\* The chain of bucket b is s.
IsChain(t, b, n, s) ==
  /\ Chained(t.hashnext, t.hashprev, n, s)
  /\ Members(n, s) = {k \in Elements(t) : GetIndex(k) = b}
  /\ t.table[b] = Head1(n, s)

Sound(t) ==
  /\ t = [f \in Field |-> t[f]]
  /\ NULL \notin Elements(t)
  /\ \A k \in Elements(t) : GetIndex(k) \in Bucket
  /\ DOMAIN t.table = Bucket
  /\ DOMAIN t.listprev = Elements(t) /\ DOMAIN t.hashnext = Elements(t) /\ DOMAIN t.hashprev = Elements(t)
  /\ \E n, s : IsList(t, n, s)
  /\ \A b \in Bucket : \E n, s : IsChain(t, b, n, s)

-----------------------------------------------------------------------------
(* Linking and unlinking. *)

LEMMA LinkedIs ==
  ASSUME NEW next, NEW p, NEW q, NULL \notin DOMAIN next, p \in DOMAIN next \/ p = NULL
  PROVE  /\ DOMAIN Linked(next, p, q) = DOMAIN next
         /\ \A x \in DOMAIN next : Linked(next, p, q)[x] = IF x = p THEN q ELSE next[x]
  BY DEF Linked

LEMMA ExtendedIs ==
  ASSUME NEW next, NEW k, NEW q
  PROVE  /\ DOMAIN Extended(next, k, q) = DOMAIN next \cup {k}
         /\ \A x \in DOMAIN next \cup {k} : Extended(next, k, q)[x] = IF x = k THEN q ELSE next[x]
  BY DEF Extended

LEMMA ReducedIs ==
  ASSUME NEW next, NEW k
  PROVE  /\ DOMAIN Reduced(next, k) = DOMAIN next \ {k}
         /\ \A x \in DOMAIN next \ {k} : Reduced(next, k)[x] = next[x]
  BY DEF Reduced

\* A chain stays one while nothing touches the links of its elements.
LEMMA ChainUntouched ==
  ASSUME NEW next, NEW prev, NEW n, NEW s, Chained(next, prev, n, s), NEW nx, NEW pv,
         \A x \in Members(n, s) : x \in DOMAIN nx /\ nx[x] = next[x] /\ pv[x] = prev[x]
  PROVE  Chained(nx, pv, n, s)
<1>1. \A i \in 1 .. n : s[i] \in Members(n, s)
  BY DEF Members
<1> QED BY <1>1 DEF Chained

\* One more element at the end.
LEMMA PushBack ==
  ASSUME NEW next, NEW prev, NEW n, NEW s, Chained(next, prev, n, s),
         NULL \notin DOMAIN next, DOMAIN prev = DOMAIN next, NEW k, k \notin DOMAIN next,
         NEW nx, nx = Extended(Linked(next, Tail1(n, s), k), k, NULL),
         NEW pv, pv = Extended(prev, k, Tail1(n, s)),
         NEW m, m = n + 1, NEW u, u = [i \in 1 .. m |-> IF i <= n THEN s[i] ELSE k]
  PROVE  /\ Chained(nx, pv, m, u) /\ Members(m, u) = Members(n, s) \cup {k}
         /\ Head1(m, u) = (IF n = 0 THEN k ELSE Head1(n, s)) /\ Tail1(m, u) = k
<1>1. /\ n \in Nat /\ m \in Nat /\ m = n + 1 /\ m # 0 /\ s \in [1 .. n -> DOMAIN next]
      /\ \A i \in 1 .. n : s[i] \in DOMAIN next /\ s[i] # k /\ s[i] # NULL
      /\ \A i, j \in 1 .. n : s[i] = s[j] => i = j
      /\ \A i \in 1 .. n : /\ next[s[i]] = IF i = n THEN NULL ELSE s[i + 1]
                           /\ prev[s[i]] = IF i = 1 THEN NULL ELSE s[i - 1]
  BY DEF Chained
<1> DEFINE q == Tail1(n, s)
<1>2. q = (IF n = 0 THEN NULL ELSE s[n]) /\ (q \in DOMAIN next \/ q = NULL)
  BY <1>1 DEF Tail1
<1> HIDE DEF q
<1>3. /\ DOMAIN nx = DOMAIN next \cup {k} /\ nx[k] = NULL
      /\ \A x \in DOMAIN next : nx[x] = IF x = q THEN k ELSE next[x]
  <2> DEFINE l == Linked(next, q, k)
  <2>1. DOMAIN l = DOMAIN next /\ \A x \in DOMAIN next : l[x] = IF x = q THEN k ELSE next[x]
    BY <1>2, LinkedIs
  <2>2. nx = Extended(l, k, NULL)
    BY DEF q
  <2> HIDE DEF l
  <2> QED BY <2>1, <2>2 DEF Extended
<1>4. /\ DOMAIN pv = DOMAIN next \cup {k} /\ pv[k] = q
      /\ \A x \in DOMAIN next : pv[x] = prev[x]
  BY DEF Extended, q
<1>5. /\ \A i \in 1 .. n : i \in 1 .. m /\ u[i] = s[i]
      /\ m \in 1 .. m /\ u[m] = k /\ \A i \in 1 .. m : i = m \/ i \in 1 .. n
  BY <1>1
<1>6. u \in [1 .. m -> DOMAIN nx]
  <2>1. \A i \in 1 .. m : u[i] \in DOMAIN nx
    BY <1>1, <1>3, <1>5
  <2> QED BY <2>1
<1>7. \A i, j \in 1 .. m : u[i] = u[j] => i = j
  BY <1>1, <1>5
<1>8. ASSUME NEW i \in 1 .. m
      PROVE  /\ nx[u[i]] = IF i = m THEN NULL ELSE u[i + 1]
             /\ pv[u[i]] = IF i = 1 THEN NULL ELSE u[i - 1]
  <2>1. CASE i = m
    <3>1. nx[u[i]] = NULL /\ pv[u[i]] = q
      BY <1>3, <1>4, <1>5, <2>1
    <3>2. CASE n = 0
      BY <1>1, <1>2, <2>1, <3>1, <3>2
    <3>3. CASE n # 0
      <4>1. n \in 1 .. n /\ i # 1 /\ i - 1 = n
        BY <1>1, <2>1, <3>3
      <4>2. u[i - 1] = s[n]
        BY <1>5, <4>1
      <4> QED BY <1>2, <2>1, <3>1, <3>3, <4>1, <4>2
    <3> QED BY <3>2, <3>3
  <2>2. CASE i \in 1 .. n
    <3>1. u[i] = s[i] /\ i # m /\ s[i] \in DOMAIN next
      BY <1>1, <1>5, <2>2
    <3>2. pv[u[i]] = IF i = 1 THEN NULL ELSE s[i - 1]
      BY <1>1, <1>4, <2>2, <3>1
    <3>3. i # 1 => u[i - 1] = s[i - 1]
      <4>1. i # 1 => i - 1 \in 1 .. n
        BY <1>1, <2>2
      <4> QED BY <1>5, <4>1
    <3>4. CASE i = n
      <4>1. n # 0 /\ q = s[n] /\ i + 1 = m
        BY <1>1, <1>2, <2>2, <3>4
      <4>2. nx[u[i]] = k /\ u[i + 1] = k
        BY <1>3, <1>5, <3>1, <3>4, <4>1
      <4> QED BY <3>1, <3>2, <3>3, <4>2
    <3>5. CASE i # n
      <4>1. i + 1 \in 1 .. n /\ n \in 1 .. n
        BY <1>1, <2>2, <3>5
      <4>2. s[i] # q
        BY <1>1, <1>2, <2>2, <3>5, <4>1
      <4>3. nx[u[i]] = s[i + 1] /\ u[i + 1] = s[i + 1]
        BY <1>1, <1>3, <1>5, <2>2, <3>1, <3>5, <4>1, <4>2
      <4> QED BY <3>1, <3>2, <3>3, <4>3
    <3> QED BY <3>4, <3>5
  <2> QED BY <1>5, <2>1, <2>2
<1>9. Chained(nx, pv, m, u)
  BY <1>1, <1>6, <1>7, <1>8 DEF Chained
<1>10. Members(m, u) = Members(n, s) \cup {k}
  BY <1>5 DEF Members
<1>11. Head1(m, u) = (IF n = 0 THEN k ELSE Head1(n, s)) /\ Tail1(m, u) = k
  <2>1. n # 0 => u[1] = s[1]
    BY <1>1, <1>5
  <2>2. n = 0 => m = 1
    BY <1>1
  <2> QED BY <1>1, <1>5, <2>1, <2>2 DEF Head1, Tail1
<1> QED BY <1>9, <1>10, <1>11

\* One more element in front.
LEMMA PushFront ==
  ASSUME NEW next, NEW prev, NEW n, NEW s, Chained(next, prev, n, s),
         NULL \notin DOMAIN next, DOMAIN prev = DOMAIN next, NEW k, k \notin DOMAIN next,
         NEW nx, nx = Extended(next, k, Head1(n, s)),
         NEW pv, pv = Extended(Linked(prev, Head1(n, s), k), k, NULL),
         NEW m, m = n + 1, NEW u, u = [i \in 1 .. m |-> IF i = 1 THEN k ELSE s[i - 1]]
  PROVE  Chained(nx, pv, m, u) /\ Members(m, u) = Members(n, s) \cup {k} /\ Head1(m, u) = k
<1>1. /\ n \in Nat /\ m \in Nat /\ m = n + 1 /\ m # 0 /\ s \in [1 .. n -> DOMAIN next]
      /\ \A i \in 1 .. n : s[i] \in DOMAIN next /\ s[i] # k /\ s[i] # NULL
      /\ \A i, j \in 1 .. n : s[i] = s[j] => i = j
      /\ \A i \in 1 .. n : /\ next[s[i]] = IF i = n THEN NULL ELSE s[i + 1]
                           /\ prev[s[i]] = IF i = 1 THEN NULL ELSE s[i - 1]
  BY DEF Chained
<1> DEFINE q == Head1(n, s)
<1>2. q = (IF n = 0 THEN NULL ELSE s[1]) /\ (q \in DOMAIN next \/ q = NULL)
  BY <1>1 DEF Head1
<1> HIDE DEF q
<1>3. /\ DOMAIN pv = DOMAIN next \cup {k} /\ pv[k] = NULL
      /\ \A x \in DOMAIN next : pv[x] = IF x = q THEN k ELSE prev[x]
  <2> DEFINE l == Linked(prev, q, k)
  <2>1. DOMAIN l = DOMAIN next /\ \A x \in DOMAIN next : l[x] = IF x = q THEN k ELSE prev[x]
    BY <1>2, LinkedIs
  <2>2. pv = Extended(l, k, NULL)
    BY DEF q
  <2> HIDE DEF l
  <2> QED BY <2>1, <2>2 DEF Extended
<1>4. /\ DOMAIN nx = DOMAIN next \cup {k} /\ nx[k] = q
      /\ \A x \in DOMAIN next : nx[x] = next[x]
  BY DEF Extended, q
<1>5. /\ \A i \in 1 .. n : i + 1 \in 1 .. m /\ u[i + 1] = s[i]
      /\ 1 \in 1 .. m /\ u[1] = k
      /\ \A i \in 1 .. m : i = 1 \/ (i - 1 \in 1 .. n /\ i - 1 + 1 = i /\ u[i] = s[i - 1])
  BY <1>1
<1>6. u \in [1 .. m -> DOMAIN nx]
  <2>1. \A i \in 1 .. m : u[i] \in DOMAIN nx
    BY <1>1, <1>4, <1>5
  <2> QED BY <2>1
<1>7. \A i, j \in 1 .. m : u[i] = u[j] => i = j
  <2> SUFFICES ASSUME NEW i \in 1 .. m, NEW j \in 1 .. m, u[i] = u[j] PROVE i = j
    OBVIOUS
  <2>1. CASE i = 1 \/ j = 1
    BY <1>1, <1>5, <2>1
  <2>2. CASE i # 1 /\ j # 1
    <3>1. i - 1 = j - 1
      BY <1>1, <1>5, <2>2
    <3> QED BY <1>1, <3>1
  <2> QED BY <2>1, <2>2
<1>8. ASSUME NEW i \in 1 .. m
      PROVE  /\ nx[u[i]] = IF i = m THEN NULL ELSE u[i + 1]
             /\ pv[u[i]] = IF i = 1 THEN NULL ELSE u[i - 1]
  <2>1. CASE i = 1
    <3>1. pv[u[i]] = NULL /\ nx[u[i]] = q
      BY <1>3, <1>4, <1>5, <2>1
    <3>2. CASE n = 0
      BY <1>1, <1>2, <2>1, <3>1, <3>2
    <3>3. CASE n # 0
      <4>1. 1 \in 1 .. n /\ i # m /\ u[i + 1] = s[1]
        BY <1>1, <1>5, <2>1, <3>3
      <4> QED BY <1>2, <2>1, <3>1, <3>3, <4>1
    <3> QED BY <3>2, <3>3
  <2>2. CASE i # 1
    <3> DEFINE h == i - 1
    <3>1. h \in 1 .. n /\ i = h + 1 /\ u[i] = s[h] /\ s[h] \in DOMAIN next
      BY <1>1, <1>5, <2>2
    <3>2. i - 1 = h
      OBVIOUS
    <3> HIDE DEF h
    <3>3. nx[u[i]] = IF h = n THEN NULL ELSE s[h + 1]
      BY <1>1, <1>4, <3>1
    <3>4. h # n => h + 1 \in 1 .. n /\ u[i + 1] = s[h + 1]
      BY <1>1, <1>5, <3>1
    <3>5. pv[u[i]] = u[h]
      <4>1. CASE h = 1
        <5>1. q = s[1] /\ u[h] = k
          BY <1>1, <1>2, <1>5, <3>1, <4>1
        <5> QED BY <1>3, <3>1, <4>1, <5>1
      <4>2. CASE h # 1
        <5>1. 1 \in 1 .. n /\ s[h] # q /\ h \in 1 .. m
          BY <1>1, <1>2, <3>1, <4>2
        <5>2. pv[s[h]] = s[h - 1]
          BY <1>1, <1>3, <3>1, <4>2, <5>1
        <5>3. u[h] = s[h - 1]
          BY <1>5, <4>2, <5>1
        <5> QED BY <3>1, <5>2, <5>3
      <4> QED BY <4>1, <4>2
    <3>6. i = m <=> h = n
      BY <1>1, <3>1
    <3> QED BY <2>2, <3>2, <3>3, <3>4, <3>5, <3>6
  <2> QED BY <2>1, <2>2
<1>9. Chained(nx, pv, m, u)
  BY <1>1, <1>6, <1>7, <1>8 DEF Chained
<1>10. Members(m, u) = Members(n, s) \cup {k}
  <2>1. \A x \in Members(n, s) : \E i \in 1 .. m : u[i] = x
    BY <1>5 DEF Members
  <2> QED BY <1>5, <2>1 DEF Members
<1>11. Head1(m, u) = k
  BY <1>1, <1>5 DEF Head1
<1> QED BY <1>9, <1>10, <1>11

\* The element at j is taken out of its chain.
Without(n, s, j) == [i \in 1 .. n - 1 |-> IF i < j THEN s[i] ELSE s[i + 1]]

\* What is left of the chain s, and of the other chains.
Unlinked(next, prev, n, s, e, nx, pv, m, u) ==
  /\ Chained(nx, pv, m, u) /\ Members(m, u) = Members(n, s) \ {e}
  /\ DOMAIN nx = DOMAIN next \ {e} /\ DOMAIN pv = DOMAIN next \ {e}
  /\ \A x \in DOMAIN next \ Members(n, s) : nx[x] = next[x] /\ pv[x] = prev[x]
  /\ Head1(m, u) = (IF prev[e] = NULL THEN next[e] ELSE Head1(n, s))
  /\ Tail1(m, u) = (IF next[e] = NULL THEN prev[e] ELSE Tail1(n, s))

LEMMA Unlink ==
  ASSUME NEW next, NEW prev, NEW n, NEW s, Chained(next, prev, n, s),
         NULL \notin DOMAIN next, DOMAIN prev = DOMAIN next,
         NEW j \in 1 .. n, NEW e, e = s[j],
         NEW nx, nx = Reduced(Linked(next, prev[e], next[e]), e),
         NEW pv, pv = Reduced(Linked(prev, next[e], prev[e]), e),
         NEW m, m = n - 1, NEW u, u = Without(n, s, j)
  PROVE  Unlinked(next, prev, n, s, e, nx, pv, m, u)
<1>1. /\ n \in Nat /\ m \in Nat /\ n = m + 1 /\ n # 0 /\ s \in [1 .. n -> DOMAIN next]
      /\ \A i \in 1 .. n : s[i] \in DOMAIN next /\ s[i] # NULL
      /\ \A i, l \in 1 .. n : s[i] = s[l] => i = l
      /\ \A i \in 1 .. n : /\ next[s[i]] = IF i = n THEN NULL ELSE s[i + 1]
                           /\ prev[s[i]] = IF i = 1 THEN NULL ELSE s[i - 1]
  BY DEF Chained
<1> DEFINE p == prev[e]
           q == next[e]
<1>2. /\ p = (IF j = 1 THEN NULL ELSE s[j - 1]) /\ q = (IF j = n THEN NULL ELSE s[j + 1])
      /\ e \in DOMAIN next
  BY <1>1
<1>3. (p \in DOMAIN next \/ p = NULL) /\ (q \in DOMAIN next \/ q = NULL)
  <2>1. (j # 1 => j - 1 \in 1 .. n) /\ (j # n => j + 1 \in 1 .. n)
    BY <1>1
  <2> QED BY <1>1, <1>2, <2>1
<1> HIDE DEF p, q
<1>4. /\ DOMAIN nx = DOMAIN next \ {e}
      /\ \A x \in DOMAIN next \ {e} : nx[x] = IF x = p THEN q ELSE next[x]
  <2> DEFINE l == Linked(next, p, q)
  <2>1. DOMAIN l = DOMAIN next /\ \A x \in DOMAIN next : l[x] = IF x = p THEN q ELSE next[x]
    BY <1>3, LinkedIs
  <2>2. nx = Reduced(l, e)
    BY DEF p, q
  <2> HIDE DEF l
  <2> QED BY <2>1, <2>2 DEF Reduced
<1>5. /\ DOMAIN pv = DOMAIN next \ {e}
      /\ \A x \in DOMAIN next \ {e} : pv[x] = IF x = q THEN p ELSE prev[x]
  <2> DEFINE l == Linked(prev, q, p)
  <2>1. DOMAIN l = DOMAIN next /\ \A x \in DOMAIN next : l[x] = IF x = q THEN p ELSE prev[x]
    BY <1>3, LinkedIs
  <2>2. pv = Reduced(l, e)
    BY DEF p, q
  <2> HIDE DEF l
  <2> QED BY <2>1, <2>2 DEF Reduced
<1>6. /\ \A i \in 1 .. m : u[i] = IF i < j THEN s[i] ELSE s[i + 1]
      /\ u \in [1 .. m -> DOMAIN nx]
      /\ \A i \in 1 .. m : i \in 1 .. n /\ i + 1 \in 1 .. n
  <2>1. \A i \in 1 .. m : u[i] = IF i < j THEN s[i] ELSE s[i + 1]
    BY DEF Without
  <2>2. \A i \in 1 .. m : i \in 1 .. n /\ i + 1 \in 1 .. n
    BY <1>1
  <2>3. \A i \in 1 .. m : u[i] \in DOMAIN nx
    BY <1>1, <1>4, <2>1, <2>2
  <2>4. u = [i \in 1 .. m |-> IF i < j THEN s[i] ELSE s[i + 1]]
    BY DEF Without
  <2> QED BY <2>1, <2>2, <2>3, <2>4
<1>7. \A i, l \in 1 .. m : u[i] = u[l] => i = l
  BY <1>1, <1>6
<1>8. ASSUME NEW i \in 1 .. m
      PROVE  /\ nx[u[i]] = IF i = m THEN NULL ELSE u[i + 1]
             /\ pv[u[i]] = IF i = 1 THEN NULL ELSE u[i - 1]
  <2>1. i # m => i + 1 \in 1 .. m
    BY <1>1
  <2>2. i # 1 => i - 1 \in 1 .. m
    BY <1>1
  <2>3. CASE i < j
    <3>1. u[i] = s[i] /\ s[i] # e /\ s[i] \in DOMAIN next \ {e} /\ i \in 1 .. n /\ j \in 1 .. n
      BY <1>1, <1>6, <2>3
    <3>2. s[i] # q
      BY <1>1, <1>2, <2>3, <3>1
    <3>3. pv[u[i]] = IF i = 1 THEN NULL ELSE s[i - 1]
      BY <1>1, <1>5, <3>1, <3>2
    <3>4. i # 1 => u[i - 1] = s[i - 1]
      <4>1. i # 1 => i - 1 < j
        BY <2>3
      <4> QED BY <1>6, <2>2, <4>1
    <3>5. CASE i + 1 = j
      <4>1. s[i] = p
        <5>1. j # 1 /\ j - 1 = i
          BY <3>5
        <5> QED BY <1>2, <5>1
      <4>2. nx[u[i]] = q
        BY <1>4, <3>1, <4>1
      <4>3. i = m <=> j = n
        BY <1>1, <3>5
      <4>4. i # m => u[i + 1] = s[j + 1]
        <5>1. ~(i + 1 < j)
          BY <3>5
        <5> QED BY <1>6, <2>1, <3>5, <5>1
      <4> QED BY <1>2, <3>3, <3>4, <4>2, <4>3, <4>4
    <3>6. CASE i + 1 # j
      <4>1. i # n /\ i # m /\ i + 1 < j
        BY <1>1, <2>3, <3>6
      <4>2. s[i] # p
        <5>1. j # 1 => j - 1 \in 1 .. n /\ j - 1 # i
          BY <1>1, <4>1
        <5> QED BY <1>1, <1>2, <3>1, <5>1
      <4>3. nx[u[i]] = s[i + 1]
        BY <1>1, <1>4, <3>1, <4>1, <4>2
      <4>4. u[i + 1] = s[i + 1]
        BY <1>6, <2>1, <4>1
      <4> QED BY <3>3, <3>4, <4>1, <4>3, <4>4
    <3> QED BY <3>5, <3>6
  <2>4. CASE ~(i < j)
    <3> DEFINE h == i + 1
    <3>1. h \in 1 .. n /\ j < h /\ i = h - 1 /\ h # 1 /\ j \in 1 .. n
      BY <1>1, <2>4
    <3>2. u[i] = s[h]
      BY <1>6, <2>4
    <3> HIDE DEF h
    <3>3. s[h] \in DOMAIN next \ {e} /\ s[h] # p
      <4>1. j # 1 => j - 1 \in 1 .. n /\ j - 1 # h
        BY <1>1, <3>1
      <4>2. s[h] # e
        BY <1>1, <3>1
      <4> QED BY <1>1, <1>2, <3>1, <4>1, <4>2
    <3>4. nx[u[i]] = IF h = n THEN NULL ELSE s[h + 1]
      BY <1>1, <1>4, <3>1, <3>2, <3>3
    <3>5. i = m <=> h = n
      BY <1>1, <3>1
    <3>6. i # m => u[i + 1] = s[h + 1]
      <4>1. ~(i + 1 < j) /\ i + 1 = h
        BY <2>4, <3>1
      <4> QED BY <1>6, <2>1, <4>1
    <3>7. pv[u[i]] = IF i = 1 THEN NULL ELSE u[i - 1]
      <4>1. CASE i = j
        <5>1. j # n /\ q = s[h]
          <6>1. j # n /\ j + 1 = h
            BY <3>1, <4>1
          <6> QED BY <1>2, <6>1
        <5>2. pv[u[i]] = p
          BY <1>5, <3>2, <3>3, <5>1
        <5>3. i # 1 => u[i - 1] = s[j - 1]
          <6>1. i - 1 < j
            BY <4>1
          <6> QED BY <1>6, <2>2, <4>1, <6>1
        <5> QED BY <1>2, <4>1, <5>2, <5>3
      <4>2. CASE i # j
        <5>1. s[h] # q
          <6>1. j # n => j + 1 \in 1 .. n /\ j + 1 # h
            BY <1>1, <3>1, <4>2
          <6> QED BY <1>1, <1>2, <3>1, <6>1
        <5>2. pv[u[i]] = s[i]
          BY <1>1, <1>5, <3>1, <3>2, <3>3, <5>1
        <5>3. i # 1 /\ ~(i - 1 < j) /\ i - 1 + 1 = i
          BY <1>1, <2>4, <4>2
        <5>4. u[i - 1] = s[i]
          BY <1>6, <2>2, <5>3
        <5> QED BY <5>2, <5>3, <5>4
      <4> QED BY <4>1, <4>2
    <3> QED BY <3>4, <3>5, <3>6, <3>7
  <2> QED BY <2>3, <2>4
<1>9. Chained(nx, pv, m, u)
  BY <1>1, <1>6, <1>7, <1>8 DEF Chained
<1>10. Members(m, u) = Members(n, s) \ {e}
  <2>1. ASSUME NEW i \in 1 .. m PROVE u[i] \in Members(n, s) \ {e}
    <3>1. (i < j => i # j) /\ (~(i < j) => i + 1 # j)
      BY <1>1
    <3> QED BY <1>1, <1>6, <3>1 DEF Members
  <2>2. ASSUME NEW i \in 1 .. n, s[i] # e PROVE s[i] \in Members(m, u)
    <3>1. i # j
      BY <2>2
    <3>2. CASE i < j
      <4>1. i \in 1 .. m
        BY <1>1, <3>2
      <4> QED BY <1>6, <3>2, <4>1 DEF Members
    <3>3. CASE j < i
      <4>1. i - 1 \in 1 .. m /\ ~(i - 1 < j) /\ i - 1 + 1 = i
        BY <1>1, <3>3
      <4> QED BY <1>6, <4>1 DEF Members
    <3> QED BY <1>1, <3>1, <3>2, <3>3
  <2> QED BY <2>1, <2>2 DEF Members
<1>11. \A x \in DOMAIN next \ Members(n, s) : nx[x] = next[x] /\ pv[x] = prev[x]
  <2>1. (p = NULL \/ p \in Members(n, s)) /\ (q = NULL \/ q \in Members(n, s)) /\ e \in Members(n, s)
    <3>1. (j # 1 => j - 1 \in 1 .. n) /\ (j # n => j + 1 \in 1 .. n)
      BY <1>1
    <3> QED BY <1>2, <3>1 DEF Members
  <2> QED BY <1>4, <1>5, <2>1
<1>12. Head1(m, u) = IF p = NULL THEN q ELSE Head1(n, s)
  <2>1. CASE j = 1
    <3>1. p = NULL /\ (m = 0 <=> j = n)
      BY <1>1, <1>2, <2>1
    <3>2. m # 0 => 1 \in 1 .. m /\ ~(1 < j)
      BY <1>1, <2>1
    <3>3. m # 0 => u[1] = s[j + 1]
      BY <1>6, <2>1, <3>2
    <3> QED BY <1>2, <3>1, <3>3 DEF Head1
  <2>2. CASE j # 1
    <3>1. m # 0 /\ 1 \in 1 .. m /\ 1 < j /\ j - 1 \in 1 .. n
      <4>1. 1 < j /\ j <= n /\ j \in Nat
        BY <1>1, <2>2
      <4>2. n > 1 /\ m > 0
        BY <1>1, <4>1
      <4> QED BY <1>1, <4>1, <4>2
    <3>2. u[1] = s[1] /\ p # NULL
      BY <1>1, <1>2, <1>6, <2>2, <3>1
    <3> QED BY <1>1, <3>1, <3>2 DEF Head1
  <2> QED BY <2>1, <2>2
<1>13. Tail1(m, u) = IF q = NULL THEN p ELSE Tail1(n, s)
  <2>1. CASE j = n
    <3>1. q = NULL /\ (m = 0 <=> j = 1) /\ m = j - 1
      BY <1>1, <1>2, <2>1
    <3>2. m # 0 => m \in 1 .. m /\ m < j
      BY <1>1, <2>1
    <3>3. m # 0 => u[m] = s[m]
      BY <1>6, <3>2
    <3> QED BY <1>2, <3>1, <3>3 DEF Tail1
  <2>2. CASE j # n
    <3>1. m # 0 /\ m \in 1 .. m /\ ~(m < j) /\ j + 1 \in 1 .. n
      <4>1. j < n /\ j >= 1
        BY <1>1, <2>2
      <4> QED BY <1>1, <4>1
    <3>2. u[m] = s[n] /\ q # NULL
      BY <1>1, <1>2, <1>6, <2>2, <3>1
    <3> QED BY <1>1, <3>1, <3>2 DEF Tail1
  <2> QED BY <2>1, <2>2
<1> QED BY <1>4, <1>5, <1>9, <1>10, <1>11, <1>12, <1>13 DEF p, q, Unlinked

-----------------------------------------------------------------------------
(* Following the links. *)

\* A set of naturals has a least one.
LEMMA LeastOf ==
  ASSUME NEW S, S \subseteq Nat, S # {}
  PROVE  \E i \in S : \A j \in S : i <= j
<1> DEFINE R == {ss \in Nat \X Nat : ss[1] < ss[2]}
<1>1. IsWellFoundedOn(R, Nat)
  BY NatLessThanWellFounded DEF OpToRel
<1>2. PICK i \in S : \A j \in S : ~ (<<j, i>> \in R)
  <2> HIDE DEF R
  <2> QED BY <1>1, WFMin, Zenon
<1>3. ASSUME NEW j \in S PROVE i <= j
  <2>1. i \in Nat /\ j \in Nat
    OBVIOUS
  <2>2. <<j, i>> \in Nat \X Nat /\ <<j, i>>[1] = j /\ <<j, i>>[2] = i
    BY <2>1
  <2>3. ~ (j < i)
    BY <1>2, <2>2
  <2> QED BY <2>1, <2>3
<1> QED BY <1>3

\* Induction up to n, as far as it is a matter of a set.
LEMMA UpTo ==
  ASSUME NEW n \in Nat, NEW P, 0 \in P, \A i \in 1 .. n : i - 1 \in P => i \in P
  PROVE  \A i \in 0 .. n : i \in P
<1> DEFINE Bad == {i \in 0 .. n : i \notin P}
<1>1. CASE Bad = {}
  BY <1>1
<1>2. CASE Bad # {}
  <2>1. Bad \subseteq Nat
    OBVIOUS
  <2>2. PICK i \in Bad : \A j \in Bad : i <= j
    <3> HIDE DEF Bad
    <3> QED BY <1>2, <2>1, LeastOf
  <2>3. i \in 1 .. n /\ i - 1 \in 0 .. n /\ ~(i <= i - 1)
    BY <2>2
  <2>4. i - 1 \in P
    BY <2>2, <2>3
  <2> QED BY <2>2, <2>3, <2>4
<1> QED BY <1>1, <1>2

\* Both directions tell the same.
LEMMA Backwards ==
  ASSUME NEW next, NEW prev, NEW n, NEW s, Chained(next, prev, n, s), DOMAIN prev = DOMAIN next,
         NEW u, u = [i \in 1 .. n |-> s[n + 1 - i]]
  PROVE  Chained(prev, next, n, u) /\ Head1(n, u) = Tail1(n, s)
<1>1. /\ n \in Nat /\ s \in [1 .. n -> DOMAIN next]
      /\ \A i, j \in 1 .. n : s[i] = s[j] => i = j
      /\ \A i \in 1 .. n : /\ next[s[i]] = IF i = n THEN NULL ELSE s[i + 1]
                           /\ prev[s[i]] = IF i = 1 THEN NULL ELSE s[i - 1]
  BY DEF Chained
<1>2. \A i \in 1 .. n : n + 1 - i \in 1 .. n /\ u[i] = s[n + 1 - i]
  BY <1>1
<1>3. u \in [1 .. n -> DOMAIN prev]
  BY <1>1, <1>2
<1>4. ASSUME NEW i \in 1 .. n, NEW j \in 1 .. n, u[i] = u[j] PROVE i = j
  <2>1. n + 1 - i = n + 1 - j
    BY <1>1, <1>2, <1>4
  <2> QED BY <1>1, <2>1
<1>5. ASSUME NEW i \in 1 .. n
      PROVE  /\ prev[u[i]] = IF i = n THEN NULL ELSE u[i + 1]
             /\ next[u[i]] = IF i = 1 THEN NULL ELSE u[i - 1]
  <2> DEFINE h == n + 1 - i
  <2>1. h \in 1 .. n /\ u[i] = s[h] /\ (h = 1 <=> i = n) /\ (h = n <=> i = 1)
    BY <1>1, <1>2
  <2>2. i # n => i + 1 \in 1 .. n /\ n + 1 - (i + 1) = h - 1
    BY <1>1
  <2>3. i # 1 => i - 1 \in 1 .. n /\ n + 1 - (i - 1) = h + 1
    BY <1>1
  <2> HIDE DEF h
  <2>4. i # n => u[i + 1] = s[h - 1]
    BY <1>2, <2>2
  <2>5. i # 1 => u[i - 1] = s[h + 1]
    BY <1>2, <2>3
  <2> QED BY <1>1, <2>1, <2>4, <2>5
<1>6. n # 0 => u[1] = s[n]
  <2>1. n # 0 => 1 \in 1 .. n /\ n + 1 - 1 = n
    BY <1>1
  <2> QED BY <1>2, <2>1
<1> QED BY <1>1, <1>3, <1>4, <1>5, <1>6 DEF Chained, Head1, Tail1

\* A chain is no longer than there are elements.
LEMMA ChainLength ==
  ASSUME NEW next, NEW prev, NEW n, NEW s, Chained(next, prev, n, s)
  PROVE  /\ IsFiniteSet(DOMAIN next) => n <= Cardinality(DOMAIN next)
         /\ Members(n, s) = DOMAIN next => IsFiniteSet(DOMAIN next) /\ Cardinality(DOMAIN next) = n
<1> DEFINE D == DOMAIN next
<1>1. n \in Nat /\ s \in [1 .. n -> D] /\ \A i, j \in 1 .. n : s[i] = s[j] => i = j
  BY DEF Chained
<1>2. IsFiniteSet(1 .. n) /\ Cardinality(1 .. n) = n
  BY <1>1, FS_Interval
<1> HIDE DEF D
<1>3. s \in Injection(1 .. n, D)
  BY <1>1 DEF Injection, IsInjective
<1>4. IsFiniteSet(D) => n <= Cardinality(D)
  BY <1>2, <1>3, FS_Injection
<1>5. ASSUME Members(n, s) = D PROVE IsFiniteSet(D) /\ Cardinality(D) = n
  <2>1. \A x \in D : \E i \in 1 .. n : s[i] = x
    BY <1>5 DEF Members
  <2>2. s \in Bijection(1 .. n, D)
    BY <1>1, <1>3, <2>1 DEF Bijection, Surjection
  <2>3. ExistsBijection(1 .. n, D)
    BY <2>2 DEF ExistsBijection
  <2> QED BY <1>2, <2>3, FS_Bijection
<1> QED BY <1>4, <1>5 DEF D

\* The beginning of a list, and one element more.
LEMMA OneMore ==
  ASSUME NEW S, NEW n \in Nat, NEW s \in [1 .. n -> S], NEW k \in 0 .. n, k < n,
         NEW v, v = [l \in 1 .. k |-> s[l]], NEW x, x = s[k + 1]
  PROVE  Append(v, x) = [l \in 1 .. k + 1 |-> s[l]]
<1> DEFINE m == k + 1
           w == [l \in 1 .. m |-> s[l]]
<1>1. /\ k \in Nat /\ m \in Nat /\ m = k + 1 /\ m \in 1 .. n
      /\ \A l \in 1 .. k : l \in 1 .. n
      /\ \A l \in 1 .. m : l \in 1 .. n /\ (l \in 1 .. k \/ l = m)
  OBVIOUS
<1>2. v \in Seq(S) /\ Len(v) = k /\ \A l \in 1 .. k : v[l] = s[l]
  <2>1. v \in [1 .. k -> S]
    BY <1>1
  <2> QED BY <1>1, <2>1
<1>3. w \in Seq(S) /\ Len(w) = m /\ \A l \in 1 .. m : w[l] = s[l]
  <2>1. w \in [1 .. m -> S]
    BY <1>1
  <2>2. \A l \in 1 .. m : w[l] = s[l]
    OBVIOUS
  <2> HIDE DEF w, m
  <2> QED BY <1>1, <2>1, <2>2
<1>4. x \in S /\ x = s[m]
  BY <1>1
<1> DEFINE a == Append(v, x)
<1>5. a \in Seq(S) /\ Len(a) = m /\ (\A l \in 1 .. k : a[l] = s[l]) /\ a[m] = s[m]
  BY <1>1, <1>2, <1>4, AppendProperties
<1>6. a = w
  <2> HIDE DEF a, w, m
  <2>1. \A l \in 1 .. Len(a) : a[l] = w[l]
    BY <1>1, <1>3, <1>5
  <2> QED BY <1>3, <1>5, <2>1, SeqEqual
<1> QED BY <1>6

\* One step of Path: w is what was passed.
NextOf(next, p, w) == IF w = <<>> THEN p ELSE next[w[Len(w)]]
PassedOne(next, p, w) == IF NextOf(next, p, w) = NULL THEN w ELSE Append(w, NextOf(next, p, w))

\* The first i elements of s, or all.
Front(n, s, i) == [l \in 1 .. (IF i <= n THEN i ELSE n) |-> s[l]]

LEMMA PathStep ==
  ASSUME NEW next, NEW prev, NEW n, NEW s, Chained(next, prev, n, s), NULL \notin DOMAIN next,
         NEW p, p = Head1(n, s), NEW k \in Nat
  PROVE  PassedOne(next, p, Front(n, s, k)) = Front(n, s, k + 1)
<1> DEFINE D == DOMAIN next
           h == IF k <= n THEN k ELSE n
           v == [l \in 1 .. h |-> s[l]]
<1>1. /\ n \in Nat /\ s \in [1 .. n -> D] /\ \A i \in 1 .. n : s[i] # NULL
      /\ \A i \in 1 .. n : next[s[i]] = IF i = n THEN NULL ELSE s[i + 1]
  BY DEF Chained
<1>2. h \in 0 .. n /\ h \in Nat /\ (h = n <=> k >= n) /\ (k < n => h = k)
  BY <1>1
<1>3. v = Front(n, s, k)
  BY DEF Front
<1>4. v \in Seq(D) /\ Len(v) = h /\ \A l \in 1 .. h : v[l] = s[l]
  <2>1. \A l \in 1 .. h : l \in 1 .. n
    BY <1>1, <1>2
  <2> HIDE DEF h, D
  <2>2. v \in [1 .. h -> D]
    BY <1>1, <2>1
  <2> QED BY <1>2, <2>2
<1>5. k < n => Front(n, s, k + 1) = [l \in 1 .. h + 1 |-> s[l]]
  BY <1>1, <1>2 DEF Front
<1>6. k >= n => Front(n, s, k + 1) = v
  <2>1. k >= n => (k <= n => k = n) /\ ~(k + 1 <= n)
    BY <1>1
  <2> QED BY <2>1 DEF Front
<1> DEFINE q == NextOf(next, p, v)
<1>7. q = IF k < n THEN s[h + 1] ELSE NULL
  <2>1. CASE h = 0
    <3>1. v = <<>>
      BY <1>4, <2>1
    <3>2. q = p
      BY <3>1 DEF NextOf
    <3> QED BY <1>1, <1>2, <2>1, <3>2 DEF Head1
  <2>2. CASE h # 0
    <3>1. h \in 1 .. n /\ v # <<>>
      BY <1>1, <1>2, <1>4, <2>2
    <3> HIDE DEF h
    <3>2. v[Len(v)] = s[h]
      BY <1>4, <3>1
    <3>3. q = next[s[h]]
      BY <3>1, <3>2 DEF NextOf
    <3>4. next[s[h]] = IF h = n THEN NULL ELSE s[h + 1]
      BY <1>1, <3>1
    <3>5. h = n <=> ~(k < n)
      BY <1>1, <1>2
    <3> HIDE DEF q
    <3> QED BY <3>3, <3>4, <3>5
  <2> QED BY <2>1, <2>2
<1> HIDE DEF q, h
<1>8. CASE k < n
  <2>1. h < n /\ h + 1 \in 1 .. n
    BY <1>1, <1>2, <1>8
  <2>2. q # NULL /\ q = s[h + 1]
    BY <1>1, <1>7, <1>8, <2>1
  <2>3. Append(v, q) = [l \in 1 .. h + 1 |-> s[l]]
    <3> DEFINE w == v
    <3>1. w = [l \in 1 .. h |-> s[l]]
      OBVIOUS
    <3> HIDE DEF w, D
    <3>2. Append(w, q) = [l \in 1 .. h + 1 |-> s[l]]
      BY ONLY <1>1, <1>2, <2>1, <2>2, <3>1, OneMore
    <3> QED BY <3>2 DEF w
  <2>4. PassedOne(next, p, v) = Append(v, q)
    BY <2>2 DEF PassedOne, q
  <2> QED BY <1>3, <1>5, <1>8, <2>3, <2>4
<1>9. CASE k >= n
  <2>1. q = NULL
    BY <1>1, <1>7, <1>9
  <2>2. PassedOne(next, p, v) = v
    BY <2>1 DEF PassedOne, q
  <2> QED BY <1>3, <1>6, <1>9, <2>2
<1> QED BY <1>1, <1>8, <1>9

\* From the head of a chain, Path is the chain.
LEMMA PathIs ==
  ASSUME NEW next, NEW prev, NEW n, NEW s, Chained(next, prev, n, s), NULL \notin DOMAIN next,
         IsFiniteSet(DOMAIN next), NEW p, p = Head1(n, s)
  PROVE  Path(next, p) = s
<1> DEFINE N == Cardinality(DOMAIN next)
           Step(g) == [k \in 0 .. N |-> IF k = 0 THEN <<>> ELSE PassedOne(next, p, g[k - 1])]
           walk == CHOOSE g : g = Step(g)
           w == [k \in 0 .. N |-> Front(n, s, k)]
<1>1. N \in Nat /\ n \in Nat /\ n <= N /\ s \in [1 .. n -> DOMAIN next]
  <2>1. n \in Nat /\ s \in [1 .. n -> DOMAIN next]
    BY DEF Chained
  <2>2. n <= N
    BY ChainLength
  <2>3. N \in Nat
    BY FS_CardinalityType
  <2> QED BY <2>1, <2>2, <2>3
<1>2. Path(next, p) = walk[N]
  BY DEF Path, PassedOne, NextOf
<1> HIDE DEF N
<1>3. Front(n, s, 0) = <<>> /\ Front(n, s, N) = s
  <2>1. s = [l \in 1 .. n |-> s[l]]
    BY <1>1
  <2>2. Front(n, s, N) = [l \in 1 .. n |-> s[l]]
    BY <1>1 DEF Front
  <2>3. Front(n, s, 0) = <<>>
    BY <1>1 DEF Front
  <2> QED BY <2>1, <2>2, <2>3
<1>4. \A k \in 1 .. N : PassedOne(next, p, Front(n, s, k - 1)) = Front(n, s, k)
  <2> SUFFICES ASSUME NEW k \in 1 .. N
               PROVE  PassedOne(next, p, Front(n, s, k - 1)) = Front(n, s, k)
    OBVIOUS
  <2> DEFINE i == k - 1
  <2>1. i \in Nat /\ k = i + 1
    BY <1>1
  <2> HIDE DEF i
  <2>2. PassedOne(next, p, Front(n, s, i)) = Front(n, s, i + 1)
    BY <2>1, PathStep
  <2> QED BY <2>1, <2>2 DEF i
<1>5. w = Step(w)
  <2>1. \A k \in 1 .. N : k - 1 \in 0 .. N
    BY <1>1
  <2>2. \A k \in 0 .. N : w[k] = IF k = 0 THEN <<>> ELSE PassedOne(next, p, w[k - 1])
    BY <1>3, <1>4, <2>1
  <2> QED BY <2>2
<1> HIDE DEF w
<1>6. walk = Step(walk)
  BY <1>5
<1> HIDE DEF walk
<1>7. walk[0] = <<>> /\ \A k \in 1 .. N : walk[k] = PassedOne(next, p, walk[k - 1])
  <2> DEFINE r == Step(walk)
  <2>1. r[0] = <<>> /\ \A k \in 1 .. N : r[k] = PassedOne(next, p, walk[k - 1])
    BY <1>1
  <2>2. walk = r
    BY <1>6
  <2> HIDE DEF r
  <2> QED BY <2>1, <2>2
<1> DEFINE P == {k \in 0 .. N : walk[k] = Front(n, s, k)}
<1>8. 0 \in P
  BY <1>1, <1>3, <1>7
<1>9. \A k \in 1 .. N : k - 1 \in P => k \in P
  BY <1>1, <1>4, <1>7
<1>10. \A k \in 0 .. N : k \in P
  <2> HIDE DEF P
  <2> QED BY <1>1, <1>8, <1>9, UpTo
<1>11. N \in P
  BY <1>1, <1>10
<1> QED BY <1>2, <1>3, <1>11

-----------------------------------------------------------------------------
(* What a sound table is to those who use it. *)

\* Listed and Chain are the sequences that the links make.
LEMMA SoundLists ==
  ASSUME NEW t, Sound(t)
  PROVE  /\ IsFiniteSet(Elements(t))
         /\ Listed(t) \in Seq(Elements(t)) /\ IsList(t, Len(Listed(t)), Listed(t))
         /\ \A b \in Bucket : Chain(t, b) \in Seq(Elements(t)) /\ IsChain(t, b, Len(Chain(t, b)), Chain(t, b))
<1> DEFINE D == Elements(t)
<1>1. /\ NULL \notin D /\ D = DOMAIN t.listnext /\ DOMAIN t.listprev = D
      /\ DOMAIN t.hashnext = D /\ DOMAIN t.hashprev = D
  BY DEF Sound, Elements
<1>2. PICK n, s : IsList(t, n, s)
  BY DEF Sound
<1>3. Chained(t.listnext, t.listprev, n, s) /\ Members(n, s) = D /\ t.first = Head1(n, s)
  BY <1>2 DEF IsList
<1>4. IsFiniteSet(D)
  BY <1>1, <1>3, ChainLength
<1>5. Listed(t) = s
  BY <1>1, <1>3, <1>4, PathIs DEF Listed
<1> HIDE DEF D
<1>6. s \in Seq(D) /\ Len(s) = n
  <2>1. n \in Nat /\ s \in [1 .. n -> D]
    BY <1>1, <1>3 DEF Chained
  <2> QED BY <2>1
<1>7. ASSUME NEW b \in Bucket
      PROVE  Chain(t, b) \in Seq(D) /\ IsChain(t, b, Len(Chain(t, b)), Chain(t, b))
  <2>1. PICK m, c : IsChain(t, b, m, c)
    BY DEF Sound
  <2>2. Chained(t.hashnext, t.hashprev, m, c) /\ t.table[b] = Head1(m, c)
    BY <2>1 DEF IsChain
  <2>3. Chain(t, b) = c
    BY <1>1, <1>4, <2>2, PathIs DEF Chain
  <2>4. c \in Seq(D) /\ Len(c) = m
    <3>1. m \in Nat /\ c \in [1 .. m -> D]
      BY <1>1, <2>2 DEF Chained
    <3> QED BY <3>1
  <2> QED BY <2>1, <2>3, <2>4
<1> QED BY <1>2, <1>4, <1>5, <1>6, <1>7 DEF D

\* A search by key finds exactly the elements that were added.
LEMMA SearchIs ==
  ASSUME NEW t, Sound(t), NEW k, GetIndex(k) \in Bucket
  PROVE  HasElement(t, k) <=> k \in Elements(t)
<1> DEFINE c == Chain(t, GetIndex(k))
<1>1. c \in Seq(Elements(t)) /\ IsChain(t, GetIndex(k), Len(c), c)
  BY SoundLists
<1>2. HasElement(t, k) <=> \E i \in DOMAIN c : c[i] = k
  BY DEF HasElement
<1> HIDE DEF c
<1>3. Members(Len(c), c) = {x \in Elements(t) : GetIndex(x) = GetIndex(k)}
  BY <1>1 DEF IsChain
<1>4. DOMAIN c = 1 .. Len(c)
  BY <1>1
<1> QED BY <1>2, <1>3, <1>4 DEF Members

\* The list from its first element: what an iteration relies on.
ListIn(t, q) ==
  /\ q \in Seq(Elements(t)) /\ NULL \notin Elements(t)
  /\ \A i, j \in 1 .. Len(q) : q[i] = q[j] => i = j
  /\ \A x \in Elements(t) : \E i \in 1 .. Len(q) : q[i] = x
  /\ t.first = IF Len(q) = 0 THEN NULL ELSE q[1]
  /\ \A i \in 1 .. Len(q) : t.listnext[q[i]] = IF i = Len(q) THEN NULL ELSE q[i + 1]
  /\ \A i \in 1 .. Len(q) : t.listprev[q[i]] = IF i = 1 THEN NULL ELSE q[i - 1]

LEMMA ListIs ==
  ASSUME NEW t, Sound(t), NEW q, q = Listed(t)
  PROVE  ListIn(t, q)
<1>1. q \in Seq(Elements(t)) /\ IsList(t, Len(q), q)
  BY SoundLists
<1>2. NULL \notin Elements(t)
  BY DEF Sound
<1> QED BY <1>1, <1>2 DEF ListIn, IsList, Chained, Members, Head1

\* The elements from the ith on.
From(q, i) == [l \in 1 .. Len(q) + 1 - i |-> q[l + i - 1]]
\* The elements from the ith back to the first.
Back(q, i) == [l \in 1 .. i |-> q[i + 1 - l]]

LEMMA PathFrom ==
  ASSUME NEW next, NEW prev, NEW q, Chained(next, prev, Len(q), q), NULL \notin DOMAIN next,
         DOMAIN prev = DOMAIN next, IsFiniteSet(DOMAIN next), NEW i \in 1 .. Len(q)
  PROVE  Path(next, q[i]) = From(q, i)
<1>1. PICK n : n = Len(q)
  OBVIOUS
<1>2. PICK m : m = n + 1 - i
  OBVIOUS
<1>3. PICK u : u = [l \in 1 .. m |-> q[l + i - 1]]
  OBVIOUS
<1>4. PICK back : back = [prev EXCEPT ![q[i]] = NULL]
  OBVIOUS
<1>5. /\ n \in Nat /\ q \in [1 .. n -> DOMAIN next]
      /\ \A k, j \in 1 .. n : q[k] = q[j] => k = j
      /\ \A k \in 1 .. n : /\ next[q[k]] = IF k = n THEN NULL ELSE q[k + 1]
                           /\ prev[q[k]] = IF k = 1 THEN NULL ELSE q[k - 1]
  BY <1>1 DEF Chained
<1>6. i \in 1 .. n /\ m \in 1 .. n
  BY <1>1, <1>2, <1>5
<1>7. \A l \in 1 .. m : l + i - 1 \in 1 .. n /\ u[l] = q[l + i - 1]
  BY <1>2, <1>3, <1>5, <1>6
<1>8. u \in [1 .. m -> DOMAIN next]
  <2>1. \A l \in 1 .. m : u[l] \in DOMAIN next
    BY <1>5, <1>7
  <2> QED BY <1>3, <2>1
<1>9. \A k, j \in 1 .. m : u[k] = u[j] => k = j
  <2>1. SUFFICES ASSUME NEW k \in 1 .. m, NEW j \in 1 .. m, u[k] = u[j] PROVE k = j
    OBVIOUS
  <2>2. k + i - 1 = j + i - 1
    BY <1>5, <1>7, <2>1
  <2> QED BY <1>6, <2>2
<1>10. \A k \in 1 .. m : next[u[k]] = IF k = m THEN NULL ELSE u[k + 1]
  <2>1. SUFFICES ASSUME NEW k \in 1 .. m PROVE next[u[k]] = IF k = m THEN NULL ELSE u[k + 1]
    OBVIOUS
  <2>2. k + i - 1 \in 1 .. n /\ (k + i - 1 = n <=> k = m)
    BY <1>2, <1>5, <1>6
  <2>3. next[u[k]] = IF k = m THEN NULL ELSE q[(k + i - 1) + 1]
    BY <1>5, <1>7, <2>2
  <2>4. CASE k = m
    BY <2>3, <2>4
  <2>5. CASE k # m
    <3>1. k + 1 \in 1 .. m /\ (k + 1) + i - 1 = (k + i - 1) + 1
      BY <1>6, <2>5
    <3>2. u[k + 1] = q[(k + i - 1) + 1]
      BY <1>7, <3>1
    <3> QED BY <2>3, <2>5, <3>2
  <2> QED BY <2>4, <2>5
<1>11. \A k \in 1 .. m : back[u[k]] = IF k = 1 THEN NULL ELSE u[k - 1]
  <2>1. SUFFICES ASSUME NEW k \in 1 .. m PROVE back[u[k]] = IF k = 1 THEN NULL ELSE u[k - 1]
    OBVIOUS
  <2>2. u[k] \in DOMAIN prev /\ u[1] = q[i] /\ 1 \in 1 .. m
    BY <1>3, <1>6, <1>8
  <2>3. CASE k = 1
    BY <1>4, <2>2, <2>3
  <2>4. CASE k # 1
    <3>1. u[k] # q[i]
      BY <1>9, <2>2, <2>4
    <3>2. back[u[k]] = prev[u[k]]
      BY <1>4, <2>2, <3>1
    <3>3. k + i - 1 \in 1 .. n /\ k + i - 1 # 1 /\ k - 1 \in 1 .. m /\ (k - 1) + i - 1 = (k + i - 1) - 1
      <4>1. k \in Nat /\ k <= m /\ 1 <= k /\ m \in Nat /\ n \in Nat /\ i \in Nat /\ 1 <= i /\ i <= n
        BY <1>5, <1>6
      <4> QED BY <1>2, <2>4, <4>1
    <3>4. prev[u[k]] = q[(k + i - 1) - 1]
      BY <1>5, <1>7, <3>3
    <3>5. u[k - 1] = q[(k + i - 1) - 1]
      BY <1>7, <3>3
    <3> QED BY <2>4, <3>2, <3>4, <3>5
  <2> QED BY <2>3, <2>4
<1>12. Chained(next, back, m, u)
  <2>1. m \in Nat
    BY <1>6
  <2> QED BY <1>8, <1>9, <1>10, <1>11, <2>1 DEF Chained
<1>13. q[i] = Head1(m, u)
  <2>1. m # 0 /\ 1 \in 1 .. m /\ 1 + i - 1 = i
    BY <1>6
  <2> QED BY <1>7, <2>1 DEF Head1
<1>14. Path(next, q[i]) = u
  BY <1>12, <1>13, PathIs
<1> QED BY <1>1, <1>2, <1>3, <1>14 DEF From

\* Both walks that can start at an element of the list, and the empty one.
LEMMA PathsAre ==
  ASSUME NEW t, Sound(t), NEW q, q = Listed(t)
  PROVE  /\ Path(t.listnext, NULL) = <<>> /\ Path(t.listprev, NULL) = <<>>
         /\ \A i \in 1 .. Len(q) : /\ Path(t.listnext, q[i]) = From(q, i)
                                  /\ Path(t.listprev, q[i]) = Back(q, i)
<1>1. /\ NULL \notin DOMAIN t.listnext /\ DOMAIN t.listprev = DOMAIN t.listnext
      /\ Chained(t.listnext, t.listprev, Len(q), q) /\ IsFiniteSet(DOMAIN t.listnext)
      /\ q \in Seq(Elements(t))
  BY SoundLists DEF Sound, Elements, IsList
<1>2. ASSUME NEW next, NULL \notin DOMAIN next, IsFiniteSet(DOMAIN next) PROVE Path(next, NULL) = <<>>
  <2>1. Chained(next, next, 0, <<>>)
    <3>1. <<>> \in [1 .. 0 -> DOMAIN next]
      OBVIOUS
    <3> QED BY <3>1 DEF Chained
  <2>2. NULL = Head1(0, <<>>)
    BY DEF Head1
  <2> QED BY <1>2, <2>1, <2>2, PathIs
<1>3. \A i \in 1 .. Len(q) : Path(t.listnext, q[i]) = From(q, i)
  BY <1>1, PathFrom
<1>4. PICK n : n = Len(q) /\ n \in Nat
  BY <1>1
<1>5. PICK u : u = [l \in 1 .. n |-> q[n + 1 - l]]
  OBVIOUS
<1>6. Chained(t.listprev, t.listnext, n, u)
  BY <1>1, <1>4, <1>5, Backwards
<1>7. Len(u) = n
  BY <1>4, <1>5
<1>8. ASSUME NEW i \in 1 .. n PROVE Path(t.listprev, q[i]) = Back(q, i)
  <2>1. PICK j : j = n + 1 - i
    OBVIOUS
  <2>2. j \in 1 .. n /\ n + 1 - j = i
    BY <1>4, <1>8, <2>1
  <2>3. u[j] = q[i]
    BY <1>5, <2>2
  <2>4. Path(t.listprev, u[j]) = From(u, j)
    BY <1>1, <1>6, <1>7, <2>2, PathFrom
  <2>5. From(u, j) = Back(q, i)
    <3>1. From(u, j) = [l \in 1 .. i |-> u[l + j - 1]]
      BY <1>7, <2>2 DEF From
    <3>2. \A l \in 1 .. i : l + j - 1 \in 1 .. n /\ n + 1 - (l + j - 1) = i + 1 - l
      BY <1>4, <1>8, <2>1
    <3>3. \A l \in 1 .. i : u[l + j - 1] = q[i + 1 - l]
      BY <1>5, <3>2
    <3> QED BY <3>1, <3>3 DEF Back
  <2> QED BY <2>3, <2>4, <2>5
<1> QED BY <1>1, <1>2, <1>3, <1>4, <1>8

\* RTPHashTable in whatever state its functions leave it is whole: the list read
\* forwards and backwards has every element once, and so has the chain of every
\* bucket (rtphashtable.h, rtpkeyhashtable.h).
THEOREM SoundIsWhole ==
  ASSUME NEW t, Sound(t)
  PROVE  Whole(t)
<1> DEFINE q == Listed(t)
           n == Len(q)
           range(x) == {x[i] : i \in DOMAIN x}
<1>1. /\ IsFiniteSet(Elements(t)) /\ q \in Seq(Elements(t)) /\ IsList(t, n, q)
      /\ \A b \in Bucket : Chain(t, b) \in Seq(Elements(t)) /\ IsChain(t, b, Len(Chain(t, b)), Chain(t, b))
  BY SoundLists
<1>2. /\ NULL \notin Elements(t) /\ Elements(t) = DOMAIN t.listnext /\ DOMAIN t.listprev = Elements(t)
  BY DEF Sound, Elements
<1>3. DOMAIN q = 1 .. n
  BY <1>1
<1> HIDE DEF q
<1>4. Reversed(q) = Path(t.listprev, t.last)
  <2> DEFINE u == [i \in 1 .. n |-> q[n + 1 - i]]
  <2>1. Reversed(q) = u
    BY <1>3 DEF Reversed
  <2>2. Chained(t.listnext, t.listprev, n, q) /\ t.last = Tail1(n, q)
    BY <1>1 DEF IsList
  <2>3. Chained(t.listprev, t.listnext, n, u) /\ Head1(n, u) = Tail1(n, q)
    BY <1>2, <2>2, Backwards
  <2> HIDE DEF u
  <2>4. Path(t.listprev, t.last) = u
    BY <1>1, <1>2, <2>2, <2>3, PathIs
  <2> QED BY <2>1, <2>4
<1>5. range(q) = Elements(t) /\ n = Cardinality(Elements(t))
  <2>1. Members(n, q) = Elements(t) /\ Chained(t.listnext, t.listprev, n, q)
    BY <1>1 DEF IsList
  <2>2. n = Cardinality(Elements(t))
    BY <1>2, <2>1, ChainLength
  <2> QED BY <1>3, <2>1, <2>2 DEF Members
<1>6. ASSUME NEW b \in Bucket
      PROVE  /\ range(Chain(t, b)) = {k \in Elements(t) : GetIndex(k) = b}
             /\ \A k \in range(Chain(t, b)) : t.hashprev[k] = NULL <=> t.table[b] = k
             /\ \A i \in DOMAIN Chain(t, b) : i > 1 => t.hashprev[Chain(t, b)[i]] = Chain(t, b)[i - 1]
  <2> DEFINE c == Chain(t, b)
             m == Len(c)
  <2>1. c \in Seq(Elements(t)) /\ IsChain(t, b, m, c)
    BY <1>1
  <2>2. m \in Nat /\ DOMAIN c = 1 .. m /\ \A i \in 1 .. m : c[i] \in Elements(t)
    BY <2>1
  <2> HIDE DEF c, m
  <2>3. /\ Members(m, c) = {k \in Elements(t) : GetIndex(k) = b} /\ t.table[b] = Head1(m, c)
        /\ \A i, j \in 1 .. m : c[i] = c[j] => i = j
        /\ \A i \in 1 .. m : t.hashprev[c[i]] = IF i = 1 THEN NULL ELSE c[i - 1]
    BY <2>1 DEF IsChain, Chained
  <2>4. range(c) = {k \in Elements(t) : GetIndex(k) = b}
    BY <2>2, <2>3 DEF Members
  <2>5. ASSUME NEW i \in 1 .. m PROVE t.hashprev[c[i]] = NULL <=> t.table[b] = c[i]
    <3>1. 1 \in 1 .. m /\ m # 0 /\ (i # 1 => i - 1 \in 1 .. m)
      BY <2>2
    <3>2. t.table[b] = c[1]
      BY <2>3, <3>1 DEF Head1
    <3>3. i # 1 => c[i - 1] # NULL
      BY <1>2, <2>2, <3>1
    <3> QED BY <2>3, <3>1, <3>2, <3>3
  <2>6. \A k \in range(c) : t.hashprev[k] = NULL <=> t.table[b] = k
    BY <2>2, <2>5
  <2>7. \A i \in DOMAIN c : i > 1 => t.hashprev[c[i]] = c[i - 1]
    BY <2>2, <2>3
  <2> QED BY <2>4, <2>6, <2>7 DEF c
<1> QED BY <1>4, <1>5, <1>6 DEF Whole, q

-----------------------------------------------------------------------------
(* Each function leaves a sound table, and what it does to the list. *)

\* The constructor, and Clear.
LEMMA EmptySound ==
  ASSUME NEW x, NEW t, t = [EmptyTable EXCEPT !.cur = x]
  PROVE  Sound(t) /\ Elements(t) = {} /\ Listed(t) = <<>> /\ t.cur = x
<1>1. t = [table |-> [b \in Bucket |-> NULL], first |-> NULL, last |-> NULL, cur |-> x,
           hashprev |-> NoLinks, hashnext |-> NoLinks, listprev |-> NoLinks, listnext |-> NoLinks]
  BY DEF EmptyTable
<1>2. DOMAIN NoLinks = {}
  BY DEF NoLinks
<1>3. t = [f \in Field |-> t[f]]
  BY <1>1 DEF Field
<1>4. /\ t.table = [b \in Bucket |-> NULL] /\ t.first = NULL /\ t.last = NULL /\ t.cur = x
      /\ t.hashprev = NoLinks /\ t.hashnext = NoLinks /\ t.listprev = NoLinks /\ t.listnext = NoLinks
  BY <1>1
<1> HIDE DEF NoLinks
<1> DEFINE none == [i \in 1 .. 0 |-> NULL]
<1>5. Chained(NoLinks, NoLinks, 0, none) /\ Members(0, none) = {} /\ Head1(0, none) = NULL /\ Tail1(0, none) = NULL
  <2>1. 1 .. 0 = {}
    OBVIOUS
  <2>2. none \in [1 .. 0 -> DOMAIN NoLinks]
    BY <2>1
  <2> QED BY <2>1, <2>2 DEF Chained, Members, Head1, Tail1
<1>6. Elements(t) = {}
  BY <1>2, <1>4 DEF Elements
<1> HIDE DEF none
<1>7. IsList(t, 0, none) /\ \A b \in Bucket : IsChain(t, b, 0, none)
  BY <1>4, <1>5, <1>6 DEF IsList, IsChain
<1>8. Sound(t)
  BY <1>2, <1>3, <1>4, <1>6, <1>7 DEF Sound
<1>9. Listed(t) = <<>>
  <2>1. Listed(t) \in Seq(Elements(t))
    BY <1>8, SoundLists
  <2>2. Len(Listed(t)) # 0 => Listed(t)[1] \in Elements(t)
    BY <2>1
  <2> QED BY <1>6, <2>1, <2>2
<1> QED BY <1>4, <1>6, <1>8, <1>9

\* What only moves the cursor.
LEMMA CursorMoves ==
  ASSUME NEW t, Sound(t), NEW x, NEW u, u = [t EXCEPT !.cur = x]
  PROVE  Sound(u) /\ Elements(u) = Elements(t) /\ Listed(u) = Listed(t) /\ u.cur = x
<1>1. t = [f \in Field |-> t[f]]
  BY DEF Sound
<1>2. /\ u = [f \in Field |-> u[f]] /\ u.cur = x
      /\ u.table = t.table /\ u.first = t.first /\ u.last = t.last
      /\ u.hashprev = t.hashprev /\ u.hashnext = t.hashnext
      /\ u.listprev = t.listprev /\ u.listnext = t.listnext
  <2>1. u = [f \in Field |-> IF f = "cur" THEN x ELSE t[f]]
    BY <1>1
  <2> QED BY <2>1 DEF Field
<1>3. Elements(u) = Elements(t) /\ Listed(u) = Listed(t)
  BY <1>2 DEF Elements, Listed
<1>4. /\ \A n, s : IsList(t, n, s) <=> IsList(u, n, s)
      /\ \A b, n, s : IsChain(t, b, n, s) <=> IsChain(u, b, n, s)
  BY <1>2, <1>3 DEF IsList, IsChain
<1> QED BY <1>2, <1>3, <1>4 DEF Sound

LEMMA AddSound ==
  ASSUME NEW t, Sound(t), NEW k, k # NULL, k \notin Elements(t), GetIndex(k) \in Bucket,
         NEW u, u = AddElement(t, k)
  PROVE  /\ Sound(u) /\ Elements(u) = Elements(t) \cup {k}
         /\ Listed(u) = Append(Listed(t), k) /\ u.cur = t.cur
<1> DEFINE D == Elements(t)
           b == GetIndex(k)
           n == Len(Listed(t))
           s == Listed(t)
           m == Len(Chain(t, b))
           c == Chain(t, b)
<1>1. /\ NULL \notin D /\ D = DOMAIN t.listnext /\ DOMAIN t.listprev = D
      /\ DOMAIN t.hashnext = D /\ DOMAIN t.hashprev = D /\ DOMAIN t.table = Bucket
      /\ \A x \in D : GetIndex(x) \in Bucket
  BY DEF Sound, Elements
<1>2. s \in Seq(D) /\ IsList(t, n, s) /\ IsChain(t, b, m, c)
  BY SoundLists
<1>3. n \in Nat /\ \A i \in 1 .. n : s[i] \in D
  BY <1>2
<1>4. /\ Chained(t.listnext, t.listprev, n, s) /\ Members(n, s) = D
      /\ t.first = Head1(n, s) /\ t.last = Tail1(n, s)
  BY <1>2 DEF IsList
<1>5. /\ Chained(t.hashnext, t.hashprev, m, c) /\ t.table[b] = Head1(m, c)
      /\ Members(m, c) = {x \in D : GetIndex(x) = b}
  BY <1>2 DEF IsChain
<1>6. ~HasElement(t, k)
  BY SearchIs
<1>7. u = [table |-> [t.table EXCEPT ![b] = k],
           first |-> IF t.first = NULL THEN k ELSE t.first,
           last |-> k, cur |-> t.cur,
           hashnext |-> Extended(t.hashnext, k, t.table[b]),
           hashprev |-> Extended(Linked(t.hashprev, t.table[b], k), k, NULL),
           listnext |-> Extended(Linked(t.listnext, t.last, k), k, NULL),
           listprev |-> Extended(t.listprev, k, t.last)]
  BY <1>6 DEF AddElement
<1>8. u = [f \in Field |-> u[f]]
  BY <1>7 DEF Field
<1>9. /\ u.table = [t.table EXCEPT ![b] = k]
      /\ u.first = (IF t.first = NULL THEN k ELSE t.first) /\ u.last = k /\ u.cur = t.cur
      /\ u.hashnext = Extended(t.hashnext, k, t.table[b])
      /\ u.hashprev = Extended(Linked(t.hashprev, t.table[b], k), k, NULL)
      /\ u.listnext = Extended(Linked(t.listnext, t.last, k), k, NULL)
      /\ u.listprev = Extended(t.listprev, k, t.last)
  BY <1>7
<1> HIDE DEF n, s, m, c, b, D
<1> DEFINE l == n + 1
           w == [i \in 1 .. l |-> IF i <= n THEN s[i] ELSE k]
           o == m + 1
           d == [i \in 1 .. o |-> IF i = 1 THEN k ELSE c[i - 1]]
<1>10. /\ Chained(u.listnext, u.listprev, l, w) /\ Members(l, w) = D \cup {k}
       /\ u.first = Head1(l, w) /\ u.last = Tail1(l, w)
  <2>1. k \notin DOMAIN t.listnext /\ NULL \notin DOMAIN t.listnext /\ DOMAIN t.listprev = DOMAIN t.listnext
    BY <1>1 DEF D
  <2>2. /\ u.listnext = Extended(Linked(t.listnext, Tail1(n, s), k), k, NULL)
        /\ u.listprev = Extended(t.listprev, k, Tail1(n, s))
    BY <1>4, <1>9
  <2>3. l = n + 1 /\ w = [i \in 1 .. l |-> IF i <= n THEN s[i] ELSE k]
    OBVIOUS
  <2> HIDE DEF l, w
  <2>4. /\ Chained(u.listnext, u.listprev, l, w) /\ Members(l, w) = Members(n, s) \cup {k}
        /\ Head1(l, w) = (IF n = 0 THEN k ELSE Head1(n, s)) /\ Tail1(l, w) = k
    BY ONLY <1>4, <2>1, <2>2, <2>3, PushBack
  <2>5. t.first = NULL <=> n = 0
    <3>1. n # 0 => s[1] \in D
      BY <1>3
    <3> QED BY <1>1, <1>4, <3>1 DEF Head1
  <2> QED BY <1>4, <1>9, <2>4, <2>5
<1>11. Chained(u.hashnext, u.hashprev, o, d) /\ Members(o, d) = Members(m, c) \cup {k} /\ Head1(o, d) = k
  <2>1. k \notin DOMAIN t.hashnext /\ NULL \notin DOMAIN t.hashnext /\ DOMAIN t.hashprev = DOMAIN t.hashnext
    BY <1>1 DEF D
  <2>2. /\ u.hashnext = Extended(t.hashnext, k, Head1(m, c))
        /\ u.hashprev = Extended(Linked(t.hashprev, Head1(m, c), k), k, NULL)
    <3>1. t.table[b] = Head1(m, c)
      BY <1>5
    <3>2. /\ u.hashnext = Extended(t.hashnext, k, t.table[b])
          /\ u.hashprev = Extended(Linked(t.hashprev, t.table[b], k), k, NULL)
      BY ONLY <1>9, Zenon
    <3> QED BY ONLY <3>1, <3>2, Zenon
  <2>3. o = m + 1 /\ d = [i \in 1 .. o |-> IF i = 1 THEN k ELSE c[i - 1]]
    OBVIOUS
  <2> HIDE DEF o, d
  <2> QED BY ONLY <1>5, <2>1, <2>2, <2>3, PushFront
<1>12. /\ Elements(u) = D \cup {k} /\ DOMAIN u.listnext = D \cup {k} /\ DOMAIN u.listprev = D \cup {k}
       /\ DOMAIN u.hashnext = D \cup {k} /\ DOMAIN u.hashprev = D \cup {k}
       /\ DOMAIN u.table = Bucket
       /\ \A x \in Bucket : u.table[x] = IF x = b THEN k ELSE t.table[x]
  <2>1. \A next, p, q : DOMAIN Linked(next, p, q) = DOMAIN next
    BY DEF Linked
  <2>2. \A next, q : DOMAIN Extended(next, k, q) = DOMAIN next \cup {k}
    BY DEF Extended
  <2>3. b \in Bucket
    BY DEF b
  <2>4. /\ DOMAIN u.listnext = D \cup {k} /\ DOMAIN u.listprev = D \cup {k}
        /\ DOMAIN u.hashnext = D \cup {k} /\ DOMAIN u.hashprev = D \cup {k}
    <3>1. /\ DOMAIN Linked(t.listnext, t.last, k) = D /\ DOMAIN Linked(t.hashprev, t.table[b], k) = D
      BY <1>1, <2>1
    <3>2. DOMAIN u.listnext = DOMAIN Linked(t.listnext, t.last, k) \cup {k}
      BY <1>9, <2>2
    <3>3. DOMAIN u.hashprev = DOMAIN Linked(t.hashprev, t.table[b], k) \cup {k}
      BY <1>9, <2>2
    <3>4. DOMAIN u.listprev = D \cup {k} /\ DOMAIN u.hashnext = D \cup {k}
      <4>1. DOMAIN u.listprev = DOMAIN t.listprev \cup {k}
        <5>1. u.listprev = Extended(t.listprev, k, t.last)
          BY ONLY <1>9, Zenon
        <5> QED BY ONLY <5>1, <2>2, Zenon
      <4>2. DOMAIN u.hashnext = DOMAIN t.hashnext \cup {k}
        <5>1. u.hashnext = Extended(t.hashnext, k, t.table[b])
          BY ONLY <1>9, Zenon
        <5> QED BY ONLY <5>1, <2>2, Zenon
      <4> QED BY <1>1, <4>1, <4>2
    <3> QED BY <3>1, <3>2, <3>3, <3>4
  <2>5. DOMAIN u.table = Bucket /\ \A x \in Bucket : u.table[x] = IF x = b THEN k ELSE t.table[x]
    BY <1>1, <1>9, <2>3
  <2> QED BY <2>4, <2>5 DEF Elements
<1>13. IsList(u, l, w)
  BY <1>10, <1>12 DEF IsList
<1>14. ASSUME NEW x \in Bucket PROVE \E p, q : IsChain(u, x, p, q)
  <2>1. CASE x = b
    <3>1. Members(o, d) = {y \in D \cup {k} : GetIndex(y) = b}
      BY <1>5, <1>11 DEF b
    <3>2. u.table[b] = k
      BY <1>12, <2>1
    <3> HIDE DEF o, d
    <3> QED BY <1>11, <1>12, <2>1, <3>1, <3>2 DEF IsChain
  <2>2. CASE x # b
    <3>1. PICK p, q : IsChain(t, x, p, q)
      BY DEF Sound
    <3>2. /\ Chained(t.hashnext, t.hashprev, p, q) /\ t.table[x] = Head1(p, q)
          /\ Members(p, q) = {y \in D : GetIndex(y) = x}
      BY <3>1 DEF IsChain, D
    <3>3. Head1(m, c) = NULL \/ Head1(m, c) \in Members(m, c)
      <4>1. m \in Nat
        BY <1>5 DEF Chained
      <4>2. m # 0 => 1 \in 1 .. m
        BY <4>1
      <4> QED BY <4>2 DEF Head1, Members
    <3>4. ASSUME NEW y \in Members(p, q)
          PROVE  y \in DOMAIN u.hashnext /\ u.hashnext[y] = t.hashnext[y] /\ u.hashprev[y] = t.hashprev[y]
      <4>1. y \in D /\ GetIndex(y) = x /\ y # k /\ y # t.table[b]
        BY <1>1, <1>5, <2>2, <3>2, <3>3, <3>4 DEF D
      <4>2. t.table[b] \in DOMAIN t.hashprev \/ t.table[b] = NULL
        BY <1>1, <1>5, <3>3
      <4>3. /\ DOMAIN Linked(t.hashprev, t.table[b], k) = D
            /\ Linked(t.hashprev, t.table[b], k)[y] = t.hashprev[y]
        <5>1. NULL \notin DOMAIN t.hashprev /\ y \in DOMAIN t.hashprev
          BY <1>1, <4>1
        <5>2. /\ DOMAIN Linked(t.hashprev, t.table[b], k) = DOMAIN t.hashprev
              /\ \A z \in DOMAIN t.hashprev : Linked(t.hashprev, t.table[b], k)[z]
                                              = IF z = t.table[b] THEN k ELSE t.hashprev[z]
          BY <4>2, <5>1, LinkedIs
        <5> QED BY <1>1, <4>1, <5>1, <5>2
      <4>4. u.hashprev[y] = t.hashprev[y]
        BY <1>9, <4>1, <4>3 DEF Extended
      <4>5. u.hashnext[y] = t.hashnext[y]
        BY <1>1, <1>9, <4>1 DEF Extended
      <4> QED BY <1>12, <4>1, <4>4, <4>5
    <3>5. Chained(u.hashnext, u.hashprev, p, q)
      BY <3>2, <3>4, ChainUntouched
    <3>6. Members(p, q) = {y \in D \cup {k} : GetIndex(y) = x}
      BY <2>2, <3>2 DEF b
    <3>7. IsChain(u, x, p, q)
      BY <1>12, <2>2, <3>2, <3>5, <3>6 DEF IsChain
    <3> QED BY <3>7
  <2> QED BY <2>1, <2>2
<1>15. Sound(u)
  <2>1. NULL \notin D \cup {k} /\ \A x \in D \cup {k} : GetIndex(x) \in Bucket
    BY <1>1
  <2>2. \E p, q : IsList(u, p, q)
    BY <1>13
  <2> QED BY <1>8, <1>12, <1>14, <2>1, <2>2 DEF Sound
<1>16. Listed(u) = w
  <2>1. IsFiniteSet(DOMAIN u.listnext) /\ NULL \notin DOMAIN u.listnext
    BY <1>15, SoundLists DEF Sound, Elements
  <2> HIDE DEF w, l
  <2> QED BY <1>10, <2>1, PathIs DEF Listed
<1>17. w = Append(s, k)
  <2>1. s \in Seq(D \cup {k}) /\ Len(s) = n /\ k \in D \cup {k}
    BY <1>2 DEF n, s
  <2> DEFINE a == Append(s, k)
  <2>2. a \in Seq(D \cup {k}) /\ Len(a) = n + 1 /\ (\A i \in 1 .. n : a[i] = s[i]) /\ a[n + 1] = k
    <3> DEFINE S == D \cup {k}
    <3>1. s \in Seq(S) /\ k \in S
      BY <2>1
    <3> HIDE DEF S
    <3> QED BY <2>1, <3>1, AppendProperties DEF S
  <2>3. \A i \in 1 .. l : (i \in 1 .. n \/ i = n + 1) /\ w[i] = IF i <= n THEN s[i] ELSE k
    BY <1>3
  <2>4. l \in Nat /\ l = n + 1
    BY <1>3
  <2>5. w \in Seq(D \cup {k}) /\ Len(w) = l
    <3>1. w \in [1 .. l -> D \cup {k}]
      BY <1>3, <2>3
    <3> HIDE DEF w, l
    <3> QED BY <2>4, <3>1
  <2>6. \A i \in 1 .. l : a[i] = w[i]
    <3> HIDE DEF a, w, l
    <3> QED BY <1>3, <2>2, <2>3, <2>4
  <2> HIDE DEF a, w, l
  <2>7. a = w
    BY <2>2, <2>4, <2>5, <2>6, SeqEqual
  <2> QED BY <2>7 DEF a
<1> QED BY <1>9, <1>12, <1>15, <1>16, <1>17 DEF s, D

LEMMA DeleteSound ==
  ASSUME NEW t, Sound(t), t.cur \in Elements(t), NEW u, u = DeleteCurrentElement(t)
  PROVE  /\ Sound(u) /\ Elements(u) = Elements(t) \ {t.cur} /\ u.cur = t.listnext[t.cur]
         /\ \E j \in 1 .. Len(Listed(t)) :
              /\ Listed(t)[j] = t.cur
              /\ Listed(u) = Without(Len(Listed(t)), Listed(t), j)
<1> DEFINE D == Elements(t)
           e == t.cur
           b == GetIndex(e)
           n == Len(Listed(t))
           s == Listed(t)
           m == Len(Chain(t, b))
           c == Chain(t, b)
<1>1. /\ NULL \notin D /\ D = DOMAIN t.listnext /\ DOMAIN t.listprev = D
      /\ DOMAIN t.hashnext = D /\ DOMAIN t.hashprev = D /\ DOMAIN t.table = Bucket
      /\ \A x \in D : GetIndex(x) \in Bucket
  BY DEF Sound, Elements
<1>2. s \in Seq(D) /\ IsList(t, n, s) /\ b \in Bucket /\ IsChain(t, b, m, c)
  BY <1>1, SoundLists
<1>3. /\ Chained(t.listnext, t.listprev, n, s) /\ Members(n, s) = D
      /\ t.first = Head1(n, s) /\ t.last = Tail1(n, s)
  BY <1>2 DEF IsList
<1>4. /\ Chained(t.hashnext, t.hashprev, m, c) /\ t.table[b] = Head1(m, c)
      /\ Members(m, c) = {x \in D : GetIndex(x) = b}
  BY <1>2 DEF IsChain
<1>5. e \in D /\ e # NULL
  BY <1>1
<1>6. /\ u = [f \in Field |-> u[f]]
      /\ u.table = (IF t.hashprev[e] = NULL THEN [t.table EXCEPT ![b] = t.hashnext[e]] ELSE t.table)
      /\ u.first = (IF t.listprev[e] = NULL THEN t.listnext[e] ELSE t.first)
      /\ u.last = (IF t.listnext[e] = NULL THEN t.listprev[e] ELSE t.last)
      /\ u.cur = t.listnext[e]
      /\ u.hashnext = Reduced(Linked(t.hashnext, t.hashprev[e], t.hashnext[e]), e)
      /\ u.hashprev = Reduced(Linked(t.hashprev, t.hashnext[e], t.hashprev[e]), e)
      /\ u.listnext = Reduced(Linked(t.listnext, t.listprev[e], t.listnext[e]), e)
      /\ u.listprev = Reduced(Linked(t.listprev, t.listnext[e], t.listprev[e]), e)
  <2> DEFINE v == [table |-> IF t.hashprev[e] = NULL THEN [t.table EXCEPT ![b] = t.hashnext[e]] ELSE t.table,
                   first |-> IF t.listprev[e] = NULL THEN t.listnext[e] ELSE t.first,
                   last |-> IF t.listnext[e] = NULL THEN t.listprev[e] ELSE t.last,
                   cur |-> t.listnext[e],
                   hashnext |-> Reduced(Linked(t.hashnext, t.hashprev[e], t.hashnext[e]), e),
                   hashprev |-> Reduced(Linked(t.hashprev, t.hashnext[e], t.hashprev[e]), e),
                   listnext |-> Reduced(Linked(t.listnext, t.listprev[e], t.listnext[e]), e),
                   listprev |-> Reduced(Linked(t.listprev, t.listnext[e], t.listprev[e]), e)]
  <2>1. u = v
    BY <1>5 DEF DeleteCurrentElement
  <2>2. v = [f \in Field |-> v[f]]
    BY DEF Field
  <2>3. /\ v.table = (IF t.hashprev[e] = NULL THEN [t.table EXCEPT ![b] = t.hashnext[e]] ELSE t.table)
        /\ v.first = (IF t.listprev[e] = NULL THEN t.listnext[e] ELSE t.first)
        /\ v.last = (IF t.listnext[e] = NULL THEN t.listprev[e] ELSE t.last)
        /\ v.cur = t.listnext[e]
    OBVIOUS
  <2>4. /\ v.hashnext = Reduced(Linked(t.hashnext, t.hashprev[e], t.hashnext[e]), e)
        /\ v.hashprev = Reduced(Linked(t.hashprev, t.hashnext[e], t.hashprev[e]), e)
        /\ v.listnext = Reduced(Linked(t.listnext, t.listprev[e], t.listnext[e]), e)
        /\ v.listprev = Reduced(Linked(t.listprev, t.listnext[e], t.listprev[e]), e)
    OBVIOUS
  <2> HIDE DEF v
  <2> QED BY ONLY <2>1, <2>2, <2>3, <2>4
<1> HIDE DEF n, s, m, c, D
<1>7. PICK j \in 1 .. n : s[j] = e
  BY <1>3, <1>5 DEF Members
<1>8. PICK h \in 1 .. m : c[h] = e
  <2>1. e \in Members(m, c)
    BY <1>4, <1>5
  <2> QED BY <2>1 DEF Members
<1> HIDE DEF b, e
<1> DEFINE l == n - 1
           w == Without(n, s, j)
           o == m - 1
           d == Without(m, c, h)
<1>9. /\ Chained(u.listnext, u.listprev, l, w) /\ Members(l, w) = D \ {e}
      /\ DOMAIN u.listnext = D \ {e} /\ DOMAIN u.listprev = D \ {e}
      /\ u.first = Head1(l, w) /\ u.last = Tail1(l, w)
  <2>1. NULL \notin DOMAIN t.listnext /\ DOMAIN t.listprev = DOMAIN t.listnext
    BY <1>1 DEF D
  <2>2. l = n - 1 /\ w = Without(n, s, j) /\ e = s[j] /\ j \in 1 .. n
    BY <1>7
  <2> HIDE DEF l, w
  <2>3. Unlinked(t.listnext, t.listprev, n, s, e, u.listnext, u.listprev, l, w)
    <3>1. /\ u.listnext = Reduced(Linked(t.listnext, t.listprev[e], t.listnext[e]), e)
          /\ u.listprev = Reduced(Linked(t.listprev, t.listnext[e], t.listprev[e]), e)
      BY <1>6
    <3>2. Chained(t.listnext, t.listprev, n, s)
      BY <1>3
    <3> QED BY ONLY <2>1, <2>2, <3>1, <3>2, Unlink
  <2> QED BY <1>1, <1>3, <1>6, <2>3 DEF Unlinked
<1>10. /\ Chained(u.hashnext, u.hashprev, o, d) /\ Members(o, d) = Members(m, c) \ {e}
       /\ DOMAIN u.hashnext = D \ {e} /\ DOMAIN u.hashprev = D \ {e}
       /\ \A x \in D \ Members(m, c) : u.hashnext[x] = t.hashnext[x] /\ u.hashprev[x] = t.hashprev[x]
       /\ Head1(o, d) = (IF t.hashprev[e] = NULL THEN t.hashnext[e] ELSE Head1(m, c))
  <2>1. NULL \notin DOMAIN t.hashnext /\ DOMAIN t.hashprev = DOMAIN t.hashnext
    BY <1>1
  <2>2. o = m - 1 /\ d = Without(m, c, h) /\ e = c[h] /\ h \in 1 .. m
    BY <1>8
  <2> HIDE DEF o, d
  <2>3. Unlinked(t.hashnext, t.hashprev, m, c, e, u.hashnext, u.hashprev, o, d)
    <3>1. /\ u.hashnext = Reduced(Linked(t.hashnext, t.hashprev[e], t.hashnext[e]), e)
          /\ u.hashprev = Reduced(Linked(t.hashprev, t.hashnext[e], t.hashprev[e]), e)
      BY <1>6
    <3>2. Chained(t.hashnext, t.hashprev, m, c)
      BY <1>4
    <3> QED BY ONLY <2>1, <2>2, <3>1, <3>2, Unlink
  <2> QED BY <1>1, <2>3 DEF Unlinked
<1> HIDE DEF l, w, o, d
<1>11. Elements(u) = D \ {e}
  BY <1>9 DEF Elements
<1>12. DOMAIN u.table = Bucket /\ \A x \in Bucket : u.table[x] = IF x = b THEN Head1(o, d) ELSE t.table[x]
  BY <1>1, <1>2, <1>4, <1>6, <1>10
<1>13. IsList(u, l, w)
  BY <1>9, <1>11 DEF IsList
<1>14. ASSUME NEW x \in Bucket PROVE \E p, q : IsChain(u, x, p, q)
  <2>1. CASE x = b
    <3>1. Members(o, d) = {y \in D \ {e} : GetIndex(y) = b}
      BY <1>4, <1>10
    <3> QED BY <1>10, <1>11, <1>12, <2>1, <3>1 DEF IsChain
  <2>2. CASE x # b
    <3>1. PICK p, q : IsChain(t, x, p, q)
      BY DEF Sound
    <3>2. /\ Chained(t.hashnext, t.hashprev, p, q) /\ t.table[x] = Head1(p, q)
          /\ Members(p, q) = {y \in D : GetIndex(y) = x}
      BY <3>1 DEF IsChain, D
    <3>3. \A y \in Members(p, q) : /\ y \in D \ Members(m, c) /\ y # e
      <4>1. e \in Members(m, c)
        BY <1>8 DEF Members
      <4> QED BY <1>4, <2>2, <3>2, <4>1
    <3>4. Chained(u.hashnext, u.hashprev, p, q)
      <4>1. \A y \in Members(p, q) :
              y \in DOMAIN u.hashnext /\ u.hashnext[y] = t.hashnext[y] /\ u.hashprev[y] = t.hashprev[y]
        BY <1>10, <3>3
      <4> QED BY <3>2, <4>1, ChainUntouched
    <3>5. Members(p, q) = {y \in D \ {e} : GetIndex(y) = x}
      BY <3>2, <3>3
    <3>6. IsChain(u, x, p, q)
      BY <1>11, <1>12, <2>2, <3>2, <3>4, <3>5 DEF IsChain
    <3> QED BY <3>6
  <2> QED BY <2>1, <2>2
<1>15. Sound(u)
  <2>1. NULL \notin D \ {e} /\ \A x \in D \ {e} : GetIndex(x) \in Bucket
    BY <1>1
  <2>2. \E p, q : IsList(u, p, q)
    BY <1>13
  <2> QED BY <1>6, <1>9, <1>10, <1>11, <1>12, <1>14, <2>1, <2>2 DEF Sound
<1>16. Listed(u) = w
  <2>1. IsFiniteSet(DOMAIN u.listnext) /\ NULL \notin DOMAIN u.listnext
    BY <1>15, SoundLists DEF Sound, Elements
  <2> QED BY <1>9, <2>1, PathIs DEF Listed
<1>17. /\ j \in 1 .. Len(Listed(t)) /\ Listed(t)[j] = t.cur
       /\ Listed(u) = Without(Len(Listed(t)), Listed(t), j)
  BY <1>7, <1>16 DEF e, n, s, l, w
<1>18. Elements(u) = Elements(t) \ {t.cur} /\ u.cur = t.listnext[t.cur]
  BY <1>6, <1>11 DEF D, e
<1> QED BY <1>15, <1>17, <1>18

=============================================================================
