-------------------------- MODULE QueueOrderProofs --------------------------
(***************************************************************************)
(* Lemmas about the queue operators of QueueOrder: what dropping, taking,  *)
(* appending and putting back do to the items of a queue.                  *)
(***************************************************************************)
EXTENDS QueueOrder, Integers, TLAPS, SequenceTheorems, WellFoundedInduction

\* No item is in the queue twice.
Distinct(q) == \A m, n \in DOMAIN q : q[m] = q[n] => m = n

-----------------------------------------------------------------------------
(* Least elements, in place of induction.                                  *)

LEMMA LeastNat ==
  ASSUME NEW T, T \subseteq Nat, T # {}
  PROVE  \E m \in T : \A n \in T : m <= n
<1>1. PICK x \in T : \A y \in T : ~ (<<y, x>> \in OpToRel(<, Nat))
  BY WFMin, NatLessThanWellFounded
<1>2. \A y \in T : ~ (y < x)
  BY <1>1 DEF OpToRel
<1> QED BY <1>2

-----------------------------------------------------------------------------
(* Without: the recursive function exists, and what it computes.           *)

\* f computes Without on the first k items of q.
Sieves(q, dropped, k, f) ==
  f = [n \in 0..k |-> IF n = 0 THEN <<>>
                      ELSE IF q[n] \in dropped THEN f[n - 1]
                      ELSE Append(f[n - 1], q[n])]

LEMMA SieveExists ==
  ASSUME NEW q, NEW dropped
  PROVE  \A k \in Nat : \E f : Sieves(q, dropped, k, f)
<1> DEFINE Bad == {k \in Nat : ~ \E f : Sieves(q, dropped, k, f)}
<1> SUFFICES ASSUME Bad # {} PROVE FALSE
  OBVIOUS
<1>1. PICK m \in Bad : \A n \in Bad : m <= n
  BY LeastNat
<1>2. m \in Nat /\ ~ \E f : Sieves(q, dropped, m, f)
  OBVIOUS
<1>3. m # 0
  <2>1. Sieves(q, dropped, 0, [n \in 0..0 |-> <<>>])
    BY DEF Sieves
  <2> QED BY <2>1, <1>2
<1>4. PICK f : Sieves(q, dropped, m - 1, f)
  BY <1>1, <1>2, <1>3
<1> HIDE DEF Bad
<1> DEFINE g == [n \in 0..m |->
                   IF n < m THEN f[n]
                   ELSE IF q[n] \in dropped THEN f[n - 1]
                   ELSE Append(f[n - 1], q[n])]
<1>5. \A n \in 0..m : g[n] = IF n = 0 THEN <<>>
                             ELSE IF q[n] \in dropped THEN g[n - 1]
                             ELSE Append(g[n - 1], q[n])
  <2>1. \A n \in 0..(m - 1) : f[n] = IF n = 0 THEN <<>>
                                     ELSE IF q[n] \in dropped THEN f[n - 1]
                                     ELSE Append(f[n - 1], q[n])
    BY <1>4, <1>2, <1>3 DEF Sieves
  <2>2. \A n \in 0..(m - 1) : g[n] = f[n]
    BY <1>2
  <2> TAKE n \in 0..m
  <2>3. CASE n = m
    BY <2>3, <2>2, <1>2, <1>3
  <2>4. CASE n < m /\ n # 0
    BY <2>4, <2>1, <2>2, <1>2
  <2>5. CASE n = 0
    BY <2>5, <2>1, <2>2, <1>2, <1>3
  <2> QED BY <2>3, <2>4, <2>5, <1>2
<1>6. g = [n \in 0..m |-> g[n]]
  OBVIOUS
<1> HIDE DEF g
<1>7. Sieves(q, dropped, m, g)
  BY <1>5, <1>6 DEF Sieves
<1> QED BY <1>7, <1>2

LEMMA WithoutSieves ==
  ASSUME NEW q, NEW dropped, Len(q) \in Nat
  PROVE  \E f : /\ Sieves(q, dropped, Len(q), f)
                /\ Without(q, dropped) = f[Len(q)]
<1> DEFINE f == CHOOSE f : Sieves(q, dropped, Len(q), f)
<1>1. Sieves(q, dropped, Len(q), f)
  BY SieveExists
<1>2. Without(q, dropped) = f[Len(q)]
  BY Zenon DEF Without, Sieves
<1> QED BY <1>1, <1>2

\* What a sieve holds after n items: those of the first n not dropped, each
\* once when the queue has each once.
Sieved(S, q, dropped, n, r) ==
  /\ r \in Seq(S)
  /\ Queued(r) = {q[m] : m \in 1..n} \ dropped
  /\ Distinct(q) => Distinct(r)

LEMMA QueuedAppend ==
  ASSUME NEW S, NEW q \in Seq(S), NEW i \in S
  PROVE  /\ Append(q, i) \in Seq(S)
         /\ Queued(Append(q, i)) = Queued(q) \cup {i}
         /\ Distinct(q) /\ i \notin Queued(q) => Distinct(Append(q, i))
<1>1. /\ Append(q, i) \in Seq(S)
      /\ Len(Append(q, i)) = Len(q) + 1
      /\ \A n \in 1..Len(q) : Append(q, i)[n] = q[n]
      /\ Append(q, i)[Len(q) + 1] = i
      /\ Len(q) \in Nat
      /\ DOMAIN q = 1..Len(q)
      /\ DOMAIN Append(q, i) = 1..(Len(q) + 1)
  BY AppendProperties, LenProperties
<1> DEFINE r == Append(q, i)
<1> HIDE DEF r
<1>2. Queued(r) = Queued(q) \cup {i}
  BY <1>1 DEF r, Queued
<1>3. Distinct(q) /\ i \notin Queued(q) => Distinct(r)
  BY <1>1 DEF r, Queued, Distinct
<1> QED BY <1>1, <1>2, <1>3 DEF r

\* discard_items keeps the queue's items but those dropped, and doubles none.
LEMMA WithoutProperties ==
  ASSUME NEW S, NEW q \in Seq(S), NEW dropped
  PROVE  /\ Without(q, dropped) \in Seq(S)
         /\ Queued(Without(q, dropped)) = Queued(q) \ dropped
         /\ Distinct(q) => Distinct(Without(q, dropped))
<1>1. Len(q) \in Nat /\ DOMAIN q = 1..Len(q) /\ \A n \in 1..Len(q) : q[n] \in S
  BY LenProperties, ElementOfSeq
<1>2. PICK f : Sieves(q, dropped, Len(q), f) /\ Without(q, dropped) = f[Len(q)]
  BY <1>1, WithoutSieves
<1>3. \A n \in 0..Len(q) : f[n] = IF n = 0 THEN <<>>
                                  ELSE IF q[n] \in dropped THEN f[n - 1]
                                  ELSE Append(f[n - 1], q[n])
  BY <1>2, <1>1 DEF Sieves
<1> DEFINE Bad == {n \in 0..Len(q) : ~ Sieved(S, q, dropped, n, f[n])}
<1>4. ASSUME Bad # {} PROVE FALSE
  <2> Bad \subseteq Nat
    BY <1>1
  <2>1. PICK m \in Bad : \A n \in Bad : m <= n
    BY <1>4, LeastNat
  <2>2. m \in 0..Len(q) /\ ~ Sieved(S, q, dropped, m, f[m])
    OBVIOUS
  <2>3. m # 0
    <3>1. Sieved(S, q, dropped, 0, <<>>)
      BY EmptySeq DEF Sieved, Queued, Distinct
    <3> QED BY <3>1, <2>2, <1>3, <1>1
  <2>4. Sieved(S, q, dropped, m - 1, f[m - 1])
    BY <2>1, <2>2, <2>3, <1>1
  <2> HIDE DEF Bad
  <2> DEFINE r == f[m - 1]
  <2>5. q[m] \in S /\ m - 1 \in Nat /\ m \in 1..Len(q)
    BY <2>2, <2>3, <1>1
  <2>6. r \in Seq(S) /\ Queued(r) = {q[n] : n \in 1..(m - 1)} \ dropped
        /\ (Distinct(q) => Distinct(r))
    BY <2>4 DEF Sieved
  <2>7. {q[n] : n \in 1..m} = {q[n] : n \in 1..(m - 1)} \cup {q[m]}
    BY <2>5
  <2>8. f[m] = IF q[m] \in dropped THEN r ELSE Append(r, q[m])
    BY <1>3, <2>2, <2>3
  <2> HIDE DEF r
  <2>9. CASE q[m] \in dropped
    <3>1. Queued(r) = {q[n] : n \in 1..m} \ dropped
      BY <2>6, <2>7, <2>9
    <3> QED BY <3>1, <2>6, <2>8, <2>9, <2>2 DEF Sieved
  <2>10. CASE q[m] \notin dropped
    <3>1. Distinct(q) => q[m] \notin Queued(r)
      BY <2>5, <2>6, <1>1 DEF Distinct
    <3>2. /\ Append(r, q[m]) \in Seq(S)
          /\ Queued(Append(r, q[m])) = Queued(r) \cup {q[m]}
          /\ Distinct(q) => Distinct(Append(r, q[m]))
      BY <3>1, <2>5, <2>6, QueuedAppend
    <3>3. Queued(Append(r, q[m])) = {q[n] : n \in 1..m} \ dropped
      BY <3>2, <2>6, <2>7, <2>10
    <3> QED BY <3>2, <3>3, <2>8, <2>10, <2>2 DEF Sieved
  <2> QED BY <2>9, <2>10
<1>5. Sieved(S, q, dropped, Len(q), f[Len(q)])
  BY <1>4, <1>1
<1>6. Queued(q) = {q[n] : n \in 1..Len(q)}
  BY <1>1 DEF Queued
<1> QED BY <1>5, <1>6, <1>2 DEF Sieved

\* claim_item takes one item out.
LEMMA RemoveAtIndexes ==
  ASSUME NEW S, NEW q \in Seq(S), NEW n \in DOMAIN q
  PROVE  /\ RemoveAt(q, n) \in Seq(S) /\ Len(RemoveAt(q, n)) = Len(q) - 1
         /\ \A i \in 1..(Len(q) - 1) :
              RemoveAt(q, n)[i] = IF i < n THEN q[i] ELSE q[i + 1]
<1>1. Len(q) \in Nat /\ DOMAIN q = 1..Len(q) /\ \A m \in 1..Len(q) : q[m] \in S
  BY LenProperties, ElementOfSeq
<1> DEFINE a == SubSeq(q, 1, n - 1)
           b == SubSeq(q, n + 1, Len(q))
<1>2. /\ a \in Seq(S) /\ Len(a) = n - 1
      /\ \A i \in 1..(n - 1) : a[i] = q[i]
  BY <1>1, SubSeqProperties, n - 1 \in Int, 1 \in Int
<1>3. /\ b \in Seq(S) /\ Len(b) = Len(q) - n
      /\ \A i \in 1..(Len(q) - n) : b[i] = q[n + i]
  <2>1. \A i \in (n + 1)..Len(q) : q[i] \in S
    BY <1>1
  <2>2. /\ b \in Seq(S)
        /\ Len(b) = IF n + 1 <= Len(q) THEN Len(q) - (n + 1) + 1 ELSE 0
        /\ \A i \in 1..(Len(q) - (n + 1) + 1) : b[i] = q[(n + 1) + i - 1]
    BY <1>1, <2>1, SubSeqProperties, n + 1 \in Int, Len(q) \in Int
  <2> QED BY <2>2, <1>1
<1> HIDE DEF a, b
<1> DEFINE r == a \o b
<1>4. /\ r \in Seq(S) /\ Len(r) = Len(q) - 1
      /\ \A i \in 1..(Len(q) - 1) : r[i] = IF i < n THEN q[i] ELSE q[i + 1]
  <2>1. /\ r \in Seq(S) /\ Len(r) = Len(a) + Len(b)
        /\ \A i \in 1..(Len(a) + Len(b)) :
             r[i] = IF i <= Len(a) THEN a[i] ELSE b[i - Len(a)]
    BY <1>2, <1>3, ConcatProperties
  <2>2. Len(a) + Len(b) = Len(q) - 1
    BY <1>1, <1>2, <1>3
  <2>3. ASSUME NEW i \in 1..(Len(q) - 1)
        PROVE  r[i] = IF i < n THEN q[i] ELSE q[i + 1]
    <3>1. CASE i < n
      BY <3>1, <2>1, <2>2, <1>1, <1>2
    <3>2. CASE i >= n
      <4>1. i \in 1..(Len(a) + Len(b)) /\ ~ (i <= Len(a)) /\ ~ (i < n)
        BY <3>2, <2>2, <1>1, <1>2
      <4>2. r[i] = b[i - Len(a)]
        BY <4>1, <2>1
      <4>3. i - Len(a) \in 1..(Len(q) - n) /\ n + (i - Len(a)) = i + 1
        BY <3>2, <1>1, <1>2
      <4>4. b[i - Len(a)] = q[n + (i - Len(a))]
        BY <4>3, <1>3
      <4> QED BY <4>1, <4>2, <4>3, <4>4
    <3>3. i < n \/ i >= n
      BY <1>1
    <3> QED BY <3>1, <3>2, <3>3
  <2> QED BY <2>1, <2>2, <2>3
<1> QED BY <1>4 DEF RemoveAt, a, b

\* ... and what that means for the items in it.
LEMMA RemoveAtProperties ==
  ASSUME NEW S, NEW q \in Seq(S), NEW n \in DOMAIN q
  PROVE  /\ RemoveAt(q, n) \in Seq(S)
         /\ q[n] \in Queued(q)
         /\ Distinct(q) => /\ Queued(RemoveAt(q, n)) = Queued(q) \ {q[n]}
                           /\ Distinct(RemoveAt(q, n))
<1>1. Len(q) \in Nat /\ DOMAIN q = 1..Len(q) /\ \A m \in 1..Len(q) : q[m] \in S
  BY LenProperties, ElementOfSeq
<1> DEFINE r == RemoveAt(q, n)
<1>2. /\ r \in Seq(S) /\ Len(r) = Len(q) - 1
      /\ \A i \in 1..(Len(q) - 1) : r[i] = IF i < n THEN q[i] ELSE q[i + 1]
  BY RemoveAtIndexes
<1> HIDE DEF r
<1>3. DOMAIN r = 1..(Len(q) - 1)
  BY <1>2, LenProperties
<1>4. ASSUME Distinct(q) PROVE Queued(r) = Queued(q) \ {q[n]}
  <2>1. ASSUME NEW i \in DOMAIN r PROVE r[i] \in Queued(q) \ {q[n]}
    BY <1>1, <1>2, <1>3, <1>4 DEF Queued, Distinct
  <2>2. ASSUME NEW m \in DOMAIN q, q[m] # q[n] PROVE \E i \in DOMAIN r : r[i] = q[m]
    <3>1. CASE m < n
      BY <3>1, <1>1, <1>2, <1>3
    <3>2. CASE m > n
      <4>1. m - 1 \in DOMAIN r /\ r[m - 1] = q[m]
        BY <3>2, <1>1, <1>2, <1>3
      <4> QED BY <4>1
    <3> QED BY <3>1, <3>2, <2>2, <1>1
  <2> QED BY <2>1, <2>2 DEF Queued
<1>5. ASSUME Distinct(q) PROVE Distinct(r)
  <2> SUFFICES ASSUME NEW i \in DOMAIN r, NEW j \in DOMAIN r, r[i] = r[j]
               PROVE  i = j
    BY DEF Distinct
  <2> DEFINE old(k) == IF k < n THEN k ELSE k + 1
  <2>1. /\ old(i) \in DOMAIN q /\ r[i] = q[old(i)]
        /\ old(j) \in DOMAIN q /\ r[j] = q[old(j)]
    BY <1>1, <1>2, <1>3
  <2>2. old(i) = old(j)
    <3> HIDE DEF old
    <3> QED BY <2>1, <1>5 DEF Distinct
  <2> QED BY <2>2, <1>1, <1>3
<1> QED BY <1>2, <1>4, <1>5 DEF r, Queued

\* requeue_if_resuming puts an item back in front.
LEMMA PushFrontProperties ==
  ASSUME NEW S, NEW q \in Seq(S), NEW i \in S
  PROVE  /\ <<i>> \o q \in Seq(S)
         /\ Queued(<<i>> \o q) = Queued(q) \cup {i}
         /\ Distinct(q) /\ i \notin Queued(q) => Distinct(<<i>> \o q)
<1>1. <<i>> \in Seq(S) /\ Len(<<i>>) = 1 /\ <<i>>[1] = i
  OBVIOUS
<1> DEFINE r == <<i>> \o q
<1>2. /\ r \in Seq(S) /\ Len(r) = 1 + Len(q) /\ Len(q) \in Nat
      /\ DOMAIN q = 1..Len(q)
      /\ \A n \in 1..(1 + Len(q)) : r[n] = IF n <= 1 THEN <<i>>[n] ELSE q[n - 1]
  BY <1>1, ConcatProperties, LenProperties
<1> HIDE DEF r
<1>3. DOMAIN r = 1..(1 + Len(q)) /\ r[1] = i
      /\ \A n \in 1..Len(q) : r[n + 1] = q[n]
  BY <1>1, <1>2, LenProperties
<1>4. Queued(r) = Queued(q) \cup {i}
  <2>1. ASSUME NEW n \in DOMAIN r PROVE r[n] \in Queued(q) \cup {i}
    <3>1. CASE n = 1
      BY <3>1, <1>3
    <3>2. CASE n # 1
      <4>1. n - 1 \in DOMAIN q /\ r[n] = q[n - 1]
        BY <3>2, <1>2, <1>3
      <4> QED BY <4>1 DEF Queued
    <3> QED BY <3>1, <3>2
  <2>2. ASSUME NEW n \in DOMAIN q PROVE q[n] \in Queued(r)
    <3>1. n + 1 \in DOMAIN r /\ r[n + 1] = q[n]
      BY <1>2, <1>3
    <3> QED BY <3>1 DEF Queued
  <2>3. i \in Queued(r)
    BY <1>2, <1>3 DEF Queued
  <2> QED BY <2>1, <2>2, <2>3 DEF Queued
<1>5. ASSUME Distinct(q), i \notin Queued(q),
             NEW m \in DOMAIN r, NEW n \in DOMAIN r, r[m] = r[n]
      PROVE  m = n
  <2>1. \A k \in DOMAIN r : k # 1 => /\ k - 1 \in DOMAIN q /\ r[k] = q[k - 1]
                                     /\ r[k] # i
    <3> SUFFICES ASSUME NEW k \in DOMAIN r, k # 1
                 PROVE  k - 1 \in DOMAIN q /\ r[k] = q[k - 1] /\ r[k] # i
      OBVIOUS
    <3>1. k - 1 \in DOMAIN q /\ r[k] = q[k - 1]
      BY <1>2, <1>3
    <3> QED BY <3>1, <1>5 DEF Queued
  <2>2. m = 1 <=> n = 1
    BY <2>1, <1>3, <1>5
  <2>3. CASE m # 1
    <3>1. m - 1 = n - 1
      BY <2>1, <2>2, <2>3, <1>5 DEF Distinct
    <3> QED BY <3>1, <1>2, <1>3
  <2> QED BY <2>2, <2>3
<1>6. Distinct(q) /\ i \notin Queued(q) => Distinct(r)
  BY <1>5 DEF Distinct
<1> QED BY <1>2, <1>4, <1>6 DEF r
=============================================================================
