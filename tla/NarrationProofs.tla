--------------------------- MODULE NarrationProofs ---------------------------
(***************************************************************************)
(* What Narration promises, for any texts cut into any batches and any     *)
(* number of processes: until two of them have been inside at once, or the *)
(* disk has failed one (sound).                                            *)
(*                                                                         *)
(* The argument has three parts.  The text of a message shows its block    *)
(* quotes from the front: whatever chunks have come in, in whatever order, *)
(* Feed selects complete lines of the whole text, the next ones in order   *)
(* (FeedKeeps).  A message that nobody else has taken the file from is     *)
(* told exactly the lines its accumulator has passed, less those consumed  *)
(* while narration of digests was off (Current, SelectKeeps), and its      *)
(* pending lines continue what the engine has enqueued of it (InOrder).    *)
(* Until then a process inside works alone on the file, so that its copy   *)
(* is the file (Inv) and every step is one of these on the file itself     *)
(* (SoundInv).  After it only the types are left (IInv).                   *)
(***************************************************************************)
EXTENDS Narration, TLAPS, FiniteSetTheorems, SequenceTheorems

-----------------------------------------------------------------------------
(* Numbers in increasing order.                                            *)

LEMMA Least ==
  ASSUME NEW T \in SUBSET Nat, T # {}
  PROVE  \E x \in T : \A y \in T : x <= y
<1> DEFINE R == {ss \in Nat \X Nat : ss[1] < ss[2]}
<1>1. IsWellFoundedOn(R, Nat) BY NatLessThanWellFounded DEF OpToRel
<1>2. \A y \in Nat, x \in Nat : y < x => <<y, x>> \in R OBVIOUS
<1> HIDE DEF R
<1>3. PICK x \in T : \A y \in T : ~(<<y, x>> \in R) BY <1>1, WFMin
<1>4. \A y \in T : ~(y < x) BY <1>2, <1>3
<1> QED BY <1>3, <1>4

\* A set of numbers below a bound has a greatest member: the least bound.
LEMMA MaxIs ==
  ASSUME NEW S \in SUBSET Nat, S # {}, NEW b \in Nat, \A x \in S : x <= b
  PROVE  Max(S) \in S /\ \A x \in S : x <= Max(S)
<1> DEFINE B == {x \in Nat : \A y \in S : y <= x}
<1>1. PICK z \in B : \A y \in B : z <= y
  <2>1. b \in B OBVIOUS
  <2> HIDE DEF B
  <2>2. B \in SUBSET Nat BY DEF B
  <2> QED BY <2>1, <2>2, Least
<1>2. z \in S
  <2> SUFFICES ASSUME z \notin S PROVE FALSE OBVIOUS
  <2>1. \A y \in S : y < z BY <1>1
  <2>2. z # 0
    <3>1. PICK y \in S : TRUE OBVIOUS
    <3>2. y \in Nat /\ y < z BY <2>1
    <3> QED BY <3>2
  <2>3. z - 1 \in B BY <1>1, <2>1, <2>2
  <2> HIDE DEF B
  <2>4. z \in Nat BY <1>1 DEF B
  <2> QED BY <1>1, <2>3, <2>4
<1>3. \A x \in S : z >= x BY <1>1
<1> QED BY <1>2, <1>3 DEF Max

LEMMA MinOfTwo ==
  ASSUME NEW a \in Int, NEW b \in Int
  PROVE  /\ Min({a, b}) \in {a, b}
         /\ Min({a, b}) <= a /\ Min({a, b}) <= b
<1>1. \E x \in {a, b} : \A y \in {a, b} : x <= y
  <2>1. CASE a <= b BY <2>1
  <2>2. CASE b <= a BY <2>2
  <2> QED BY <2>1, <2>2
<1> QED BY <1>1 DEF Min

\* An initial segment of the numbers from 1 is as long as it has members.
LEMMA InitialSegment ==
  ASSUME NEW n \in Nat, NEW D \in SUBSET (1..n),
         \A i \in D, j \in 1..n : j <= i => j \in D
  PROVE  Cardinality(D) \in 0..n /\ D = 1..Cardinality(D)
<1>1. CASE D = {}
  <2>1. Cardinality(D) = 0 BY <1>1, FS_EmptySet
  <2> QED BY <1>1, <2>1
<1>2. CASE D # {}
  <2>1. D \in SUBSET Nat /\ \A y \in D : y <= n OBVIOUS
  <2>2. PICK x \in D : \A y \in D : y <= x BY <1>2, <2>1, MaxIs
  <2>3. D = 1..x
    <3>1. x \in 1..n BY <2>2
    <3>2. D \subseteq 1..x BY <2>2, <3>1
    <3>3. 1..x \subseteq D BY <2>2, <3>1
    <3> QED BY <3>2, <3>3
  <2>4. x \in 1..n BY <2>2
  <2>5. Cardinality(1..x) = x BY <2>4, FS_Interval
  <2> QED BY <2>3, <2>4, <2>5
<1> QED BY <1>1, <1>2

\* A list of numbers in increasing order.
Increasing(f, n) ==
  /\ DOMAIN f = 1..n
  /\ \A i \in 1..n : f[i] \in Nat
  /\ \A i, j \in 1..n : i < j => f[i] < f[j]

LEMMA AscendingIs ==
  ASSUME NEW S \in SUBSET Nat, IsFiniteSet(S)
  PROVE  /\ Cardinality(S) \in Nat
         /\ Increasing(Ascending(S), Cardinality(S))
         /\ \A n \in 1..Cardinality(S) : Ascending(S)[n] \in S
         /\ \A x \in S : \E n \in 1..Cardinality(S) : Ascending(S)[n] = x
<1> DEFINE c == Cardinality(S)
           Below(i) == {j \in S : j <= i}
           rank == [i \in S |-> Cardinality(Below(i))]
           f == Ascending(S)
<1>0. \A i \in S : i \in Nat OBVIOUS
<1>1. c \in Nat BY FS_CardinalityType
<1>2. \A i \in S : IsFiniteSet(Below(i)) /\ Cardinality(Below(i)) \in 1..c
  <2> TAKE i \in S
  <2>1. IsFiniteSet(Below(i)) /\ Cardinality(Below(i)) <= c BY FS_Subset
  <2>2. Cardinality(Below(i)) \in Nat BY <2>1, FS_CardinalityType
  <2>3. i \in Below(i) OBVIOUS
  <2>4. Cardinality(Below(i)) # 0 BY <2>1, <2>3, FS_EmptySet
  <2> QED BY <1>1, <2>1, <2>2, <2>4
<1>3. ASSUME NEW i \in S, NEW k \in S, i < k PROVE rank[i] < rank[k]
  <2>1. Below(i) \in SUBSET Below(k)
    <3>1. \A j \in S : j <= i => j <= k BY <1>0, <1>3
    <3> QED BY <3>1
  <2>2. k \in Below(k) /\ k \notin Below(i) BY <1>3
  <2>3. Cardinality(Below(i)) # Cardinality(Below(k)) /\ Cardinality(Below(i)) <= Cardinality(Below(k))
    BY <1>2, <2>1, <2>2, FS_Subset
  <2> QED BY <1>2, <2>3
<1>4. \A n \in 1..c : \E i \in S : rank[i] = n
  <2>1. rank \in [S -> 1..c] BY <1>2
  <2>2. \A i, k \in S : rank[i] = rank[k] => i = k
    <3> SUFFICES ASSUME NEW i \in S, NEW k \in S, rank[i] = rank[k], i # k PROVE FALSE OBVIOUS
    <3>1. rank[i] \in Nat /\ rank[k] \in Nat BY <2>1, <1>1
    <3>2. i < k \/ k < i OBVIOUS
    <3> HIDE DEF rank
    <3> QED BY <1>3, <3>1, <3>2
  <2>3. rank \in Injection(S, 1..c)
    <3> HIDE DEF rank
    <3> QED BY <2>1, <2>2 DEF Injection, IsInjective
  <2>4. IsFiniteSet(1..c) /\ Cardinality(1..c) = c BY <1>1, FS_Interval
  <2>5. rank \in Surjection(S, 1..c)
    <3> HIDE DEF rank
    <3> QED BY <2>3, <2>4, FS_Injection
  <2> HIDE DEF rank
  <2> QED BY <2>5 DEF Surjection
<1>5. \A n \in 1..c : f[n] \in S /\ rank[f[n]] = n
  <2> TAKE n \in 1..c
  <2>1. f[n] = CHOOSE i \in S : Cardinality({j \in S : j <= i}) = n BY DEF Ascending
  <2>2. \E i \in S : Cardinality({j \in S : j <= i}) = n BY <1>4
  <2>3. f[n] \in S /\ Cardinality({j \in S : j <= f[n]}) = n
    BY <2>1, <2>2
  <2> QED BY <2>3
<1>6. DOMAIN f = 1..c BY DEF Ascending
<1> HIDE DEF f
<1>7. \A i, k \in S : rank[i] = rank[k] => i = k
  <2> SUFFICES ASSUME NEW i \in S, NEW k \in S, rank[i] = rank[k], i # k PROVE FALSE OBVIOUS
  <2>1. rank[i] \in Nat /\ rank[k] \in Nat BY <1>1, <1>2
  <2>2. i < k \/ k < i OBVIOUS
  <2> HIDE DEF rank
  <2> QED BY <1>3, <2>1, <2>2
<1>8. \A x \in S : \E n \in 1..c : f[n] = x
  <2> TAKE x \in S
  <2>1. rank[x] \in 1..c BY <1>2
  <2> HIDE DEF rank, c
  <2> QED BY <2>1, <1>5, <1>7
<1>9. \A i, j \in 1..c : i < j => f[i] < f[j]
  <2> SUFFICES ASSUME NEW i \in 1..c, NEW j \in 1..c, i < j, ~(f[i] < f[j]) PROVE FALSE OBVIOUS
  <2>1. f[i] \in Nat /\ f[j] \in Nat /\ i \in Nat /\ j \in Nat
    <3>1. f[i] \in S /\ f[j] \in S BY <1>5
    <3>2. i \in Nat /\ j \in Nat BY <1>1
    <3> QED BY <1>0, <3>1, <3>2
  <2>2. f[j] < f[i] \/ f[i] = f[j] BY <2>1
  <2>3. rank[f[j]] < rank[f[i]] \/ rank[f[i]] = rank[f[j]]
    <3> HIDE DEF rank, c
    <3> QED BY <1>3, <1>5, <2>2
  <2> HIDE DEF rank, c
  <2> QED BY <1>5, <2>1, <2>3
<1>10. \A n \in 1..c : f[n] \in Nat BY <1>5
<1> QED BY <1>1, <1>5, <1>6, <1>8, <1>9, <1>10 DEF f, Increasing

\* Two lists in increasing order, the members of one the smallest of the other:
\* the one begins the other.
SmallestOf(f, a, g, b) ==
  /\ \A i \in 1..a : \E j \in 1..b : f[i] = g[j]
  /\ \A i \in 1..a, j \in 1..b : g[j] < f[i] => \E k \in 1..a : f[k] = g[j]

LEMMA BeginsAlike ==
  ASSUME NEW a \in Nat, NEW b \in Nat, NEW f, NEW g, Increasing(f, a), Increasing(g, b),
         SmallestOf(f, a, g, b)
  PROVE  a <= b /\ \A i \in 1..a : f[i] = g[i]
<1>0. /\ \A i \in 1..a : \E j \in 1..b : f[i] = g[j]
      /\ \A i \in 1..a, j \in 1..b : g[j] < f[i] => \E k \in 1..a : f[k] = g[j]
  BY DEF SmallestOf
<1> DEFINE W == {i \in 1..a : ~(i <= b /\ f[i] = g[i])}
<1>1. W = {}
  <2> SUFFICES ASSUME W # {} PROVE FALSE OBVIOUS
  <2>1. PICK i \in W : \A k \in W : i <= k
    <3>1. W \in SUBSET Nat OBVIOUS
    <3> HIDE DEF W
    <3> QED BY <3>1, Least
  <2>2. \A k \in 1..a : k < i => k <= b /\ f[k] = g[k]
    <3> SUFFICES ASSUME NEW k \in 1..a, k < i, k \in W PROVE FALSE OBVIOUS
    <3> HIDE DEF W
    <3> QED BY <2>1
  <2>3. PICK j \in 1..b : f[i] = g[j] BY <1>0
  <2>4. ~(j < i)
    <3> SUFFICES ASSUME j < i PROVE FALSE OBVIOUS
    <3>1. j \in 1..a BY <2>1
    <3>2. f[j] = f[i] BY <2>2, <2>3, <3>1
    <3> QED BY <3>1, <3>2 DEF Increasing
  <2>5. i \in 1..b BY <2>4
  <2>6. ~(i < j)
    <3> SUFFICES ASSUME i < j PROVE FALSE OBVIOUS
    <3>1. g[i] < f[i] BY <2>3, <2>5 DEF Increasing
    <3>2. PICK k \in 1..a : f[k] = g[i] BY <1>0, <2>5, <3>1
    <3>3. k < i
      <4> SUFFICES ASSUME i < k \/ i = k PROVE FALSE OBVIOUS
      <4>1. f[i] \in Nat /\ g[i] \in Nat /\ (i < k => f[i] < f[k]) BY <2>5 DEF Increasing
      <4> QED BY <3>1, <3>2, <4>1
    <3>4. f[k] = g[k] /\ k \in 1..b BY <2>2, <3>3
    <3>5. g[k] < g[i] BY <2>5, <3>3, <3>4 DEF Increasing
    <3> QED BY <2>5, <3>2, <3>4, <3>5 DEF Increasing
  <2>7. i = j BY <2>4, <2>5, <2>6
  <2>8. i \in W BY <2>1
  <2> QED BY <2>3, <2>5, <2>7, <2>8
<1>2. \A i \in 1..a : i <= b /\ f[i] = g[i] BY <1>1
<1> QED BY <1>2

\* What begins a set, in increasing order, begins it.
LEMMA AscendingFront ==
  ASSUME NEW T \in SUBSET Nat, IsFiniteSet(T), NEW S \in SUBSET T,
         \A x \in S, y \in T : y < x => y \in S
  PROVE  /\ Cardinality(S) <= Cardinality(T)
         /\ \A i \in 1..Cardinality(S) : Ascending(S)[i] = Ascending(T)[i]
<1> DEFINE f == Ascending(S)
           g == Ascending(T)
           a == Cardinality(S)
           b == Cardinality(T)
<1>1. IsFiniteSet(S) BY FS_Subset
<1>2. /\ a \in Nat /\ Increasing(f, a) /\ \A n \in 1..a : f[n] \in S
      /\ \A x \in S : \E n \in 1..a : f[n] = x
  BY <1>1, AscendingIs
<1>3. /\ b \in Nat /\ Increasing(g, b) /\ \A n \in 1..b : g[n] \in T
      /\ \A x \in T : \E n \in 1..b : g[n] = x
  BY AscendingIs
<1> HIDE DEF f, g, a, b
<1>4. SmallestOf(f, a, g, b)
  <2>1. \A i \in 1..a : \E j \in 1..b : f[i] = g[j] BY <1>2, <1>3
  <2>2. \A i \in 1..a, j \in 1..b : g[j] < f[i] => \E k \in 1..a : f[k] = g[j]
    BY <1>2, <1>3
  <2> QED BY <2>1, <2>2 DEF SmallestOf
<1>5. a <= b /\ \A i \in 1..a : f[i] = g[i] BY <1>2, <1>3, <1>4, BeginsAlike
<1> QED BY <1>5 DEF f, g, a, b

LEMMA AscendingInterval ==
  ASSUME NEW n \in Nat
  PROVE  Cardinality(1..n) = n /\ \A i \in 1..n : Ascending(1..n)[i] = i
<1> DEFINE f == Ascending(1..n)
           g == [i \in 1..n |-> i]
<1>1. 1..n \in SUBSET Nat /\ IsFiniteSet(1..n) /\ Cardinality(1..n) = n BY FS_Interval
<1>2. /\ Increasing(f, n) /\ \A i \in 1..n : f[i] \in 1..n
      /\ \A x \in 1..n : \E i \in 1..n : f[i] = x
  BY <1>1, AscendingIs
<1>3. Increasing(g, n) /\ \A i \in 1..n : g[i] = i BY DEF Increasing
<1> HIDE DEF f, g
<1>4. SmallestOf(f, n, g, n) BY <1>2, <1>3 DEF SmallestOf
<1>5. \A i \in 1..n : f[i] = g[i] BY <1>2, <1>3, <1>4, BeginsAlike
<1> QED BY <1>1, <1>3, <1>5 DEF f

-----------------------------------------------------------------------------
(* The block quotes of a text.                                             *)

Texts == Seq(Fragments)

Count(s) == Cardinality(Starts(s))

LEMMA FunIsSeq ==
  ASSUME NEW S, NEW n \in Nat, NEW f \in [1..n -> S]
  PROVE  f \in Seq(S) /\ Len(f) = n
OBVIOUS

LEMMA StartsAre ==
  ASSUME NEW s \in Texts
  PROVE  /\ Starts(s) \in SUBSET (1..Len(s)) /\ Starts(s) \in SUBSET Nat
         /\ IsFiniteSet(Starts(s)) /\ Count(s) \in Nat
<1>1. Len(s) \in Nat /\ DOMAIN s = 1..Len(s) BY DEF Texts
<1>2. Starts(s) \in SUBSET (1..Len(s)) BY <1>1 DEF Starts
<1>3. IsFiniteSet(Starts(s))
  <2>1. IsFiniteSet(1..Len(s)) BY <1>1, FS_Interval
  <2> QED BY <1>2, <2>1, FS_Subset
<1>4. Count(s) \in Nat BY <1>3, FS_CardinalityType DEF Count
<1>5. Starts(s) \in SUBSET Nat BY <1>1, <1>2
<1> QED BY <1>2, <1>3, <1>4, <1>5

\* A line ends before the next line end, or with the text.
LEMMA LineEndIs ==
  ASSUME NEW s \in Texts, NEW i \in Starts(s)
  PROVE  /\ i \in 1..Len(s) /\ LineEnd(s, i) \in i..Len(s)
         /\ \A k \in i..LineEnd(s, i) : s[k] # NL
         /\ LineEnd(s, i) < Len(s) => s[LineEnd(s, i) + 1] = NL
<1> DEFINE S == {j \in i..Len(s) : \A k \in i..j : s[k] # NL}
<1>1. /\ i \in 1..Len(s) /\ s[i] # NL /\ Len(s) \in Nat
  BY DEF Starts, Texts
<1>2. S \in SUBSET Nat /\ i \in S /\ \A x \in S : x <= Len(s) BY <1>1
<1>3. Max(S) \in S /\ \A x \in S : x <= Max(S)
  <2> HIDE DEF S
  <2> QED BY <1>1, <1>2, MaxIs
<1>4. LineEnd(s, i) = Max(S) BY DEF LineEnd
<1>5. ASSUME Max(S) < Len(s), s[Max(S) + 1] # NL PROVE FALSE
  <2> DEFINE e == Max(S)
  <2>1. e \in i..Len(s) /\ \A k \in i..e : s[k] # NL BY <1>3
  <2> HIDE DEF e
  <2>2. e + 1 \in i..Len(s) BY <1>1, <1>5, <2>1 DEF e
  <2>3. \A k \in i..(e + 1) : k \in i..e \/ k = e + 1 BY <1>1, <2>1
  <2>4. e + 1 \in S BY <1>5, <2>1, <2>2, <2>3 DEF e
  <2>5. e + 1 <= e BY <1>3, <2>4 DEF e
  <2> QED BY <1>1, <2>1, <2>5
<1> QED BY <1>1, <1>3, <1>4, <1>5

LEMMA LineEndUnique ==
  ASSUME NEW s \in Texts, NEW i \in Starts(s), NEW j \in i..Len(s),
         \A k \in i..j : s[k] # NL, j < Len(s) => s[j + 1] = NL
  PROVE  LineEnd(s, i) = j
<1> DEFINE e == LineEnd(s, i)
<1>1. /\ i \in 1..Len(s) /\ Len(s) \in Nat /\ e \in i..Len(s)
      /\ \A k \in i..e : s[k] # NL /\ (e < Len(s) => s[e + 1] = NL)
  BY LineEndIs DEF Texts
<1> HIDE DEF e
<1>2. ~(e < j)
  <2> SUFFICES ASSUME e < j PROVE FALSE OBVIOUS
  <2>1. e + 1 \in i..j /\ e < Len(s) BY <1>1
  <2> QED BY <1>1, <2>1
<1>3. ~(j < e)
  <2> SUFFICES ASSUME j < e PROVE FALSE OBVIOUS
  <2>1. j + 1 \in i..e /\ j < Len(s) BY <1>1
  <2> QED BY <1>1, <2>1
<1>4. e = j BY <1>1, <1>2, <1>3
<1> QED BY <1>4 DEF e

LEMMA QuotesAre ==
  ASSUME NEW s \in Texts, NEW final \in BOOLEAN
  PROVE  LET quotes == Quotes(s, final)
             at     == Ascending(Starts(s)) IN
         /\ quotes \in Seq([text : Texts, complete : BOOLEAN])
         /\ Len(quotes) = Count(s) /\ DOMAIN quotes = 1..Count(s)
         /\ quotes = <<>> <=> Count(s) = 0
         /\ \A n \in 1..Count(s) :
              /\ at[n] \in Starts(s)
              /\ quotes[n].text = SubSeq(s, at[n], LineEnd(s, at[n]))
              /\ quotes[n].complete = (final \/ LineEnd(s, at[n]) < Len(s))
<1> DEFINE c == Count(s)
           at == Ascending(Starts(s))
           quotes == Quotes(s, final)
           r(n) == [text     |-> SubSeq(s, at[n], LineEnd(s, at[n])),
                    complete |-> final \/ LineEnd(s, at[n]) < Len(s)]
<1>1. c \in Nat /\ DOMAIN at = 1..c /\ \A n \in 1..c : at[n] \in Starts(s)
  BY StartsAre, AscendingIs DEF Increasing, Count
<1>2. quotes = [n \in 1..c |-> r(n)] BY <1>1 DEF Quotes
<1> HIDE DEF c, at
<1>3. \A n \in 1..c : r(n) \in [text : Texts, complete : BOOLEAN]
  <2> TAKE n \in 1..c
  <2>1. at[n] \in 1..Len(s) /\ LineEnd(s, at[n]) \in at[n]..Len(s) /\ Len(s) \in Nat
    BY <1>1, LineEndIs DEF Texts
  <2>2. \A k \in at[n]..LineEnd(s, at[n]) : s[k] \in Fragments
    <3> SUFFICES ASSUME NEW k \in at[n]..LineEnd(s, at[n]) PROVE s[k] \in Fragments OBVIOUS
    <3>1. k \in 1..Len(s) BY <2>1
    <3> QED BY <3>1 DEF Texts
  <2>3. SubSeq(s, at[n], LineEnd(s, at[n])) \in Texts BY <2>1, <2>2, SubSeqProperties DEF Texts
  <2>4. (final \/ LineEnd(s, at[n]) < Len(s)) \in BOOLEAN OBVIOUS
  <2> QED BY <2>3, <2>4
<1>4. \A n \in 1..c : quotes[n] = r(n) BY <1>2
<1>5. DOMAIN quotes = 1..c BY <1>2
<1> HIDE DEF quotes
<1>6. quotes \in [1..c -> [text : Texts, complete : BOOLEAN]]
  <2> HIDE DEF r
  <2> QED BY <1>2, <1>3
<1>7. quotes \in Seq([text : Texts, complete : BOOLEAN]) /\ Len(quotes) = c
  BY <1>1, <1>6, FunIsSeq
<1>8. quotes = <<>> <=> c = 0
  <2> HIDE DEF r
  <2> QED BY <1>1, <1>7, EmptySeq
<1>9. \A n \in 1..c : /\ at[n] \in Starts(s)
                      /\ quotes[n].text = SubSeq(s, at[n], LineEnd(s, at[n]))
                      /\ quotes[n].complete = (final \/ LineEnd(s, at[n]) < Len(s))
  <2> TAKE n \in 1..c
  <2>1. r(n).text = SubSeq(s, at[n], LineEnd(s, at[n])) OBVIOUS
  <2>2. r(n).complete = (final \/ LineEnd(s, at[n]) < Len(s)) OBVIOUS
  <2> HIDE DEF r
  <2> QED BY <1>1, <1>4, <2>1, <2>2
<1> QED BY <1>5, <1>7, <1>8, <1>9 DEF quotes, c, at

\* How many lines in front are complete.
LEMMA LeadingIs ==
  ASSUME NEW s \in Texts, NEW final \in BOOLEAN
  PROVE  LET quotes == Quotes(s, final) IN
         /\ Leading(quotes) \in 0..Count(s)
         /\ \A n \in 1..Leading(quotes) : quotes[n].complete
         /\ final => Leading(quotes) = Count(s)
<1> DEFINE c == Count(s)
           quotes == Quotes(s, final)
           D == {n \in 1..c : \A i \in 1..n : quotes[i].complete}
<1>1. c \in Nat /\ DOMAIN quotes = 1..c
      /\ \A n \in 1..c : final => quotes[n].complete
  BY QuotesAre, StartsAre
<1> HIDE DEF c, quotes
<1>2. Leading(quotes) = Cardinality(D) BY <1>1 DEF Leading
<1>3. Cardinality(D) \in 0..c /\ D = 1..Cardinality(D)
  <2>1. D \in SUBSET (1..c) OBVIOUS
  <2>2. ASSUME NEW i \in D, NEW j \in 1..c, j <= i PROVE j \in D
    <3>1. \A k \in 1..j : k \in 1..i BY <1>1, <2>2
    <3> QED BY <3>1
  <2> HIDE DEF D
  <2> QED BY <1>1, <2>1, <2>2, InitialSegment
<1>4. \A n \in D : quotes[n].complete BY <1>1
<1>5. ASSUME final PROVE Cardinality(D) = c
  <2>1. D = 1..c BY <1>1, <1>5
  <2>2. Cardinality(1..c) = c BY <1>1, FS_Interval
  <2> QED BY <2>1, <2>2
<1> QED BY <1>2, <1>3, <1>4, <1>5 DEF c, quotes

\* How many lines of a text that goes on have ended.
Ended(s) == Leading(Quotes(s, FALSE))

LEMMA EndedIs ==
  ASSUME NEW s \in Texts
  PROVE  /\ Ended(s) \in 0..Count(s) /\ Ended(s) \in Nat
         /\ \A n \in 1..Ended(s) : Quotes(s, FALSE)[n].complete
<1>1. Leading(Quotes(s, FALSE)) \in 0..Count(s) /\ Count(s) \in Nat
  BY LeadingIs, StartsAre
<1>2. \A n \in 1..Leading(Quotes(s, FALSE)) : Quotes(s, FALSE)[n].complete BY LeadingIs
<1>3. Leading(Quotes(s, FALSE)) = Ended(s) BY DEF Ended
<1>4. Ended(s) \in 0..Count(s) /\ Count(s) \in Nat BY <1>1, <1>3
<1>5. Ended(s) \in Nat BY <1>4
<1>6. \A n \in 1..Ended(s) : Quotes(s, FALSE)[n].complete BY <1>2, <1>3
<1> QED BY <1>4, <1>5, <1>6

\* s is what t begins with.
Begins(s, t) == Len(s) <= Len(t) /\ \A i \in 1..Len(s) : s[i] = t[i]

\* The lines complete at the front of a text are lines of every text it begins.
LEMMA QuotesStay ==
  ASSUME NEW s \in Texts, NEW t \in Texts, Begins(s, t), NEW final \in BOOLEAN
  PROVE  /\ Count(s) <= Count(t)
         /\ \A n \in 1..Ended(s) :
              Quotes(t, final)[n].text = Quotes(s, FALSE)[n].text
<1> DEFINE f == Ascending(Starts(s))
           g == Ascending(Starts(t))
<1>1. Len(s) \in Nat /\ Len(t) \in Nat /\ DOMAIN s = 1..Len(s) /\ DOMAIN t = 1..Len(t)
  BY DEF Texts
<1>2. Starts(s) = Starts(t) \cap 1..Len(s)
  BY <1>1 DEF Starts, Begins
<1>3. Count(s) \in Nat /\ Count(t) \in Nat BY StartsAre
<1>4. \A x \in Starts(s), y \in Starts(t) : y < x => y \in Starts(s)
  <2> SUFFICES ASSUME NEW x \in Starts(s), NEW y \in Starts(t), y < x PROVE y \in Starts(s)
    OBVIOUS
  <2>1. x \in 1..Len(s) /\ y \in 1..Len(t) BY StartsAre
  <2>2. y \in 1..Len(s) BY <1>1, <2>1
  <2> QED BY <1>2, <2>2
<1>5. IsFiniteSet(Starts(t)) /\ Starts(t) \in SUBSET Nat /\ Starts(s) \in SUBSET Starts(t)
  BY <1>2, StartsAre
<1>6. Count(s) <= Count(t) /\ \A i \in 1..Count(s) : f[i] = g[i]
  BY <1>4, <1>5, AscendingFront DEF Count
<1> HIDE DEF f, g
<1>7. ASSUME NEW n \in 1..Ended(s)
      PROVE  Quotes(t, final)[n].text = Quotes(s, FALSE)[n].text
  <2>0. Ended(s) \in 0..Count(s) BY EndedIs
  <2>1. n \in 1..Count(s) BY <1>3, <2>0
  <2>a. Quotes(s, FALSE)[n].complete BY EndedIs
  <2>2. n \in 1..Count(t) BY <1>3, <1>6, <2>1
  <2>3. /\ f[n] \in Starts(s) /\ LineEnd(s, f[n]) < Len(s)
        /\ Quotes(s, FALSE)[n].text = SubSeq(s, f[n], LineEnd(s, f[n]))
    BY <2>1, <2>a, QuotesAre DEF f
  <2>4. /\ f[n] \in Starts(t)
        /\ Quotes(t, final)[n].text = SubSeq(t, f[n], LineEnd(t, f[n]))
    <3>1. /\ g[n] \in Starts(t)
          /\ Quotes(t, final)[n].text = SubSeq(t, g[n], LineEnd(t, g[n]))
      BY <2>2, QuotesAre DEF g
    <3>2. f[n] = g[n] BY <1>6, <2>1
    <3> QED BY <3>1, <3>2
  <2> DEFINE i == f[n]
             e == LineEnd(s, i)
  <2>5. /\ i \in 1..Len(s) /\ e \in i..Len(s) /\ e < Len(s)
        /\ \A k \in i..e : s[k] # NL
        /\ s[e + 1] = NL
    BY <2>3, LineEndIs
  <2>6. LineEnd(t, i) = e
    <3> HIDE DEF e, i
    <3>1. \A k \in i..(e + 1) : k \in 1..Len(s) BY <1>1, <2>5
    <3>2. \A k \in i..(e + 1) : t[k] = s[k] BY <3>1 DEF Begins
    <3>3. e \in i..Len(t) BY <1>1, <2>5 DEF Begins
    <3>4. \A k \in i..e : t[k] # NL BY <1>1, <2>5, <3>2
    <3>5. t[e + 1] = NL BY <1>1, <2>5, <3>2
    <3>6. i \in Starts(t) BY <2>4 DEF i
    <3> QED BY <3>3, <3>4, <3>5, <3>6, LineEndUnique
  <2>7. SubSeq(t, i, e) = SubSeq(s, i, e)
    <3> HIDE DEF e, i
    <3>1. \A k \in i..e : k \in 1..Len(s) BY <1>1, <2>5
    <3>2. \A k \in i..e : t[k] = s[k] BY <3>1 DEF Begins
    <3>3. \A k \in i..e : s[k] \in Fragments /\ t[k] \in Fragments
      BY <3>1, <3>2 DEF Texts
    <3>4. /\ SubSeq(t, i, e) \in Seq(Fragments) /\ SubSeq(s, i, e) \in Seq(Fragments)
          /\ Len(SubSeq(s, i, e)) = e - i + 1 /\ Len(SubSeq(t, i, e)) = e - i + 1
          /\ \A k \in 1..(e - i + 1) : /\ SubSeq(t, i, e)[k] = t[i + k - 1]
                                       /\ SubSeq(s, i, e)[k] = s[i + k - 1]
      BY <1>1, <2>5, <3>3, SubSeqProperties
    <3>5. \A k \in 1..(e - i + 1) : i + k - 1 \in i..e BY <1>1, <2>5
    <3>6. \A k \in 1..(e - i + 1) : SubSeq(t, i, e)[k] = SubSeq(s, i, e)[k]
      BY <3>2, <3>4, <3>5
    <3> QED BY <3>4, <3>6, SeqEqual
  <2> QED BY <2>3, <2>4, <2>6, <2>7
<1> QED BY <1>6, <1>7

-----------------------------------------------------------------------------
(* The batches of a message, put together.                                 *)

\* Where batch k of m ends.
UpTo(m, k) == Batches[m][k].upTo

LEMMA BatchesAre ==
  ASSUME NEW m \in Keys
  PROVE  /\ Text[m] \in Texts /\ Len(Text[m]) \in Nat
         /\ Len(Batches[m]) \in Nat \ {0} /\ DOMAIN Batches[m] = 1..Len(Batches[m])
         /\ \A k \in DOMAIN Batches[m] :
              /\ UpTo(m, k) \in 0..Len(Text[m]) /\ Batches[m][k].whole \in BOOLEAN
              /\ IsFinal(m, k) => UpTo(m, k) = Len(Text[m])
              /\ \A j \in DOMAIN Batches[m] :
                   /\ j <= k => UpTo(m, j) <= UpTo(m, k)
                   /\ IsFinal(m, k) /\ Batches[m][j].whole => Batches[m][k].whole
<1> DEFINE B == [upTo : Nat, whole : BOOLEAN]
<1>1. Text[m] \in Texts /\ Batches[m] \in Seq(B) /\ Batches[m] # <<>>
  BY NarrationAssumption DEF Keys, Texts
<1>2. /\ Len(Text[m]) \in Nat
      /\ Len(Batches[m]) \in Nat \ {0} /\ DOMAIN Batches[m] = 1..Len(Batches[m])
  <2> HIDE DEF B
  <2> QED BY <1>1, LenProperties, EmptySeq DEF Texts
<1>3. \A k \in DOMAIN Batches[m] : Batches[m][k] \in B
  <2> HIDE DEF B
  <2> QED BY <1>1, <1>2, ElementOfSeq
<1>4. \A k \in DOMAIN Batches[m] : UpTo(m, k) \in Nat /\ Batches[m][k].whole \in BOOLEAN
  BY <1>3 DEF UpTo
<1>5. \A j, k \in DOMAIN Batches[m] :
         /\ j <= k => UpTo(m, j) <= UpTo(m, k)
         /\ IsFinal(m, k) => UpTo(m, k) = Len(Text[m])
         /\ IsFinal(m, k) /\ Batches[m][j].whole => Batches[m][k].whole
  BY NarrationAssumption DEF UpTo
<1>6. \A k \in DOMAIN Batches[m] : UpTo(m, k) <= Len(Text[m])
  <2> TAKE k \in DOMAIN Batches[m]
  <2> DEFINE n == Len(Batches[m])
  <2>1. n \in DOMAIN Batches[m] /\ k <= n BY <1>2
  <2>2. IsFinal(m, n) BY DEF IsFinal
  <2> HIDE DEF n
  <2> QED BY <1>5, <2>1, <2>2
<1> QED BY <1>1, <1>2, <1>4, <1>5, <1>6

\* The end of what begins with batch k.
Before(m, k) == IF k = 1 THEN 0 ELSE UpTo(m, k - 1)

LEMMA SliceIs ==
  ASSUME NEW m \in Keys, NEW k \in DOMAIN Batches[m]
  PROVE  /\ Slice(m, k) = (Before(m, k) + 1)..UpTo(m, k)
         /\ Before(m, k) \in 0..UpTo(m, k) /\ UpTo(m, k) \in 0..Len(Text[m])
         /\ \A j \in DOMAIN Batches[m] : j < k => UpTo(m, j) <= Before(m, k)
<1>1. k \in 1..Len(Batches[m]) /\ Len(Batches[m]) \in Nat BY BatchesAre
<1>2. CASE k = 1
  <2>1. UpTo(m, k) \in 0..Len(Text[m]) /\ Len(Text[m]) \in Nat BY BatchesAre
  <2>2. \A j \in DOMAIN Batches[m] : ~(j < k) BY <1>2, BatchesAre
  <2> QED BY <1>2, <2>1, <2>2 DEF Slice, Before, UpTo
<1>3. CASE k # 1
  <2>1. k - 1 \in DOMAIN Batches[m] /\ k - 1 <= k BY <1>1, <1>3, BatchesAre
  <2>2. /\ UpTo(m, k) \in 0..Len(Text[m]) /\ UpTo(m, k - 1) \in 0..Len(Text[m])
        /\ UpTo(m, k - 1) <= UpTo(m, k) /\ Len(Text[m]) \in Nat
    BY <2>1, BatchesAre
  <2>3. \A j \in DOMAIN Batches[m] : j < k => j <= k - 1 BY <1>1, BatchesAre
  <2>4. \A j \in DOMAIN Batches[m] : j < k => UpTo(m, j) <= UpTo(m, k - 1)
    BY <2>1, <2>3, BatchesAre
  <2>5. Before(m, k) = UpTo(m, k - 1) BY <1>3 DEF Before
  <2>6. Slice(m, k) = (UpTo(m, k - 1) + 1)..UpTo(m, k) BY <1>3 DEF Slice, UpTo
  <2> QED BY <2>2, <2>4, <2>5, <2>6
<1> QED BY <1>2, <1>3

\* Where the chunks ks of m are in its text.
Places(m, ks) == UNION {Slice(m, k) : k \in ks}

LEMMA JoinedIs ==
  ASSUME NEW m \in Keys, NEW ks \in SUBSET DOMAIN Batches[m]
  PROVE  LET at == Ascending(Places(m, ks))
             c  == Cardinality(Places(m, ks)) IN
         /\ Places(m, ks) \in SUBSET (1..Len(Text[m])) /\ IsFiniteSet(Places(m, ks))
         /\ Joined(m, ks) \in Texts /\ Len(Joined(m, ks)) = c /\ c \in Nat
         /\ \A i \in 1..c : Joined(m, ks)[i] = Text[m][at[i]]
<1> DEFINE S == Places(m, ks)
           at == Ascending(S)
           c == Cardinality(S)
<1>1. Text[m] \in Texts /\ Len(Text[m]) \in Nat /\ DOMAIN Text[m] = 1..Len(Text[m])
  BY BatchesAre DEF Texts
<1>2. S \in SUBSET (1..Len(Text[m]))
  <2> SUFFICES ASSUME NEW k \in ks, NEW i \in Slice(m, k) PROVE i \in 1..Len(Text[m])
    BY DEF Places
  <2> QED BY <1>1, SliceIs
<1>3. IsFiniteSet(S) /\ S \in SUBSET Nat
  <2>1. IsFiniteSet(1..Len(Text[m])) BY <1>1, FS_Interval
  <2>2. IsFiniteSet(S) BY <1>2, <2>1, FS_Subset
  <2>3. S \in SUBSET Nat BY <1>1, <1>2
  <2> QED BY <2>2, <2>3
<1>4. c \in Nat /\ DOMAIN at = 1..c /\ \A n \in 1..c : at[n] \in S
  BY <1>3, AscendingIs DEF Increasing
<1>5. Joined(m, ks) = [n \in DOMAIN at |-> Text[m][at[n]]] BY DEF Joined, Places
<1> HIDE DEF S, at, c
<1>6. Joined(m, ks) \in [1..c -> Fragments]
  <2>1. \A n \in 1..c : Text[m][at[n]] \in Fragments
    <3> TAKE n \in 1..c
    <3>1. at[n] \in 1..Len(Text[m]) BY <1>2, <1>4
    <3> QED BY <1>1, <3>1 DEF Texts
  <2> QED BY <1>4, <1>5, <2>1
<1>7. Joined(m, ks) \in Texts /\ Len(Joined(m, ks)) = c BY <1>4, <1>6, FunIsSeq DEF Texts
<1>8. \A i \in 1..c : Joined(m, ks)[i] = Text[m][at[i]] BY <1>4, <1>5
<1> QED BY <1>2, <1>3, <1>4, <1>7, <1>8 DEF S, at, c

\* The first d chunks fill the text to where they end.
LEMMA FrontPlaces ==
  ASSUME NEW m \in Keys, NEW d \in DOMAIN Batches[m]
  PROVE  Places(m, 1..d) = 1..UpTo(m, d)
<1>1. /\ Len(Batches[m]) \in Nat /\ d \in 1..Len(Batches[m])
      /\ DOMAIN Batches[m] = 1..Len(Batches[m]) /\ UpTo(m, d) \in Nat
      /\ \A k \in 1..d : k \in DOMAIN Batches[m]
  BY BatchesAre
<1>2. ASSUME NEW k \in 1..d, NEW i \in Slice(m, k) PROVE i \in 1..UpTo(m, d)
  <2>1. k \in DOMAIN Batches[m] /\ k <= d BY <1>1
  <2>2. i \in (Before(m, k) + 1)..UpTo(m, k) /\ Before(m, k) \in 0..UpTo(m, k) BY <2>1, SliceIs
  <2>3. UpTo(m, k) <= UpTo(m, d) /\ UpTo(m, k) \in 0..Len(Text[m]) BY <2>1, BatchesAre
  <2> QED BY <1>1, <2>2, <2>3, BatchesAre
<1>3. ASSUME NEW i \in 1..UpTo(m, d) PROVE \E k \in 1..d : i \in Slice(m, k)
  <2> DEFINE K == {k \in 1..d : i <= UpTo(m, k)}
  <2>1. d \in K /\ K \in SUBSET Nat BY <1>1
  <2>2. PICK k \in K : \A j \in K : k <= j
    <3> HIDE DEF K
    <3> QED BY <2>1, Least
  <2>3. k \in DOMAIN Batches[m] /\ k \in 1..d /\ i <= UpTo(m, k) BY <1>1, <2>2
  <2>4. i >= Before(m, k) + 1
    <3>1. CASE k = 1
      <4>1. Before(m, k) = 0 BY <3>1 DEF Before
      <4> QED BY <4>1
    <3>2. CASE k # 1
      <4>1. k - 1 \in 1..d /\ ~(k <= k - 1) BY <1>1, <2>3, <3>2
      <4>2. k - 1 \notin K BY <2>2, <4>1
      <4>3. ~(i <= UpTo(m, k - 1)) BY <4>1, <4>2
      <4>4. UpTo(m, k - 1) \in Nat /\ i \in Nat BY <1>1, <4>1, BatchesAre
      <4>5. Before(m, k) = UpTo(m, k - 1) BY <3>2 DEF Before
      <4> QED BY <4>3, <4>4, <4>5
    <3> QED BY <3>1, <3>2
  <2>5. Slice(m, k) = (Before(m, k) + 1)..UpTo(m, k) /\ Before(m, k) \in 0..UpTo(m, k)
        /\ UpTo(m, k) \in 0..Len(Text[m]) /\ Len(Text[m]) \in Nat
    BY <2>3, SliceIs, BatchesAre
  <2>6. i \in Slice(m, k) BY <1>1, <2>3, <2>4, <2>5
  <2> QED BY <2>3, <2>6
<1> QED BY <1>2, <1>3 DEF Places

LEMMA FrontJoined ==
  ASSUME NEW m \in Keys, NEW d \in DOMAIN Batches[m]
  PROVE  Len(Joined(m, 1..d)) = UpTo(m, d) /\ Begins(Joined(m, 1..d), Text[m])
<1>1. 1..d \in SUBSET DOMAIN Batches[m] BY BatchesAre
<1>2. /\ UpTo(m, d) \in 0..Len(Text[m]) /\ Len(Text[m]) \in Nat BY BatchesAre
<1>3. Places(m, 1..d) = 1..UpTo(m, d) BY FrontPlaces
<1>4. /\ Cardinality(1..UpTo(m, d)) = UpTo(m, d)
      /\ \A i \in 1..UpTo(m, d) : Ascending(1..UpTo(m, d))[i] = i
  BY <1>2, AscendingInterval
<1>5. Len(Joined(m, 1..d)) = UpTo(m, d) BY <1>1, <1>3, <1>4, JoinedIs
<1>6. \A i \in 1..UpTo(m, d) : Joined(m, 1..d)[i] = Text[m][i]
  <2>1. \A i \in 1..UpTo(m, d) : Joined(m, 1..d)[i] = Text[m][Ascending(1..UpTo(m, d))[i]]
    BY <1>1, <1>3, <1>4, JoinedIs
  <2> QED BY <1>4, <2>1
<1> QED BY <1>2, <1>5, <1>6 DEF Begins

\* Without chunks there is nothing.
LEMMA NothingJoined ==
  ASSUME NEW m \in Keys
  PROVE  Joined(m, {}) \in Texts /\ Len(Joined(m, {})) = 0
<1>1. Places(m, {}) = {} BY DEF Places
<1> QED BY <1>1, JoinedIs, FS_EmptySet

\* The chunks before a gap begin all chunks.
LEMMA JoinedBegins ==
  ASSUME NEW m \in Keys, NEW ks \in SUBSET DOMAIN Batches[m], NEW d \in ks, 1..d \subseteq ks
  PROVE  Begins(Joined(m, 1..d), Joined(m, ks))
<1> DEFINE S == Places(m, 1..d)
           T == Places(m, ks)
<1>1. 1..d \in SUBSET DOMAIN Batches[m] /\ d \in DOMAIN Batches[m] OBVIOUS
<1>2. S \in SUBSET T BY DEF Places
<1>3. S = 1..UpTo(m, d) BY FrontPlaces
<1>4. T \in SUBSET (1..Len(Text[m])) /\ IsFiniteSet(T) /\ T \in SUBSET Nat
  <2>1. Len(Text[m]) \in Nat BY BatchesAre
  <2> QED BY <2>1, JoinedIs
<1>5. UpTo(m, d) \in Nat BY <1>1, BatchesAre
<1>6. /\ Len(Joined(m, 1..d)) = Cardinality(S) /\ Len(Joined(m, ks)) = Cardinality(T)
      /\ \A i \in 1..Cardinality(S) : Joined(m, 1..d)[i] = Text[m][Ascending(S)[i]]
      /\ \A i \in 1..Cardinality(T) : Joined(m, ks)[i] = Text[m][Ascending(T)[i]]
      /\ Cardinality(S) \in Nat /\ Cardinality(T) \in Nat
  BY <1>1, JoinedIs
<1> HIDE DEF S, T
<1>7. \A x \in S, y \in T : y < x => y \in S
  <2> SUFFICES ASSUME NEW x \in S, NEW y \in T, y < x PROVE y \in S OBVIOUS
  <2>1. x \in 1..UpTo(m, d) /\ y \in Nat /\ y >= 1
    <3>1. y \in 1..Len(Text[m]) BY <1>4
    <3> QED BY <1>3, <3>1
  <2> QED BY <1>3, <1>5, <2>1
<1>8. /\ Cardinality(S) <= Cardinality(T)
      /\ \A i \in 1..Cardinality(S) : Ascending(S)[i] = Ascending(T)[i]
  BY <1>2, <1>4, <1>7, AscendingFront
<1>9. \A i \in 1..Cardinality(S) : i \in 1..Cardinality(T) BY <1>6, <1>8
<1> QED BY <1>6, <1>8, <1>9 DEF Begins

\* The chunks before the first gap are the first ones.
LEMMA DenseIs ==
  ASSUME NEW m \in Keys, NEW parts \in SUBSET DOMAIN Batches[m]
  PROVE  \/ Dense(parts) = {}
         \/ \E d \in parts : Dense(parts) = 1..d
<1> DEFINE n == Len(Batches[m])
           D == Dense(parts)
<1>1. n \in Nat /\ DOMAIN Batches[m] = 1..n BY BatchesAre
<1> HIDE DEF n
<1>2. D \in SUBSET (1..n) BY <1>1 DEF Dense
<1>3. \A i \in D, j \in 1..n : j <= i => j \in D
  <2> SUFFICES ASSUME NEW i \in D, NEW j \in 1..n, j <= i PROVE j \in D OBVIOUS
  <2>1. i \in 1..n /\ 1..i \subseteq parts BY <1>2 DEF Dense
  <2>2. 1..j \subseteq 1..i /\ j \in 1..i BY <1>1, <2>1
  <2> QED BY <2>1, <2>2 DEF Dense
<1>4. Cardinality(D) \in 0..n /\ D = 1..Cardinality(D)
  <2> HIDE DEF D
  <2> QED BY <1>1, <1>2, <1>3, InitialSegment
<1> DEFINE d == Cardinality(D)
<1>5. d \in 0..n /\ D = 1..d BY <1>4
<1> HIDE DEF d
<1>6. CASE d = 0 BY <1>5, <1>6
<1>7. CASE d # 0
  <2>1. d \in D BY <1>1, <1>5, <1>7
  <2>2. d \in parts BY <2>1 DEF Dense
  <2> QED BY <1>5, <2>2
<1> QED BY <1>6, <1>7

-----------------------------------------------------------------------------
(* What a batch selects.                                                   *)

AccTypes(m, acc) ==
  /\ acc \in [parts : SUBSET DOMAIN Batches[m], seenFinal : BOOLEAN,
              emitted : Nat, shortDone : BOOLEAN]

\* The pieces of Feed, named.
Parts(acc, m, k) == IF Batches[m][k].whole THEN acc.parts ELSE acc.parts \cup {k}
Final(acc, m, k) == acc.seenFinal \/ IsFinal(m, k)
TextOf(acc, m, k) == Shown(m, k, Parts(acc, m, k))
QuotesOf(acc, m, k) == Quotes(TextOf(acc, m, k), Final(acc, m, k))
Spoken(acc, m, k) == Speakable(m, Parts(acc, m, k), TextOf(acc, m, k), Final(acc, m, k))
IsShort(acc, m, k) == Final(acc, m, k) /\ QuotesOf(acc, m, k) = <<>> /\ ~acc.shortDone

Emitted(acc, m, k) == Max2(Spoken(acc, m, k), acc.emitted)

LEMMA FeedIs ==
  ASSUME NEW acc, NEW m, NEW k, NEW digests
  PROVE  LET fed == Feed(acc, m, k, digests) IN
         /\ fed.acc = [parts |-> fed.acc.parts, seenFinal |-> fed.acc.seenFinal,
                       emitted |-> fed.acc.emitted, shortDone |-> fed.acc.shortDone]
         /\ fed.acc.emitted = Emitted(acc, m, k)
BY DEF Feed, Parts, Final, TextOf, QuotesOf, Spoken, Emitted

LEMMA FeedParts ==
  ASSUME NEW acc, NEW m, NEW k, NEW digests
  PROVE  Feed(acc, m, k, digests).acc.parts =
           IF Final(acc, m, k) /\ Emitted(acc, m, k) >= Len(QuotesOf(acc, m, k))
             THEN {} ELSE Parts(acc, m, k)
BY DEF Feed, Parts, Final, TextOf, QuotesOf, Spoken, Emitted

LEMMA FeedFlags ==
  ASSUME NEW acc, NEW m, NEW k, NEW digests
  PROVE  LET fed == Feed(acc, m, k, digests) IN
         /\ fed.acc.seenFinal \in BOOLEAN /\ (fed.acc.seenFinal <=> Final(acc, m, k))
         /\ fed.acc.shortDone \in BOOLEAN
         /\ fed.acc.shortDone <=> acc.shortDone \/ IsShort(acc, m, k)
BY DEF Feed, Parts, Final, TextOf, QuotesOf, IsShort

Blank(s) == ToSet(s) \subseteq {NL}

LEMMA FeedShort ==
  ASSUME NEW acc, NEW m, NEW k, NEW digests, IsShort(acc, m, k), ~Blank(TextOf(acc, m, k))
  PROVE  Feed(acc, m, k, digests).speak = <<TextOf(acc, m, k)>>
BY DEF Feed, Parts, Final, TextOf, QuotesOf, IsShort, Blank

LEMMA FeedQuotes ==
  ASSUME NEW acc, NEW m, NEW k, NEW digests, ~IsShort(acc, m, k) \/ Blank(TextOf(acc, m, k))
  PROVE  Feed(acc, m, k, digests).speak =
           IF digests THEN [n \in 1..(Spoken(acc, m, k) - acc.emitted) |->
                              QuotesOf(acc, m, k)[acc.emitted + n].text]
                      ELSE <<>>
BY DEF Feed, Parts, Final, TextOf, QuotesOf, Spoken, IsShort, Blank

LEMMA SnapshotBegins ==
  ASSUME NEW m \in Keys, NEW k \in DOMAIN Batches[m]
  PROVE  LET s == SubSeq(Text[m], 1, UpTo(m, k)) IN
         s \in Texts /\ Len(s) = UpTo(m, k) /\ Begins(s, Text[m])
<1> DEFINE t == Text[m]
           e == UpTo(m, k)
<1>1. t \in Texts /\ Len(t) \in Nat /\ e \in 0..Len(t) /\ DOMAIN t = 1..Len(t)
  BY BatchesAre DEF Texts
<1> HIDE DEF t, e
<1>2. \A i \in 1..e : t[i] \in Fragments BY <1>1 DEF Texts
<1>3. /\ SubSeq(t, 1, e) \in Seq(Fragments) /\ Len(SubSeq(t, 1, e)) = e
      /\ \A i \in 1..e : SubSeq(t, 1, e)[i] = t[i]
  BY <1>1, <1>2, SubSeqProperties
<1>4. Begins(SubSeq(t, 1, e), t) BY <1>1, <1>3 DEF Begins
<1> QED BY <1>3, <1>4 DEF t, e, Texts

\* The text that a batch shows, and how much of it is speakable.
LEMMA ShownType ==
  ASSUME NEW m \in Keys, NEW k \in DOMAIN Batches[m], NEW ks \in SUBSET DOMAIN Batches[m]
  PROVE  Shown(m, k, ks) \in Texts
BY SnapshotBegins, JoinedIs DEF Shown, UpTo

LEMMA SpeakableIs ==
  ASSUME NEW m \in Keys, NEW parts \in SUBSET DOMAIN Batches[m], NEW text \in Texts,
         NEW final \in BOOLEAN
  PROVE  LET n == Speakable(m, parts, text, final)
             l == Leading(Quotes(text, final)) IN
         /\ n \in 0..l /\ l \in 0..Count(text)
         /\ IF final \/ Dense(parts) = parts THEN n = l
            ELSE n <= Ended(Joined(m, Dense(parts)))
<1> DEFINE l == Leading(Quotes(text, final))
           b == Ended(Joined(m, Dense(parts)))
           n == Speakable(m, parts, text, final)
<1>1. Count(text) \in Nat /\ l \in 0..Count(text) BY StartsAre, LeadingIs
<1>2. b \in Nat
  <2>1. Dense(parts) \in SUBSET DOMAIN Batches[m] BY DEF Dense
  <2>2. Joined(m, Dense(parts)) \in Texts BY <2>1, JoinedIs
  <2> QED BY <2>2, EndedIs
<1>3. n = IF final \/ Dense(parts) = parts THEN l ELSE Min({l, b}) BY DEF Speakable, Ended
<1>4. l \in Nat BY <1>1
<1> HIDE DEF l, b, n
<1>5. /\ Min({l, b}) \in {l, b} /\ Min({l, b}) <= l /\ Min({l, b}) <= b
  BY <1>2, <1>4, MinOfTwo
<1>6. /\ n \in 0..l
      /\ IF final \/ Dense(parts) = parts THEN n = l ELSE n <= b
  BY <1>2, <1>3, <1>4, <1>5
<1> QED BY <1>1, <1>6 DEF l, b, n

LEMMA FeedTypes ==
  ASSUME NEW m \in Keys, NEW k \in DOMAIN Batches[m], NEW acc, AccTypes(m, acc),
         NEW digests \in BOOLEAN
  PROVE  /\ AccTypes(m, Feed(acc, m, k, digests).acc)
         /\ Feed(acc, m, k, digests).acc.emitted >= acc.emitted
         /\ Feed(acc, m, k, digests).speak \in Seq(Texts)
<1> DEFINE fed == Feed(acc, m, k, digests)
           parts == Parts(acc, m, k)
           final == Final(acc, m, k)
           text == TextOf(acc, m, k)
           quotes == QuotesOf(acc, m, k)
           upTo == Spoken(acc, m, k)
           short == IsShort(acc, m, k)
           o == acc.emitted
<1>1. parts \in SUBSET DOMAIN Batches[m] /\ final \in BOOLEAN /\ o \in Nat
      /\ acc.shortDone \in BOOLEAN
  BY DEF Parts, Final, AccTypes, IsFinal
<1>2. text \in Texts BY <1>1, ShownType DEF TextOf
<1>3. /\ quotes \in Seq([text : Texts, complete : BOOLEAN]) /\ Len(quotes) = Count(text)
      /\ Count(text) \in Nat
  BY <1>1, <1>2, QuotesAre, StartsAre DEF QuotesOf
<1>4. upTo \in 0..Count(text)
  <2> DEFINE l == Leading(Quotes(text, final))
  <2>1. upTo \in 0..l /\ l \in 0..Count(text) BY <1>1, <1>2, SpeakableIs DEF Spoken
  <2> HIDE DEF l
  <2> QED BY <1>3, <2>1
<1>5. short \in BOOLEAN BY <1>1 DEF IsShort
<1> HIDE DEF parts, final, text, quotes, upTo, short
<1>6. \A n \in 1..(upTo - o) : quotes[o + n].text \in Texts
  <2> TAKE n \in 1..(upTo - o)
  <2>1. o + n \in 1..Len(quotes) BY <1>1, <1>3, <1>4
  <2>2. quotes[o + n] \in [text : Texts, complete : BOOLEAN] BY <1>3, <2>1, ElementOfSeq
  <2> QED BY <2>2
<1>7. [n \in 1..(upTo - o) |-> quotes[o + n].text] \in Seq(Texts)
  <2>1. CASE upTo - o \in Nat BY <1>6, <2>1, IsASeq
  <2>2. CASE upTo - o \notin Nat
    <3>1. 1..(upTo - o) = 1..0 BY <1>1, <1>3, <1>4, <2>2
    <3>2. [n \in 1..0 |-> quotes[o + n].text] \in [1..0 -> Texts] OBVIOUS
    <3> QED BY <3>1, <3>2, FunIsSeq
  <2> QED BY <2>1, <2>2
<1>8. <<text>> \in Seq(Texts) /\ <<>> \in Seq(Texts) BY <1>2
<1>9. fed.speak \in {<<text>>, [n \in 1..(upTo - o) |-> quotes[o + n].text], <<>>}
  <2>1. CASE IsShort(acc, m, k) /\ ~(Blank(TextOf(acc, m, k)))
    <3>1. fed.speak = <<text>> BY <2>1, FeedShort DEF text
    <3> HIDE DEF fed
    <3> QED BY <3>1
  <2>2. CASE ~IsShort(acc, m, k) \/ Blank(TextOf(acc, m, k))
    <3>1. fed.speak = IF digests THEN [n \in 1..(upTo - o) |-> quotes[o + n].text] ELSE <<>>
      BY <2>2, FeedQuotes DEF upTo, quotes
    <3> HIDE DEF fed
    <3> QED BY <3>1
  <2> QED BY <2>1, <2>2
<1>10. fed.speak \in Seq(Texts)
  <2> HIDE DEF fed
  <2> QED BY <1>7, <1>8, <1>9
<1>11. Emitted(acc, m, k) \in Nat /\ Emitted(acc, m, k) >= o
  BY <1>1, <1>3, <1>4 DEF Max2, Emitted, upTo
<1>12. fed.acc = [parts |-> fed.acc.parts, seenFinal |-> fed.acc.seenFinal,
                  emitted |-> fed.acc.emitted, shortDone |-> fed.acc.shortDone]
  BY FeedIs
<1>13. fed.acc.parts \in {{}, parts} /\ fed.acc.emitted = Emitted(acc, m, k)
  <2>1. fed.acc.parts \in {{}, parts} BY FeedParts DEF parts
  <2>2. fed.acc.emitted = Emitted(acc, m, k) BY FeedIs
  <2> QED BY <2>1, <2>2
<1>14. fed.acc.seenFinal \in BOOLEAN /\ fed.acc.shortDone \in BOOLEAN BY FeedFlags
<1> HIDE DEF fed
<1>15. fed.acc.emitted \in Nat /\ fed.acc.emitted >= o BY <1>11, <1>13
<1>16. AccTypes(m, fed.acc)
  <2> DEFINE a == fed.acc.parts
             b == fed.acc.seenFinal
             c == fed.acc.emitted
             d == fed.acc.shortDone
  <2>1. fed.acc = [parts |-> a, seenFinal |-> b, emitted |-> c, shortDone |-> d] BY <1>12
  <2>2. a \in SUBSET DOMAIN Batches[m] /\ b \in BOOLEAN /\ c \in Nat /\ d \in BOOLEAN
    BY <1>1, <1>13, <1>14, <1>15
  <2> HIDE DEF a, b, c, d
  <2> QED BY <2>1, <2>2 DEF AccTypes
<1> QED BY <1>10, <1>15, <1>16 DEF fed

LEMMA DenseBegins ==
  ASSUME NEW m \in Keys, NEW parts \in SUBSET DOMAIN Batches[m]
  PROVE  LET front == Joined(m, Dense(parts)) IN
         front \in Texts /\ Begins(front, Text[m]) /\ Begins(front, Joined(m, parts))
<1>1. Dense(parts) \in SUBSET DOMAIN Batches[m] BY DEF Dense
<1>2. Joined(m, Dense(parts)) \in Texts /\ Joined(m, parts) \in Texts BY <1>1, JoinedIs
<1>3. CASE Dense(parts) = {}
  <2> DEFINE front == Joined(m, {})
  <2>1. Len(front) = 0 BY NothingJoined
  <2>2. Len(Text[m]) \in Nat /\ Len(Joined(m, parts)) \in Nat BY <1>2, BatchesAre DEF Texts
  <2> HIDE DEF front
  <2>3. Begins(front, Text[m]) /\ Begins(front, Joined(m, parts)) BY <2>1, <2>2 DEF Begins
  <2> QED BY <1>2, <1>3, <2>3 DEF front
<1>4. ASSUME NEW d \in parts, Dense(parts) = 1..d
      PROVE  Begins(Joined(m, Dense(parts)), Text[m])
             /\ Begins(Joined(m, Dense(parts)), Joined(m, parts))
  <2>1. 1..d \subseteq parts BY <1>4 DEF Dense
  <2>2. d \in DOMAIN Batches[m] OBVIOUS
  <2>3. Begins(Joined(m, 1..d), Text[m]) BY <2>2, FrontJoined
  <2>4. Begins(Joined(m, 1..d), Joined(m, parts)) BY <2>1, JoinedBegins
  <2> QED BY <1>4, <2>3, <2>4
<1> QED BY <1>2, <1>3, <1>4, DenseIs

\* The lines that a batch may speak before the final one are lines of the message.
LEMMA FrontSpeakable ==
  ASSUME NEW m \in Keys, NEW k \in DOMAIN Batches[m], NEW parts \in SUBSET DOMAIN Batches[m]
  PROVE  LET text == Shown(m, k, parts)
             n    == Speakable(m, parts, text, FALSE) IN
         /\ n \in 0..Count(Text[m])
         /\ \A i \in 1..n : Quotes(text, FALSE)[i].text = Quotes(Text[m], TRUE)[i].text
<1> DEFINE text == Shown(m, k, parts)
           n    == Speakable(m, parts, text, FALSE)
           front == Joined(m, Dense(parts))
<1>1. Text[m] \in Texts /\ text \in Texts BY ShownType, BatchesAre
<1>2. Count(Text[m]) \in Nat /\ Count(text) \in Nat BY <1>1, StartsAre
<1>3. front \in Texts /\ Begins(front, Text[m]) /\ Begins(front, Joined(m, parts))
  BY DenseBegins
<1>4. /\ n \in 0..Ended(text)
      /\ Dense(parts) # parts => n <= Ended(front)
  BY <1>1, SpeakableIs DEF Ended
<1>5. Ended(text) \in Nat /\ Ended(text) <= Count(text) /\ Ended(front) \in Nat
      /\ Ended(front) <= Count(front) /\ Count(front) \in Nat
  <2>1. Ended(text) \in 0..Count(text) /\ Ended(front) \in 0..Count(front) /\ Count(front) \in Nat
    BY <1>1, <1>3, EndedIs, StartsAre
  <2> HIDE DEF text, front
  <2> QED BY <1>2, <2>1
<1> HIDE DEF n
<1>6. CASE Begins(text, Text[m])
  <2>1. /\ Count(text) <= Count(Text[m])
        /\ \A i \in 1..Ended(text) : Quotes(Text[m], TRUE)[i].text = Quotes(text, FALSE)[i].text
    BY <1>1, <1>6, QuotesStay
  <2> HIDE DEF text, front
  <2>2. n \in 0..Count(Text[m]) BY <1>2, <1>4, <1>5, <2>1
  <2>3. \A i \in 1..n : i \in 1..Ended(text) BY <1>4, <1>5
  <2>4. \A i \in 1..n : Quotes(text, FALSE)[i].text = Quotes(Text[m], TRUE)[i].text
    BY <2>1, <2>3
  <2> QED BY <2>2, <2>4 DEF n, text
<1>7. CASE Begins(front, text) /\ Dense(parts) # parts
  <2>1. /\ Count(front) <= Count(Text[m])
        /\ \A i \in 1..Ended(front) : Quotes(Text[m], TRUE)[i].text = Quotes(front, FALSE)[i].text
    BY <1>1, <1>3, QuotesStay
  <2>2. \A i \in 1..Ended(front) : Quotes(text, FALSE)[i].text = Quotes(front, FALSE)[i].text
    BY <1>1, <1>3, <1>7, QuotesStay
  <2>3. n <= Ended(front) BY <1>4, <1>7
  <2> HIDE DEF text, front
  <2>4. n \in 0..Count(Text[m]) BY <1>2, <1>4, <1>5, <2>1, <2>3
  <2>5. \A i \in 1..n : i \in 1..Ended(front) BY <1>4, <1>5, <2>3
  <2>6. \A i \in 1..n : Quotes(text, FALSE)[i].text = Quotes(Text[m], TRUE)[i].text
    BY <2>1, <2>2, <2>5
  <2> QED BY <2>4, <2>6 DEF n, text
<1>8. CASE Batches[m][k].whole
  <2>1. text = SubSeq(Text[m], 1, UpTo(m, k)) BY <1>8 DEF Shown, UpTo
  <2>2. Begins(text, Text[m]) BY <2>1, SnapshotBegins
  <2> QED BY <1>6, <2>2
<1>9. CASE ~Batches[m][k].whole
  <2>1. text = Joined(m, parts) BY <1>9 DEF Shown
  <2>2. Dense(parts) = parts => Begins(text, Text[m]) BY <1>3, <2>1
  <2> QED BY <1>3, <1>6, <1>7, <2>1, <2>2
<1> QED BY <1>8, <1>9

LEMMA BeginsEqual ==
  ASSUME NEW s \in Texts, NEW t \in Texts, Begins(s, t), Len(s) = Len(t)
  PROVE  s = t
BY SeqEqual DEF Begins, Texts

\* The final batch shows the text.
LEMMA FinalShows ==
  ASSUME NEW m \in Keys, NEW k \in DOMAIN Batches[m], IsFinal(m, k), NEW parts,
         Batches[m][k].whole \/ parts = DOMAIN Batches[m]
  PROVE  Shown(m, k, parts) = Text[m]
<1>1. Text[m] \in Texts /\ UpTo(m, k) = Len(Text[m]) BY BatchesAre
<1>2. CASE Batches[m][k].whole
  <2>1. Shown(m, k, parts) = SubSeq(Text[m], 1, UpTo(m, k)) BY <1>2 DEF Shown, UpTo
  <2> QED BY <1>1, <2>1, SubSeqFull DEF Texts
<1>3. CASE ~Batches[m][k].whole
  <2>1. parts = 1..k BY <1>3, BatchesAre DEF IsFinal
  <2>2. Shown(m, k, parts) = Joined(m, 1..k) BY <1>3, <2>1 DEF Shown
  <2>3. Joined(m, 1..k) \in Texts
    <3>1. 1..k \in SUBSET DOMAIN Batches[m] BY <1>3, <2>1
    <3> QED BY <3>1, JoinedIs
  <2>4. Joined(m, 1..k) = Text[m] BY <1>1, <2>3, FrontJoined, BeginsEqual
  <2> QED BY <2>2, <2>4
<1> QED BY <1>2, <1>3

QuoteOf(m, n) == Quotes(Text[m], TRUE)[n].text

Chunks(m, done) == {k \in done : ~Batches[m][k].whole}

\* The accumulator of a message whose batches in done have been fed.
AccOK(m, acc, done) ==
  /\ AccTypes(m, acc) /\ acc.emitted <= Count(Text[m])
  /\ acc.seenFinal <=> Len(Batches[m]) \in done
  /\ acc.seenFinal =>
       /\ acc.parts = {} /\ acc.emitted = Count(Text[m])
       /\ Count(Text[m]) = 0 => acc.shortDone
  /\ ~acc.seenFinal => acc.parts = Chunks(m, done) /\ ~acc.shortDone

\* What a batch that keeps the order of its message selects.
TellsShort(m, acc, fed) ==
  /\ Count(Text[m]) = 0 /\ ~acc.shortDone /\ fed.acc.shortDone
  /\ fed.speak = IF Blank(Text[m]) THEN <<>> ELSE <<Text[m]>>

TellsQuotes(m, acc, fed, digests) ==
  /\ fed.acc.shortDone <=> acc.shortDone
  /\ fed.speak = IF digests
                   THEN [n \in 1..(fed.acc.emitted - acc.emitted) |-> QuoteOf(m, acc.emitted + n)]
                   ELSE <<>>

Selects(m, k, acc, done, digests) ==
  LET fed == Feed(acc, m, k, digests) IN
  /\ AccOK(m, fed.acc, done \cup {k})
  /\ TellsShort(m, acc, fed) \/ TellsQuotes(m, acc, fed, digests)

LEMMA LinesEqual ==
  ASSUME NEW o \in Nat, NEW upTo \in Nat, NEW quotes, NEW m,
         \A i \in 1..upTo : quotes[i].text = QuoteOf(m, i)
  PROVE  [n \in 1..(upTo - o) |-> quotes[o + n].text] =
           [n \in 1..(Max2(upTo, o) - o) |-> QuoteOf(m, o + n)]
<1>1. CASE upTo > o
  <2>1. Max2(upTo, o) = upTo BY <1>1 DEF Max2
  <2>2. \A n \in 1..(upTo - o) : quotes[o + n].text = QuoteOf(m, o + n) OBVIOUS
  <2> QED BY <2>1, <2>2
<1>2. CASE ~(upTo > o)
  <2>1. Max2(upTo, o) - o = 0 BY <1>2 DEF Max2
  <2>2. 1..(upTo - o) = {} /\ 1..0 = {} BY <1>2
  <2> QED BY <2>1, <2>2
<1> QED BY <1>1, <1>2

\* A batch before the final one: the lines it completes at the front.
LEMMA FeedOpen ==
  ASSUME NEW m \in Keys, NEW k \in DOMAIN Batches[m], NEW done \in SUBSET DOMAIN Batches[m],
         NEW acc, AccOK(m, acc, done), ~acc.seenFinal, ~IsFinal(m, k), NEW digests \in BOOLEAN
  PROVE  Selects(m, k, acc, done, digests)
<1> DEFINE fed == Feed(acc, m, k, digests)
           parts == Parts(acc, m, k)
           text == TextOf(acc, m, k)
           quotes == QuotesOf(acc, m, k)
           upTo == Spoken(acc, m, k)
           o == acc.emitted
<1>1. parts \in SUBSET DOMAIN Batches[m] /\ o \in Nat /\ Final(acc, m, k) = FALSE
  BY DEF Parts, Final, AccOK, AccTypes
<1>2. text = Shown(m, k, parts) /\ quotes = Quotes(text, FALSE)
      /\ upTo = Speakable(m, parts, text, FALSE)
  BY <1>1 DEF TextOf, QuotesOf, Spoken
<1>3. /\ upTo \in 0..Count(Text[m])
      /\ \A i \in 1..upTo : quotes[i].text = QuoteOf(m, i)
  <2>1. upTo \in 0..Count(Text[m]) BY <1>1, <1>2, FrontSpeakable
  <2>2. \A i \in 1..upTo : quotes[i].text = Quotes(Text[m], TRUE)[i].text
    <3>1. \A i \in 1..Speakable(m, parts, Shown(m, k, parts), FALSE) :
            Quotes(Shown(m, k, parts), FALSE)[i].text = Quotes(Text[m], TRUE)[i].text
      BY <1>1, FrontSpeakable
    <3> HIDE DEF upTo, quotes, text, parts
    <3> QED BY <1>2, <3>1
  <2> QED BY <2>1, <2>2 DEF QuoteOf
<1>4. Count(Text[m]) \in Nat BY StartsAre, BatchesAre
<1>5. ~IsShort(acc, m, k) BY <1>1 DEF IsShort
<1>6. AccTypes(m, fed.acc) BY FeedTypes DEF AccOK
<1>7. fed.acc.parts = parts /\ fed.acc.emitted = Max2(upTo, o)
  <2>1. ~Final(acc, m, k) BY <1>1
  <2>2. fed.acc.emitted = Max2(upTo, o) BY FeedIs DEF Emitted
  <2>3. fed.acc.parts = IF Final(acc, m, k) /\ Emitted(acc, m, k) >= Len(QuotesOf(acc, m, k))
                          THEN {} ELSE parts
    BY FeedParts
  <2> HIDE DEF fed, parts
  <2>4. fed.acc.parts = parts BY <2>1, <2>3
  <2> QED BY <2>2, <2>4
<1>8. ~fed.acc.seenFinal /\ ~acc.shortDone /\ ~fed.acc.shortDone
  BY <1>1, <1>5, FeedFlags DEF AccOK
<1>9. parts = Chunks(m, done \cup {k})
  BY DEF Parts, Chunks, AccOK
<1>10. Len(Batches[m]) \notin done \cup {k} BY DEF AccOK, IsFinal
<1>11. fed.acc.emitted <= Count(Text[m])
  <2> HIDE DEF upTo
  <2> QED BY <1>1, <1>3, <1>4, <1>7 DEF Max2, AccOK
<1>12. AccOK(m, fed.acc, done \cup {k})
  <2> HIDE DEF fed
  <2> QED BY <1>6, <1>7, <1>8, <1>9, <1>10, <1>11 DEF AccOK
<1>13. fed.speak = IF digests THEN [n \in 1..(upTo - o) |-> quotes[o + n].text] ELSE <<>>
  BY <1>5, FeedQuotes
<1>14. [n \in 1..(upTo - o) |-> quotes[o + n].text] =
         [n \in 1..(fed.acc.emitted - o) |-> QuoteOf(m, o + n)]
  <2> HIDE DEF upTo, quotes, fed
  <2>1. upTo \in Nat BY <1>3, <1>4
  <2>2. o \in Nat /\ \A i \in 1..upTo : quotes[i].text = QuoteOf(m, i) BY <1>1, <1>3
  <2> HIDE DEF o
  <2>3. [n \in 1..(upTo - o) |-> quotes[o + n].text] =
          [n \in 1..(Max2(upTo, o) - o) |-> QuoteOf(m, o + n)]
    BY ONLY <2>1, <2>2, LinesEqual
  <2>4. Max2(upTo, o) = fed.acc.emitted BY <1>7 DEF o
  <2> QED BY <2>3, <2>4
<1>15. TellsQuotes(m, acc, fed, digests)
  <2> HIDE DEF fed, upTo, quotes
  <2> QED BY <1>8, <1>13, <1>14 DEF TellsQuotes
<1> QED BY <1>12, <1>15 DEF Selects

\* The final batch of a message shows its text: what is left of its lines, or
\* the text itself when it has none.
LEMMA FeedLast ==
  ASSUME NEW m \in Keys, NEW k \in DOMAIN Batches[m], NEW done \in SUBSET DOMAIN Batches[m],
         NEW acc, AccOK(m, acc, done), ~acc.seenFinal, IsFinal(m, k), NEW digests \in BOOLEAN,
         ~Batches[m][k].whole => 1..(k - 1) \subseteq done
  PROVE  Selects(m, k, acc, done, digests)
<1> DEFINE fed == Feed(acc, m, k, digests)
           quotes == QuotesOf(acc, m, k)
           upTo == Spoken(acc, m, k)
           o == acc.emitted
           c == Count(Text[m])
<1>1. /\ o \in Nat /\ c \in Nat /\ o <= c /\ ~acc.shortDone /\ Final(acc, m, k)
      /\ Text[m] \in Texts
  BY StartsAre, BatchesAre DEF AccOK, AccTypes, Final
<1>2. Batches[m][k].whole \/ Parts(acc, m, k) = DOMAIN Batches[m]
  <2> SUFFICES ASSUME ~Batches[m][k].whole PROVE Parts(acc, m, k) = DOMAIN Batches[m]
    OBVIOUS
  <2>1. \A j \in DOMAIN Batches[m] : ~Batches[m][j].whole BY BatchesAre
  <2>2. Parts(acc, m, k) = done \cup {k} BY <2>1 DEF Parts, AccOK, Chunks
  <2>3. DOMAIN Batches[m] = 1..k /\ k \in Nat BY BatchesAre DEF IsFinal
  <2>4. 1..(k - 1) \subseteq done OBVIOUS
  <2>5. \A j \in 1..k : j \in 1..(k - 1) \/ j = k BY <2>3
  <2> QED BY <2>2, <2>3, <2>4, <2>5
<1>3. TextOf(acc, m, k) = Text[m] BY <1>2, FinalShows DEF TextOf
<1>4. quotes = Quotes(Text[m], TRUE) BY <1>1, <1>3 DEF QuotesOf
<1>5. upTo = c
  <2>1. upTo = Leading(Quotes(Text[m], TRUE)) BY <1>1, <1>3 DEF Spoken, Speakable
  <2>2. Leading(Quotes(Text[m], TRUE)) = Count(Text[m]) BY <1>1, LeadingIs
  <2> QED BY <2>1, <2>2
<1>6. Len(quotes) = c /\ (quotes = <<>> <=> c = 0) BY <1>1, <1>4, QuotesAre
<1>7. IsShort(acc, m, k) <=> c = 0 BY <1>1, <1>6 DEF IsShort
<1>8. AccTypes(m, fed.acc) BY FeedTypes DEF AccOK
<1>9. fed.acc.emitted = c
  <2>1. fed.acc.emitted = Max2(upTo, o) BY FeedIs DEF Emitted
  <2> HIDE DEF fed, upTo, c
  <2> QED BY <1>1, <1>5, <2>1 DEF Max2
<1>10. fed.acc.parts = {}
  <2>1. Emitted(acc, m, k) >= Len(quotes)
    <3> HIDE DEF c, o
    <3>1. Max2(c, o) >= c BY <1>1 DEF Max2
    <3>2. Emitted(acc, m, k) = Max2(c, o) BY <1>5 DEF Emitted, o
    <3> QED BY <1>6, <3>1, <3>2
  <2> QED BY <1>1, <2>1, FeedParts
<1>11. fed.acc.seenFinal /\ (fed.acc.shortDone <=> c = 0) BY <1>1, <1>7, FeedFlags
<1>12. Len(Batches[m]) \in done \cup {k} BY DEF IsFinal
<1>13. AccOK(m, fed.acc, done \cup {k})
  <2> HIDE DEF fed
  <2> QED BY <1>1, <1>8, <1>9, <1>10, <1>11, <1>12 DEF AccOK
<1>14. ASSUME ~IsShort(acc, m, k) \/ Blank(Text[m])
       PROVE  fed.speak = IF digests THEN [n \in 1..(c - o) |-> quotes[o + n].text] ELSE <<>>
  BY <1>3, <1>5, <1>14, FeedQuotes
<1>15. CASE c = 0
  <2>1. fed.speak = IF Blank(Text[m]) THEN <<>> ELSE <<Text[m]>>
    <3>1. CASE ~Blank(Text[m]) BY <1>3, <1>7, <1>15, <3>1, FeedShort
    <3>2. CASE Blank(Text[m])
      <4>1. fed.speak = IF digests THEN [n \in 1..(c - o) |-> quotes[o + n].text] ELSE <<>>
        BY <1>14, <3>2
      <4>2. 1..(c - o) = {} BY <1>1, <1>15
      <4> HIDE DEF fed, c, o, quotes
      <4>3. [n \in 1..(c - o) |-> quotes[o + n].text] = <<>> BY <4>2
      <4> QED BY <3>2, <4>1, <4>3
    <3> QED BY <3>1, <3>2
  <2>2. TellsShort(m, acc, fed)
    <3> HIDE DEF fed
    <3> QED BY <1>1, <1>11, <1>15, <2>1 DEF TellsShort
  <2> QED BY <1>13, <2>2 DEF Selects
<1>16. CASE c # 0
  <2>1. fed.speak = IF digests THEN [n \in 1..(c - o) |-> quotes[o + n].text] ELSE <<>>
    BY <1>7, <1>14, <1>16
  <2>2. [n \in 1..(c - o) |-> quotes[o + n].text] = [n \in 1..(c - o) |-> QuoteOf(m, o + n)]
    BY <1>4 DEF QuoteOf
  <2>3. TellsQuotes(m, acc, fed, digests)
    <3> HIDE DEF fed, c, quotes
    <3> QED BY <1>1, <1>9, <1>11, <1>16, <2>1, <2>2 DEF TellsQuotes
  <2> QED BY <1>13, <2>3 DEF Selects
<1> QED BY <1>15, <1>16

\* A batch of a message that is closed shows more than was selected.
TellsAgain(m, k, acc) ==
  LET shown == Quotes(Shown(m, k, {k}), TRUE)
  IN  acc.seenFinal /\ IF shown = <<>> THEN ~acc.shortDone ELSE Len(shown) > acc.emitted

\* If it does not, it selects nothing.
LEMMA FeedLate ==
  ASSUME NEW m \in Keys, NEW k \in DOMAIN Batches[m], NEW done \in SUBSET DOMAIN Batches[m],
         NEW acc, AccOK(m, acc, done), acc.seenFinal, ~TellsAgain(m, k, acc),
         NEW digests \in BOOLEAN
  PROVE  Selects(m, k, acc, done, digests)
<1> DEFINE fed == Feed(acc, m, k, digests)
           quotes == QuotesOf(acc, m, k)
           text == TextOf(acc, m, k)
           upTo == Spoken(acc, m, k)
           o == acc.emitted
           c == Count(Text[m])
<1>1. /\ o \in Nat /\ o = c /\ Final(acc, m, k) /\ acc.parts = {}
      /\ c = 0 => acc.shortDone
  BY StartsAre, BatchesAre DEF AccOK, AccTypes, Final
<1>2. text = Shown(m, k, {k}) BY <1>1 DEF TextOf, Parts, Shown
<1>3. text \in Texts
  <2>1. {k} \in SUBSET DOMAIN Batches[m] OBVIOUS
  <2> QED BY <1>2, <2>1, ShownType
<1>4. quotes = Quotes(Shown(m, k, {k}), TRUE) BY <1>1, <1>2 DEF QuotesOf
<1>5. Count(text) \in Nat /\ Len(quotes) = Count(text) /\ (quotes = <<>> <=> Count(text) = 0)
  <2>1. quotes = Quotes(text, TRUE) BY <1>2, <1>4
  <2>2. Count(text) \in Nat BY <1>3, StartsAre
  <2> HIDE DEF text, quotes
  <2> QED BY <1>3, <2>1, <2>2, QuotesAre
<1>6. upTo = Count(text)
  <2>1. upTo = Leading(Quotes(text, TRUE)) BY <1>1 DEF Spoken, Speakable
  <2>2. Leading(Quotes(text, TRUE)) = Count(text) BY <1>3, LeadingIs
  <2> QED BY <2>1, <2>2
<1>7. ~IsShort(acc, m, k) /\ Len(quotes) <= o
  <2>1. IF quotes = <<>> THEN acc.shortDone ELSE ~(Len(quotes) > o)
    BY <1>4 DEF TellsAgain
  <2>2. CASE quotes = <<>>
    <3>1. Len(quotes) = 0 BY <1>5, <2>2
    <3> QED BY <1>1, <2>1, <2>2, <3>1 DEF IsShort
  <2>3. CASE quotes # <<>>
    <3> HIDE DEF quotes, text
    <3>1. ~(Len(quotes) > o) /\ Len(quotes) \in Nat BY <1>5, <2>1, <2>3
    <3>2. Len(quotes) <= o BY <1>1, <3>1
    <3> QED BY <2>3, <3>2 DEF IsShort, quotes
  <2> QED BY <2>2, <2>3
<1>8. AccTypes(m, fed.acc) BY FeedTypes DEF AccOK
<1>9. Emitted(acc, m, k) = o
  <2>1. Emitted(acc, m, k) = Max2(Count(text), o) BY <1>6 DEF Emitted
  <2>2. Count(text) <= o /\ Count(text) \in Nat BY <1>5, <1>7
  <2> HIDE DEF text, o, c
  <2> QED BY <1>1, <2>1, <2>2 DEF Max2
<1>10. fed.acc.emitted = c
  <2>1. fed.acc.emitted = Emitted(acc, m, k) BY FeedIs
  <2> QED BY <1>1, <1>9, <2>1
<1>11. fed.acc.parts = {}
  <2>1. Emitted(acc, m, k) >= Len(quotes)
    <3> HIDE DEF quotes, c, text
    <3> QED BY <1>1, <1>5, <1>7, <1>9
  <2> QED BY <1>1, <2>1, FeedParts
<1>12. fed.acc.seenFinal /\ (fed.acc.shortDone <=> acc.shortDone) BY <1>1, <1>7, FeedFlags
<1>13. Len(Batches[m]) \in done \cup {k} BY DEF AccOK
<1>14. AccOK(m, fed.acc, done \cup {k})
  <2> HIDE DEF fed
  <2> QED BY <1>1, <1>8, <1>10, <1>11, <1>12, <1>13 DEF AccOK
<1>15. fed.speak = IF digests THEN [n \in 1..(upTo - o) |-> quotes[o + n].text] ELSE <<>>
  BY <1>7, FeedQuotes
<1>16. 1..(upTo - o) = {} /\ 1..(c - o) = {}
  <2> HIDE DEF quotes, c, text, upTo, o
  <2> QED BY <1>1, <1>5, <1>6, <1>7
<1>17. [n \in 1..(upTo - o) |-> quotes[o + n].text] = [n \in 1..(c - o) |-> QuoteOf(m, o + n)]
  <2> HIDE DEF quotes, c, text, upTo, o
  <2> QED BY <1>16
<1>18. TellsQuotes(m, acc, fed, digests)
  <2> HIDE DEF fed, c, quotes, upTo
  <2> QED BY <1>10, <1>12, <1>15, <1>17 DEF TellsQuotes
<1> QED BY <1>14, <1>18 DEF Selects

\* Every batch that does not leave a hole or tell again.
LEMMA FeedKeeps ==
  ASSUME NEW m \in Keys, NEW k \in DOMAIN Batches[m], NEW done \in SUBSET DOMAIN Batches[m],
         NEW acc, AccOK(m, acc, done), ~TellsAgain(m, k, acc), NEW digests \in BOOLEAN,
         IsFinal(m, k) /\ ~Batches[m][k].whole => 1..(k - 1) \subseteq done
  PROVE  Selects(m, k, acc, done, digests)
BY FeedOpen, FeedLast, FeedLate

-----------------------------------------------------------------------------
(* The marks of a message, and those of its pending lines.                 *)

LEMMA MarksAre ==
  ASSUME NEW m \in Keys
  PROVE  /\ Count(Text[m]) # 0 => Marks(m) = 1..Count(Text[m])
         /\ Count(Text[m]) = 0 => Marks(m) = IF Blank(Text[m]) THEN {} ELSE {Short}
         /\ Marks(m) \in SUBSET Nat /\ Count(Text[m]) \in Nat
<1> DEFINE quotes == Quotes(Text[m], TRUE)
<1>1. /\ DOMAIN quotes = 1..Count(Text[m]) /\ (quotes = <<>> <=> Count(Text[m]) = 0)
      /\ Count(Text[m]) \in Nat
  BY BatchesAre, QuotesAre, StartsAre
<1>2. Marks(m) = IF quotes # <<>> THEN DOMAIN quotes ELSE IF Blank(Text[m]) THEN {} ELSE {Short}
  BY DEF Marks, Blank
<1> HIDE DEF quotes
<1> QED BY <1>1, <1>2 DEF Short

LEMMA LineType ==
  ASSUME NEW m \in Keys, NEW n \in Marks(m)
  PROVE  Line(m, n) \in Utterances /\ Line(m, n).after = n /\ Line(m, n).key = m
<1>1. Text[m] \in Texts /\ n \in Nat BY BatchesAre, MarksAre
<1>2. CASE n = Short BY <1>1, <1>2 DEF Line, Utterances, Texts
<1>3. CASE n # Short
  <2>1. n \in 1..Count(Text[m]) BY <1>3, MarksAre
  <2>2. Quotes(Text[m], TRUE)[n].text \in Texts
    <3> DEFINE quotes == Quotes(Text[m], TRUE)
               B == [text : Texts, complete : BOOLEAN]
    <3>1. quotes \in Seq(B) /\ Len(quotes) = Count(Text[m]) BY <1>1, QuotesAre
    <3> HIDE DEF quotes, B
    <3>2. quotes[n] \in B BY <2>1, <3>1, ElementOfSeq
    <3> QED BY <3>2 DEF quotes, B
  <2> DEFINE t == Quotes(Text[m], TRUE)[n].text
  <2>3. Line(m, n) = [key |-> m, after |-> n, text |-> t] BY <1>3 DEF Line
  <2> HIDE DEF t
  <2>4. t \in Texts BY <2>2 DEF t
  <2> QED BY <1>1, <2>3, <2>4 DEF Utterances, Texts
<1> QED BY <1>2, <1>3

\* The marks of the pending lines of m.
MarksOf(state, m) ==
  {state.pending[i].after : i \in {j \in DOMAIN state.pending : state.pending[j].key = m}}

\* Finitely many marks have a greatest one.
LEMMA Bounded ==
  ASSUME NEW c \in Nat, NEW f, \A i \in 1..c : f[i] \in Nat
  PROVE  \E b \in Nat : \A i \in 1..c : f[i] <= b
<1> DEFINE P(n) == \E b \in Nat : \A i \in 1..n : f[i] <= b
           T == {n \in 0..c : ~P(n)}
<1>1. T = {}
  <2> SUFFICES ASSUME T # {} PROVE FALSE OBVIOUS
  <2>1. T \in SUBSET Nat OBVIOUS
  <2>2. PICK n \in T : \A j \in T : n <= j
    <3> HIDE DEF T
    <3> QED BY <2>1, Least
  <2>3. n \in 0..c /\ ~P(n) BY <2>2
  <2>4. P(0)
    <3>1. 0 \in Nat /\ \A i \in 1..0 : f[i] <= 0 OBVIOUS
    <3> QED BY <3>1
  <2> HIDE DEF P
  <2>5. n # 0 BY <2>3, <2>4
  <2>6. n - 1 \in 0..c /\ ~(n <= n - 1) /\ n \in 1..c
    <3> HIDE DEF T
    <3> QED BY <2>3, <2>5
  <2>7. n - 1 \notin T
    <3> HIDE DEF T
    <3> QED BY <2>2, <2>6
  <2>8. P(n - 1) BY <2>6, <2>7
  <2> HIDE DEF T
  <2>9. PICK b \in Nat : \A i \in 1..(n - 1) : f[i] <= b BY <2>8 DEF P
  <2>10. PICK d \in Nat : b <= d /\ f[n] <= d
    <3>1. b + f[n] \in Nat /\ b <= b + f[n] /\ f[n] <= b + f[n] BY <2>6
    <3> QED BY <3>1
  <2>11. \A i \in 1..n : f[i] <= d
    <3> TAKE i \in 1..n
    <3>1. CASE i = n BY <2>10, <3>1
    <3>2. CASE i # n
      <4>1. i \in 1..(n - 1) /\ i \in 1..c BY <2>6, <3>2
      <4>2. f[i] <= b /\ f[i] \in Nat BY <2>9, <4>1
      <4> QED BY <2>10, <4>2
    <3> QED BY <3>1, <3>2
  <2>12. P(n) BY <2>11 DEF P
  <2> QED BY <2>3, <2>12
<1> HIDE DEF P
<1>2. P(c) BY <1>1
<1> QED BY <1>2 DEF P

\* A state of which file and mem are instances, whatever its message.
StateTypes(state) ==
  /\ state \in States
  /\ IF state.key = NoKey THEN state.offset = 0 /\ state.parts = {}
     ELSE state.parts \subseteq DOMAIN Batches[state.key]

LEMMA MarksOfType ==
  ASSUME NEW state \in States, NEW m
  PROVE  /\ MarksOf(state, m) \in SUBSET Nat
         /\ \E b \in Nat : \A x \in MarksOf(state, m) : x <= b
<1> DEFINE s == state.pending
           f == [i \in DOMAIN s |-> s[i].after]
<1>1. s \in Seq(Utterances) BY DEF States
<1> HIDE DEF s
<1>2. DOMAIN s = 1..Len(s) /\ Len(s) \in Nat BY <1>1
<1>3. \A i \in DOMAIN s : s[i].after \in Nat
  <2> TAKE i \in DOMAIN s
  <2>1. s[i] \in Utterances BY <1>1, <1>2, ElementOfSeq
  <2> QED BY <2>1 DEF Utterances
<1>4. \A i \in 1..Len(s) : f[i] = s[i].after /\ f[i] \in Nat BY <1>2, <1>3
<1> HIDE DEF f
<1>5. PICK b \in Nat : \A i \in 1..Len(s) : f[i] <= b BY <1>2, <1>4, Bounded
<1>6. \A i \in DOMAIN s : s[i].after <= b BY <1>2, <1>4, <1>5
<1>7. MarksOf(state, m) = {s[i].after : i \in {j \in DOMAIN s : s[j].key = m}}
  BY DEF MarksOf, s
<1>8. MarksOf(state, m) \in SUBSET Nat BY <1>3, <1>7
<1>9. \A x \in MarksOf(state, m) : x <= b BY <1>6, <1>7
<1> QED BY <1>8, <1>9

\* What a saved state and its pending lines say of a message.
LEMMA ShadowIs ==
  ASSUME NEW state \in States
  PROVE  LET s == Shadow(state) IN
         /\ s.key = state.key /\ s.parts = state.parts /\ s.seenFinal = state.seenFinal
         /\ s.offset \in {state.offset} \cup MarksOf(state, state.key)
         /\ s.offset \in Nat /\ state.offset <= s.offset
         /\ \A x \in MarksOf(state, state.key) : x <= s.offset
         /\ s.shortDone = (state.shortDone \/ Short \in MarksOf(state, state.key))
<1> DEFINE marks == {u.after : u \in {v \in ToSet(state.pending) : v.key = state.key}}
           all == {state.offset} \cup marks
<1>1. marks = MarksOf(state, state.key) BY DEF MarksOf, ToSet
<1>2. /\ DOMAIN state = {"offset", "key", "parts", "seenFinal", "shortDone", "gateMsg",
                         "gateOn", "pending"}
      /\ state.offset \in Nat
  BY DEF States
<1>3. Shadow(state) = [state EXCEPT !.offset = Max(all),
                                    !.shortDone = state.shortDone \/ Short \in marks]
  BY DEF Shadow
<1>4. all \in SUBSET Nat /\ \E b \in Nat : \A x \in all : x <= b
  <2>1. PICK b \in Nat : \A x \in marks : x <= b BY <1>1, MarksOfType
  <2>2. marks \in SUBSET Nat BY <1>1, MarksOfType
  <2> HIDE DEF marks
  <2> DEFINE o == state.offset
  <2>3. o \in Nat /\ all = {o} \cup marks BY <1>2
  <2> HIDE DEF o, all
  <2>4. b + o \in Nat /\ \A x \in all : x <= b + o BY <2>1, <2>2, <2>3
  <2>5. all \in SUBSET Nat BY <2>2, <2>3
  <2> QED BY <2>4, <2>5
<1>5. Max(all) \in all /\ \A x \in all : x <= Max(all)
  <2>1. all # {} OBVIOUS
  <2> HIDE DEF all
  <2> QED BY <1>4, <2>1, MaxIs
<1>6. Max(all) \in Nat BY <1>4, <1>5
<1>7. /\ Shadow(state).key = state.key /\ Shadow(state).parts = state.parts
      /\ Shadow(state).seenFinal = state.seenFinal /\ Shadow(state).offset = Max(all)
  BY <1>2, <1>3
<1>8. Shadow(state).shortDone = (state.shortDone \/ Short \in marks)
  BY <1>2, <1>3
<1> HIDE DEF marks
<1> QED BY <1>1, <1>5, <1>6, <1>7, <1>8

\* What counts as selected of m in a saved state.
AccOf(state, m) == AccumOf(Shadow(state), m)

LEMMA AccOfOther ==
  ASSUME NEW state \in States, NEW m, state.key # m
  PROVE  AccOf(state, m) = Accum0 /\ AccumOf(state, m) = Accum0
<1>1. Shadow(state).key = state.key BY ShadowIs
<1> QED BY <1>1 DEF AccOf, AccumOf

LEMMA AccOfOwn ==
  ASSUME NEW state \in States, NEW m, state.key = m
  PROVE  LET acc == AccOf(state, m) IN
         /\ acc = [parts |-> acc.parts, seenFinal |-> acc.seenFinal,
                   emitted |-> acc.emitted, shortDone |-> acc.shortDone]
         /\ acc.parts = state.parts /\ acc.seenFinal = state.seenFinal
         /\ acc.emitted \in Nat /\ acc.emitted \in {state.offset} \cup MarksOf(state, m)
         /\ state.offset <= acc.emitted /\ \A x \in MarksOf(state, m) : x <= acc.emitted
         /\ acc.shortDone = (state.shortDone \/ Short \in MarksOf(state, m))
<1> DEFINE s == Shadow(state)
<1>1. /\ s.key = m /\ s.parts = state.parts /\ s.seenFinal = state.seenFinal
      /\ s.offset \in {state.offset} \cup MarksOf(state, m)
      /\ s.offset \in Nat /\ state.offset <= s.offset
      /\ \A x \in MarksOf(state, m) : x <= s.offset
  BY ShadowIs
<1>2. s.shortDone = (state.shortDone \/ Short \in MarksOf(state, m)) BY ShadowIs
<1> HIDE DEF s
<1>3. AccOf(state, m) = [parts |-> s.parts, seenFinal |-> s.seenFinal,
                         emitted |-> s.offset, shortDone |-> s.shortDone]
  BY <1>1 DEF AccOf, AccumOf, s
<1>4. /\ AccOf(state, m).parts = s.parts /\ AccOf(state, m).seenFinal = s.seenFinal
      /\ AccOf(state, m).emitted = s.offset /\ AccOf(state, m).shortDone = s.shortDone
  BY <1>3
<1> QED BY <1>1, <1>2, <1>3, <1>4

LEMMA KeysAre == Keys \in SUBSET (Nat \ {0}) /\ NoKey \notin Keys
<1>1. Text \in Seq(Seq(Fragments)) BY NarrationAssumption
<1>2. Keys = 1..Len(Text) /\ Len(Text) \in Nat BY <1>1 DEF Keys
<1> QED BY <1>2 DEF NoKey

LEMMA Accum0Types ==
  ASSUME NEW m
  PROVE  AccTypes(m, Accum0)
BY DEF AccTypes, Accum0

LEMMA AccOfTypes ==
  ASSUME NEW state, StateTypes(state), NEW m \in Keys
  PROVE  AccTypes(m, AccOf(state, m)) /\ AccTypes(m, AccumOf(state, m))
<1>1. CASE state.key # m
  BY <1>1, AccOfOther, Accum0Types DEF StateTypes
<1>2. CASE state.key = m
  <2> DEFINE acc == AccOf(state, m)
  <2>1. m # NoKey BY KeysAre
  <2>2. /\ state.parts \in SUBSET DOMAIN Batches[m] /\ state.seenFinal \in BOOLEAN
        /\ state.offset \in Nat /\ state.shortDone \in BOOLEAN /\ state \in States
    BY <1>2, <2>1 DEF StateTypes, States
  <2>3. /\ acc = [parts |-> acc.parts, seenFinal |-> acc.seenFinal,
                  emitted |-> acc.emitted, shortDone |-> acc.shortDone]
        /\ acc.parts = state.parts /\ acc.seenFinal = state.seenFinal /\ acc.emitted \in Nat
    BY <1>2, <2>2, AccOfOwn
  <2>4. acc.shortDone \in BOOLEAN
    <3>1. acc.shortDone = (state.shortDone \/ Short \in MarksOf(state, m))
      BY <1>2, <2>2, AccOfOwn
    <3> HIDE DEF acc
    <3> QED BY <3>1
  <2>5. AccTypes(m, acc)
    <3> DEFINE a == acc.parts
               b == acc.seenFinal
               c == acc.emitted
               d == acc.shortDone
    <3>1. acc = [parts |-> a, seenFinal |-> b, emitted |-> c, shortDone |-> d] BY <2>3
    <3>2. a \in SUBSET DOMAIN Batches[m] /\ b \in BOOLEAN /\ c \in Nat /\ d \in BOOLEAN
      BY <2>2, <2>3, <2>4
    <3> HIDE DEF a, b, c, d, acc
    <3> QED BY <3>1, <3>2 DEF AccTypes
  <2>6. AccumOf(state, m) = [parts |-> state.parts, seenFinal |-> state.seenFinal,
                             emitted |-> state.offset, shortDone |-> state.shortDone]
    BY <1>2 DEF AccumOf
  <2>7. AccTypes(m, AccumOf(state, m)) BY <2>2, <2>6 DEF AccTypes
  <2> QED BY <2>5, <2>7
<1> QED BY <1>1, <1>2

-----------------------------------------------------------------------------
(* A batch selects lines from the state of its message.                    *)

\* The lines that a batch makes pending.
NewLines(state, m, k, digests) ==
  LET acc == AccOf(state, m)
      fed == Feed(acc, m, k, digests)
  IN  [n \in DOMAIN fed.speak |->
         [key |-> m, text |-> fed.speak[n],
          after |-> IF fed.acc.emitted - acc.emitted = 0 THEN Short ELSE acc.emitted + n]]

FedOf(state, m, k, digests) == Feed(AccOf(state, m), m, k, digests)

LEMMA SelectedIs ==
  ASSUME NEW state, NEW m, NEW k, NEW digests
  PROVE  LET next == Selected(state, m, k, digests) IN
         /\ next = [offset |-> next.offset, key |-> next.key, parts |-> next.parts,
                    seenFinal |-> next.seenFinal, shortDone |-> next.shortDone,
                    gateMsg |-> next.gateMsg, gateOn |-> next.gateOn, pending |-> next.pending]
         /\ next.key = m /\ next.gateMsg = m /\ next.gateOn
BY DEF Selected

LEMMA SelectedParts ==
  ASSUME NEW state, NEW m, NEW k, NEW digests
  PROVE  LET next == Selected(state, m, k, digests)
             fed  == FedOf(state, m, k, digests) IN
         next.parts = fed.acc.parts /\ next.seenFinal = fed.acc.seenFinal
BY DEF Selected, FedOf, AccOf

LEMMA SelectedPending ==
  ASSUME NEW state, NEW m, NEW k, NEW digests
  PROVE  Selected(state, m, k, digests).pending = state.pending \o NewLines(state, m, k, digests)
BY DEF Selected, NewLines, AccOf

LEMMA SelectedOffset ==
  ASSUME NEW state, NEW m, NEW k, NEW digests
  PROVE  Selected(state, m, k, digests).offset =
           IF NewLines(state, m, k, digests) = <<>>
             THEN FedOf(state, m, k, digests).acc.emitted
             ELSE AccumOf(state, m).emitted
BY DEF Selected, FedOf, NewLines, AccOf

LEMMA SelectedShort ==
  ASSUME NEW state, NEW m, NEW k, NEW digests
  PROVE  LET next == Selected(state, m, k, digests)
             fed  == FedOf(state, m, k, digests) IN
         /\ next.shortDone \in BOOLEAN
         /\ next.shortDone <=>
              \/ AccumOf(state, m).shortDone
              \/ /\ fed.acc.shortDone /\ ~AccOf(state, m).shortDone
                 /\ ~\E u \in ToSet(next.pending) : u.key = m /\ u.after = Short
BY DEF Selected, FedOf, AccOf

LEMMA NewLinesAre ==
  ASSUME NEW state, StateTypes(state), NEW m \in Keys, NEW k \in DOMAIN Batches[m],
         NEW digests \in BOOLEAN
  PROVE  LET new   == NewLines(state, m, k, digests)
             fed   == FedOf(state, m, k, digests)
             o     == AccOf(state, m).emitted IN
         /\ new \in Seq(Utterances) /\ Len(new) = Len(fed.speak)
         /\ \A n \in 1..Len(new) :
              new[n] = [key |-> m, text |-> fed.speak[n],
                        after |-> IF fed.acc.emitted - o = 0 THEN Short ELSE o + n]
<1> DEFINE new == NewLines(state, m, k, digests)
           fed == FedOf(state, m, k, digests)
           o == AccOf(state, m).emitted
           speak == fed.speak
           blocks == fed.acc.emitted - o
           u(n) == [key |-> m, text |-> speak[n], after |-> IF blocks = 0 THEN Short ELSE o + n]
<1>1. AccTypes(m, AccOf(state, m)) BY AccOfTypes
<1>2. o \in Nat /\ speak \in Seq(Texts)
  BY <1>1, FeedTypes DEF AccTypes, FedOf
<1>3. new = [n \in DOMAIN speak |-> u(n)] BY DEF NewLines, FedOf
<1> HIDE DEF new, speak, o, blocks
<1>4. DOMAIN speak = 1..Len(speak) /\ Len(speak) \in Nat BY <1>2
<1>5. \A n \in 1..Len(speak) : u(n) \in Utterances
  <2> TAKE n \in 1..Len(speak)
  <2> DEFINE a == IF blocks = 0 THEN Short ELSE o + n
  <2>1. a \in Nat BY <1>2 DEF Short
  <2> HIDE DEF a
  <2>2. speak[n] \in Seq(Fragments) BY <1>2, ElementOfSeq DEF Texts
  <2>3. u(n) = [key |-> m, text |-> speak[n], after |-> a] BY DEF a
  <2> QED BY <2>1, <2>2, <2>3 DEF Utterances
<1>6. \A n \in 1..Len(speak) : new[n] = u(n) BY <1>3, <1>4
<1>7. new \in [1..Len(speak) -> Utterances]
  <2> HIDE DEF u
  <2> QED BY <1>3, <1>4, <1>5
<1>8. new \in Seq(Utterances) /\ Len(new) = Len(speak) BY <1>4, <1>7, FunIsSeq
<1> QED BY <1>6, <1>8 DEF new, speak, o, blocks

LEMMA SelectedTypes ==
  ASSUME NEW state, StateTypes(state), NEW m \in Keys, NEW k \in DOMAIN Batches[m],
         NEW digests \in BOOLEAN
  PROVE  /\ StateTypes(Selected(state, m, k, digests))
         /\ Selected(state, m, k, digests).key = m
<1> DEFINE next == Selected(state, m, k, digests)
           fed == FedOf(state, m, k, digests)
           new == NewLines(state, m, k, digests)
           a == next.offset
           b == next.key
           c == next.parts
           d == next.seenFinal
           e == next.shortDone
           f == next.gateMsg
           g == next.gateOn
           h == next.pending
<1>1. AccTypes(m, AccOf(state, m)) /\ AccTypes(m, AccumOf(state, m)) BY AccOfTypes
<1>2. AccTypes(m, fed.acc) BY <1>1, FeedTypes DEF FedOf
<1>3. new \in Seq(Utterances) BY NewLinesAre
<1>4. state.pending \in Seq(Utterances) BY DEF StateTypes, States
<1>5. next = [offset |-> a, key |-> b, parts |-> c, seenFinal |-> d, shortDone |-> e,
              gateMsg |-> f, gateOn |-> g, pending |-> h]
  BY SelectedIs
<1>6. b = m /\ f = m BY SelectedIs
<1>a. g \in BOOLEAN BY DEF Selected
<1>7. c = fed.acc.parts /\ d = fed.acc.seenFinal BY SelectedParts
<1>8. h = state.pending \o new BY SelectedPending
<1>9. a = IF new = <<>> THEN fed.acc.emitted ELSE AccumOf(state, m).emitted BY SelectedOffset
<1>10. e \in BOOLEAN BY SelectedShort
<1> HIDE DEF next, fed, new, a, b, c, d, e, f, g, h
<1>11. a \in Nat BY <1>1, <1>2, <1>9 DEF AccTypes
<1>12. c \in SUBSET DOMAIN Batches[m] /\ d \in BOOLEAN BY <1>2, <1>7 DEF AccTypes
<1>13. h \in Seq(Utterances) BY <1>3, <1>4, <1>8, ConcatProperties
<1>14. c \in SUBSET Nat BY <1>12, BatchesAre
<1>15. next \in States
  BY <1>5, <1>6, <1>a, <1>10, <1>11, <1>12, <1>13, <1>14 DEF States
<1>16. next.key = m /\ next.parts \subseteq DOMAIN Batches[m] BY <1>5, <1>6, <1>12
<1>17. StateTypes(next) BY <1>15, <1>16, KeysAre DEF StateTypes
<1> QED BY <1>16, <1>17 DEF next

LEMMA GatedIs ==
  ASSUME NEW state, StateTypes(state), NEW m \in Keys
  PROVE  LET next == Gated(state, m) IN
         /\ StateTypes(next) /\ next.key = NoKey /\ next.gateMsg = m /\ ~next.gateOn
         /\ next.pending = state.pending
<1> DEFINE h == state.pending
<1>1. h \in Seq(Utterances) BY DEF StateTypes, States
<1> HIDE DEF h
<1>2. Fresh \in States BY DEF Fresh, States
<1>3. [Fresh EXCEPT !.gateMsg = m] \in States BY <1>2 DEF States
<1>4. Gated(state, m) = [[Fresh EXCEPT !.gateMsg = m] EXCEPT !.pending = h]
  BY DEF Gated, h
<1> DEFINE r == [Fresh EXCEPT !.gateMsg = m]
<1>5. /\ r.key = NoKey /\ r.offset = 0 /\ r.parts = {} /\ r.gateMsg = m /\ ~r.gateOn
  BY DEF Fresh
<1> HIDE DEF r
<1>6. Gated(state, m) = [r EXCEPT !.pending = h] /\ r \in States BY <1>3, <1>4 DEF r
<1>7. Gated(state, m) \in States BY <1>1, <1>6 DEF States
<1>8. /\ Gated(state, m).key = r.key /\ Gated(state, m).offset = r.offset
      /\ Gated(state, m).parts = r.parts /\ Gated(state, m).gateMsg = r.gateMsg
      /\ Gated(state, m).pending = h
  BY <1>6 DEF States
<1>9. Gated(state, m).gateOn = r.gateOn BY <1>6 DEF States
<1>10. ~Gated(state, m).gateOn BY <1>5, <1>9
<1> HIDE DEF Gated
<1> QED BY <1>5, <1>7, <1>8, <1>10 DEF StateTypes, h

\* More pending lines, more marks.
LEMMA MarksOfMore ==
  ASSUME NEW state \in States, NEW new \in Seq(Utterances), NEW m, NEW next,
         next.pending = state.pending \o new, \A n \in 1..Len(new) : new[n].key = m
  PROVE  MarksOf(next, m) = MarksOf(state, m) \cup {new[n].after : n \in 1..Len(new)}
<1> DEFINE s == state.pending
           t == next.pending
<1>1. s \in Seq(Utterances) BY DEF States
<1>2. t = s \o new OBVIOUS
<1>3. /\ MarksOf(next, m) = {t[i].after : i \in {j \in DOMAIN t : t[j].key = m}}
      /\ MarksOf(state, m) = {s[i].after : i \in {j \in DOMAIN s : s[j].key = m}}
  BY DEF MarksOf
<1> HIDE DEF s, t
<1>4. /\ Len(s) \in Nat /\ Len(new) \in Nat /\ DOMAIN s = 1..Len(s)
      /\ DOMAIN t = 1..(Len(s) + Len(new))
      /\ \A i \in 1..(Len(s) + Len(new)) :
           t[i] = IF i <= Len(s) THEN s[i] ELSE new[i - Len(s)]
  BY <1>1, <1>2, ConcatProperties
<1>5. \A i \in 1..Len(s) : i \in DOMAIN t /\ t[i] = s[i] BY <1>4
<1>6. \A n \in 1..Len(new) : Len(s) + n \in DOMAIN t /\ t[Len(s) + n] = new[n]
  <2> TAKE n \in 1..Len(new)
  <2>1. /\ Len(s) + n \in 1..(Len(s) + Len(new)) /\ ~(Len(s) + n <= Len(s))
        /\ (Len(s) + n) - Len(s) = n
    BY <1>4
  <2> DEFINE i == Len(s) + n
  <2>2. i \in 1..(Len(s) + Len(new)) /\ ~(i <= Len(s)) /\ i - Len(s) = n BY <2>1
  <2> HIDE DEF i
  <2>3. t[i] = new[n] BY <1>4, <2>2
  <2> QED BY <1>4, <2>2, <2>3 DEF i
<1>7. \A i \in DOMAIN t : i \in 1..Len(s) \/ \E n \in 1..Len(new) : i = Len(s) + n
  <2> TAKE i \in DOMAIN t
  <2>1. CASE i <= Len(s) BY <1>4, <2>1
  <2>2. CASE ~(i <= Len(s))
    <3>1. i - Len(s) \in 1..Len(new) /\ i = Len(s) + (i - Len(s)) BY <1>4, <2>2
    <3> QED BY <3>1
  <2> QED BY <2>1, <2>2
<1>8. MarksOf(next, m) \subseteq MarksOf(state, m) \cup {new[n].after : n \in 1..Len(new)}
  BY <1>3, <1>4, <1>5, <1>6, <1>7
<1>9. MarksOf(state, m) \subseteq MarksOf(next, m) BY <1>3, <1>4, <1>5
<1>10. {new[n].after : n \in 1..Len(new)} \subseteq MarksOf(next, m) BY <1>3, <1>6
<1> QED BY <1>8, <1>9, <1>10

\* What the step adds to the pending lines, and what it consumes without a line.
AddsShort(m, acc, next, new) ==
  /\ Count(Text[m]) = 0 /\ ~Blank(Text[m]) /\ ~acc.shortDone
  /\ Len(new) = 1 /\ new[1] = Line(m, Short)
  /\ AccOf(next, m).shortDone

AddsNothing(m, acc, next, new, digests) ==
  /\ new = <<>> /\ next.offset = AccOf(next, m).emitted
  /\ digests => AccOf(next, m).emitted = acc.emitted
  /\ \/ AccOf(next, m).shortDone <=> acc.shortDone
     \/ Count(Text[m]) = 0 /\ Blank(Text[m])

AddsQuotes(m, acc, next, new, digests) ==
  /\ digests /\ Len(new) = AccOf(next, m).emitted - acc.emitted /\ Len(new) # 0
  /\ \A n \in 1..Len(new) : new[n] = Line(m, acc.emitted + n)
  /\ AccOf(next, m).shortDone <=> acc.shortDone

LEMMA NewMarks ==
  ASSUME NEW state, StateTypes(state), NEW m \in Keys, NEW k \in DOMAIN Batches[m],
         NEW digests \in BOOLEAN
  PROVE  LET new == NewLines(state, m, k, digests) IN
         MarksOf(Selected(state, m, k, digests), m) =
           MarksOf(state, m) \cup {new[n].after : n \in 1..Len(new)}
<1> DEFINE new == NewLines(state, m, k, digests)
           next == Selected(state, m, k, digests)
<1>1. new \in Seq(Utterances) /\ \A n \in 1..Len(new) : new[n].key = m
  <2>1. new \in Seq(Utterances) BY NewLinesAre
  <2>2. \A n \in 1..Len(new) : new[n].key = m
    <3> TAKE n \in 1..Len(new)
    <3> DEFINE fed == FedOf(state, m, k, digests)
               a == IF fed.acc.emitted - AccOf(state, m).emitted = 0 THEN Short
                    ELSE AccOf(state, m).emitted + n
               b == fed.speak[n]
    <3>1. new[n] = [key |-> m, text |-> b, after |-> a] BY NewLinesAre
    <3> HIDE DEF a, b, new
    <3> QED BY <3>1
  <2> QED BY <2>1, <2>2
<1>2. next.pending = state.pending \o new BY SelectedPending
<1>3. state \in States BY DEF StateTypes
<1> HIDE DEF new, next
<1>4. MarksOf(next, m) = MarksOf(state, m) \cup {new[n].after : n \in 1..Len(new)}
  BY <1>1, <1>2, <1>3, MarksOfMore
<1> QED BY <1>4 DEF new, next

\* The saved marks, the pending ones, and what they come to.
LEMMA AccOfMarks ==
  ASSUME NEW state, StateTypes(state), NEW m \in Keys,
         state.key # m => MarksOf(state, m) = {}
  PROVE  /\ AccOf(state, m).emitted \in Nat /\ AccumOf(state, m).emitted \in Nat
         /\ AccumOf(state, m).emitted <= AccOf(state, m).emitted
         /\ \A x \in MarksOf(state, m) : x \in Nat /\ x <= AccOf(state, m).emitted
         /\ AccOf(state, m).shortDone <=> AccumOf(state, m).shortDone \/ Short \in MarksOf(state, m)
<1>0. state \in States BY DEF StateTypes
<1>1. \A x \in MarksOf(state, m) : x \in Nat BY <1>0, MarksOfType
<1>2. CASE state.key # m
  <2>1. AccOf(state, m) = Accum0 /\ AccumOf(state, m) = Accum0 BY <1>0, <1>2, AccOfOther
  <2>2. Accum0.emitted = 0 /\ ~Accum0.shortDone BY DEF Accum0
  <2> QED BY <1>2, <2>1, <2>2
<1>3. CASE state.key = m
  <2>1. /\ AccOf(state, m).emitted \in Nat /\ state.offset <= AccOf(state, m).emitted
        /\ \A x \in MarksOf(state, m) : x <= AccOf(state, m).emitted
    BY <1>0, <1>3, AccOfOwn
  <2>2. AccOf(state, m).shortDone = (state.shortDone \/ Short \in MarksOf(state, m))
    BY <1>0, <1>3, AccOfOwn
  <2>3. AccumOf(state, m).emitted = state.offset BY <1>3 DEF AccumOf
  <2>4. AccumOf(state, m).shortDone = state.shortDone BY <1>3 DEF AccumOf
  <2>5. state.offset \in Nat BY <1>0 DEF States
  <2>6. AccOf(state, m).shortDone <=> AccumOf(state, m).shortDone \/ Short \in MarksOf(state, m)
    BY <2>2, <2>4
  <2> QED BY <1>1, <2>1, <2>3, <2>5, <2>6
<1> QED BY <1>2, <1>3

LEMMA AccTransfer ==
  ASSUME NEW m, NEW acc, NEW other, NEW done, AccOK(m, acc, done), AccTypes(m, other),
         other.parts = acc.parts, other.seenFinal = acc.seenFinal, other.emitted = acc.emitted,
         other.shortDone <=> acc.shortDone
  PROVE  AccOK(m, other, done)
BY DEF AccOK

\* The saved marks of a selection and those of its lines come to what was fed.
LEMMA SelectedComesTo ==
  ASSUME NEW state, StateTypes(state), NEW m \in Keys, NEW k \in DOMAIN Batches[m],
         NEW digests \in BOOLEAN, state.key # m => MarksOf(state, m) = {},
         LET new == NewLines(state, m, k, digests)
             fed == FedOf(state, m, k, digests) IN
         /\ \A n \in 1..Len(new) : new[n].after <= fed.acc.emitted
         /\ new # <<>> => \/ fed.acc.emitted = 0
                          \/ \E n \in 1..Len(new) : new[n].after = fed.acc.emitted
  PROVE  AccOf(Selected(state, m, k, digests), m).emitted = FedOf(state, m, k, digests).acc.emitted
<1> DEFINE next == Selected(state, m, k, digests)
           new == NewLines(state, m, k, digests)
           o == AccOf(state, m).emitted
           saved == AccumOf(state, m).emitted
           e == FedOf(state, m, k, digests).acc.emitted
           marks == {new[n].after : n \in 1..Len(new)}
<1>1. AccTypes(m, AccOf(state, m)) BY AccOfTypes
<1>2. e \in Nat /\ o <= e /\ o \in Nat
  BY <1>1, FeedTypes DEF AccTypes, FedOf
<1>3. /\ saved \in Nat /\ saved <= o /\ \A x \in MarksOf(state, m) : x \in Nat /\ x <= o
  BY AccOfMarks
<1>4. StateTypes(next) /\ next.key = m BY SelectedTypes
<1>5. next.offset = IF new = <<>> THEN e ELSE saved BY SelectedOffset
<1>6. MarksOf(next, m) = MarksOf(state, m) \cup marks BY NewMarks
<1>7. /\ AccOf(next, m).emitted \in {next.offset} \cup MarksOf(next, m)
      /\ next.offset <= AccOf(next, m).emitted /\ AccOf(next, m).emitted \in Nat
      /\ \A x \in MarksOf(next, m) : x <= AccOf(next, m).emitted
  BY <1>4, AccOfOwn DEF StateTypes
<1>8. /\ \A x \in marks : x <= e
      /\ new # <<>> => e = 0 \/ e \in marks
  OBVIOUS
<1> HIDE DEF next, new, o, saved, e, marks
<1>9. \A x \in {next.offset} \cup MarksOf(next, m) : x <= e
  <2>1. next.offset <= e BY <1>2, <1>3, <1>5
  <2>2. \A x \in MarksOf(state, m) : x <= e BY <1>2, <1>3
  <2> QED BY <1>6, <1>8, <2>1, <2>2
<1>10. e <= AccOf(next, m).emitted
  <2>1. CASE new = <<>> BY <1>5, <1>7, <2>1
  <2>2. CASE e = 0 BY <1>7, <2>2
  <2>3. CASE e \in marks BY <1>6, <1>7, <2>3
  <2> QED BY <1>8, <2>1, <2>2, <2>3
<1>11. AccOf(next, m).emitted <= e /\ AccOf(next, m).emitted \in Nat BY <1>7, <1>9
<1>12. AccOf(next, m).emitted = e
  <2> DEFINE x == AccOf(next, m).emitted
  <2>1. x \in Nat /\ x <= e /\ e <= x BY <1>10, <1>11
  <2> HIDE DEF x
  <2>2. x = e BY <1>2, <2>1
  <2> QED BY <2>2 DEF x
<1> QED BY <1>12 DEF next, e

LEMMA SelectedShortIs ==
  ASSUME NEW state, StateTypes(state), NEW m \in Keys, NEW k \in DOMAIN Batches[m],
         NEW digests \in BOOLEAN, state.key # m => MarksOf(state, m) = {}
  PROVE  LET new == NewLines(state, m, k, digests)
             fed == FedOf(state, m, k, digests) IN
         AccOf(Selected(state, m, k, digests), m).shortDone <=>
           \/ fed.acc.shortDone
           \/ \E n \in 1..Len(new) : new[n].after = Short
<1> DEFINE next == Selected(state, m, k, digests)
           new == NewLines(state, m, k, digests)
           marks == {new[n].after : n \in 1..Len(new)}
           fed == FedOf(state, m, k, digests)
           acc == AccOf(state, m)
           saved == AccumOf(state, m)
<1>1. acc.shortDone <=> saved.shortDone \/ Short \in MarksOf(state, m) BY AccOfMarks
<1>2. StateTypes(next) /\ next.key = m /\ next \in States BY SelectedTypes DEF StateTypes
<1>3. AccOf(next, m).shortDone = (next.shortDone \/ Short \in MarksOf(next, m))
  BY <1>2, AccOfOwn
<1>4. MarksOf(next, m) = MarksOf(state, m) \cup marks BY NewMarks
<1>5. (\E u \in ToSet(next.pending) : u.key = m /\ u.after = Short) <=> Short \in MarksOf(next, m)
  <2> HIDE DEF next
  <2> QED BY DEF MarksOf, ToSet
<1>6. next.shortDone <=> \/ saved.shortDone
                         \/ /\ fed.acc.shortDone /\ ~acc.shortDone
                            /\ ~\E u \in ToSet(next.pending) : u.key = m /\ u.after = Short
  BY SelectedShort
<1>7. acc.shortDone => fed.acc.shortDone BY FeedFlags DEF FedOf
<1>8. Short \in marks <=> \E n \in 1..Len(new) : new[n].after = Short OBVIOUS
<1> HIDE DEF next, new, marks, fed, acc, saved
<1>9. AccOf(next, m).shortDone <=> fed.acc.shortDone \/ Short \in marks
  BY <1>1, <1>3, <1>4, <1>5, <1>6, <1>7
<1> QED BY <1>8, <1>9 DEF next, new, fed

LEMMA LineIs ==
  ASSUME NEW m, NEW n
  PROVE  Line(m, n) = [key |-> m, text |-> IF n = Short THEN Text[m] ELSE QuoteOf(m, n),
                       after |-> n]
BY DEF Line, QuoteOf

\* What a batch does to the state of its message.
LEMMA SelectedAcc ==
  ASSUME NEW state, StateTypes(state), NEW m \in Keys, NEW k \in DOMAIN Batches[m],
         NEW digests \in BOOLEAN, state.key # m => MarksOf(state, m) = {},
         NEW done \in SUBSET DOMAIN Batches[m], AccOK(m, AccOf(state, m), done),
         Selects(m, k, AccOf(state, m), done, digests)
  PROVE  LET next == Selected(state, m, k, digests)
             new  == NewLines(state, m, k, digests)
             acc  == AccOf(state, m) IN
         /\ AccOK(m, AccOf(next, m), done \cup {k})
         /\ acc.emitted <= AccOf(next, m).emitted
         /\ \/ AddsShort(m, acc, next, new)
            \/ AddsNothing(m, acc, next, new, digests)
            \/ AddsQuotes(m, acc, next, new, digests)
<1> DEFINE next == Selected(state, m, k, digests)
           new == NewLines(state, m, k, digests)
           acc == AccOf(state, m)
           fed == FedOf(state, m, k, digests)
           o == acc.emitted
           e == fed.acc.emitted
           c == Count(Text[m])
           others == AccOf(next, m)
<1>1. /\ AccOK(m, fed.acc, done \cup {k})
      /\ TellsShort(m, acc, fed) \/ TellsQuotes(m, acc, fed, digests)
  BY DEF Selects, FedOf
<1>2. AccTypes(m, acc) /\ AccTypes(m, fed.acc) /\ o <= e
  BY AccOfTypes, FeedTypes DEF FedOf
<1>3. o \in Nat /\ e \in Nat /\ c \in Nat /\ o <= c /\ e <= c
  BY <1>1, <1>2, MarksAre DEF AccTypes, AccOK
<1>4. /\ new \in Seq(Utterances) /\ Len(new) = Len(fed.speak) /\ Len(new) \in Nat
      /\ \A n \in 1..Len(new) :
           new[n] = [key |-> m, text |-> fed.speak[n], after |-> IF e - o = 0 THEN Short ELSE o + n]
  BY NewLinesAre
<1>5. others.shortDone <=> fed.acc.shortDone \/ \E n \in 1..Len(new) : new[n].after = Short
  BY SelectedShortIs
<1>6. next.offset = IF new = <<>> THEN e ELSE AccumOf(state, m).emitted BY SelectedOffset
<1>7. StateTypes(next) /\ next.key = m /\ next \in States BY SelectedTypes DEF StateTypes
<1>8. others.parts = fed.acc.parts /\ others.seenFinal = fed.acc.seenFinal
  <2>1. others.parts = next.parts /\ others.seenFinal = next.seenFinal BY <1>7, AccOfOwn
  <2>2. next.parts = fed.acc.parts /\ next.seenFinal = fed.acc.seenFinal BY SelectedParts
  <2> QED BY <2>1, <2>2
<1>9. AccTypes(m, others) BY <1>7, AccOfTypes
<1>10. ASSUME \A n \in 1..Len(new) : new[n].after <= e,
              new # <<>> => e = 0 \/ \E n \in 1..Len(new) : new[n].after = e,
              others.shortDone <=> fed.acc.shortDone
       PROVE  AccOK(m, others, done \cup {k}) /\ others.emitted = e
  <2>1. others.emitted = e BY <1>10, SelectedComesTo
  <2> HIDE DEF others, fed
  <2>2. AccOK(m, others, done \cup {k})
    BY <1>1, <1>8, <1>9, <1>10, <2>1, AccTransfer DEF e
  <2> QED BY <2>1, <2>2
<1>11. new = <<>> <=> fed.speak = <<>>
  <2>1. fed.speak \in Seq(Texts) BY <1>2, FeedTypes DEF FedOf
  <2> HIDE DEF new, fed
  <2> QED BY <1>4, <2>1, EmptySeq
<1> HIDE DEF next, new, acc, fed, others, e, o, c
<1>12. CASE TellsShort(m, acc, fed) /\ ~Blank(Text[m])
  <2>1. c = 0 /\ ~acc.shortDone /\ fed.acc.shortDone /\ fed.speak = <<Text[m]>>
    BY <1>12 DEF TellsShort, c
  <2>2. o = 0 /\ e = 0 BY <1>3, <2>1
  <2>3. Len(new) = 1 BY <1>4, <2>1
  <2>4. new[1] = [key |-> m, text |-> fed.speak[1], after |-> IF e - o = 0 THEN Short ELSE o + 1]
    BY <1>4, <2>3
  <2>5. new[1] = [key |-> m, text |-> Text[m], after |-> Short] BY <2>1, <2>2, <2>4
  <2>6. new[1] = Line(m, Short) BY <2>5, LineIs
  <2>7. new[1].after = 0 BY <2>5 DEF Short
  <2>8. others.shortDone <=> fed.acc.shortDone BY <1>5, <2>1
  <2>9. /\ \A n \in 1..Len(new) : new[n].after <= e
        /\ new # <<>> => e = 0 \/ \E n \in 1..Len(new) : new[n].after = e
    BY <2>2, <2>3, <2>7
  <2>10. AccOK(m, others, done \cup {k}) /\ others.emitted = e BY <1>10, <2>8, <2>9
  <2>11. others.shortDone BY <2>1, <2>8
  <2>12. AddsShort(m, acc, next, new)
    BY <1>12, <2>1, <2>3, <2>6, <2>11 DEF AddsShort, others, c
  <2> QED BY <1>2, <2>10, <2>12 DEF others, next, new, acc, o
<1>13. ASSUME fed.speak = <<>>, digests => e = o,
              (fed.acc.shortDone <=> acc.shortDone) \/ (c = 0 /\ Blank(Text[m]))
       PROVE  /\ AccOK(m, others, done \cup {k}) /\ others.emitted = e
              /\ AddsNothing(m, acc, next, new, digests)
  <2>1. new = <<>> /\ Len(new) = 0 BY <1>4, <1>11, <1>13
  <2>2. others.shortDone <=> fed.acc.shortDone BY <1>5, <2>1
  <2>3. AccOK(m, others, done \cup {k}) /\ others.emitted = e BY <1>10, <2>1, <2>2
  <2>4. AddsNothing(m, acc, next, new, digests)
    BY <1>6, <1>13, <2>1, <2>2, <2>3 DEF AddsNothing, others, c, o
  <2> QED BY <2>3, <2>4
<1>14. CASE TellsShort(m, acc, fed) /\ Blank(Text[m])
  <2>1. c = 0 /\ fed.speak = <<>> BY <1>14 DEF TellsShort, c
  <2>2. o = 0 /\ e = 0 BY <1>3, <2>1
  <2>3. AccOK(m, others, done \cup {k}) /\ others.emitted = e /\ AddsNothing(m, acc, next, new, digests)
    BY <1>13, <1>14, <2>1, <2>2
  <2> QED BY <1>2, <2>3 DEF others, next, new, acc, o
<1>15. CASE TellsQuotes(m, acc, fed, digests)
  <2>1. /\ fed.acc.shortDone <=> acc.shortDone
        /\ fed.speak = IF digests THEN [n \in 1..(e - o) |-> QuoteOf(m, o + n)] ELSE <<>>
    BY <1>15 DEF TellsQuotes, e, o
  <2>2. CASE ~digests \/ e = o
    <3>1. fed.speak = <<>>
      <4>1. CASE ~digests BY <2>1, <4>1
      <4>2. CASE e = o
        <5>1. 1..(e - o) = {} BY <1>3, <4>2
        <5>2. [n \in 1..(e - o) |-> QuoteOf(m, o + n)] = <<>> BY <5>1
        <5> QED BY <2>1, <5>2
      <4> QED BY <2>2, <4>1, <4>2
    <3>2. AccOK(m, others, done \cup {k}) /\ others.emitted = e
          /\ AddsNothing(m, acc, next, new, digests)
      BY <1>13, <2>1, <2>2, <3>1
    <3> QED BY <1>2, <3>2 DEF others, next, new, acc, o
  <2>3. CASE digests /\ e # o
    <3>1. fed.speak = [n \in 1..(e - o) |-> QuoteOf(m, o + n)] /\ e - o \in Nat \ {0}
      BY <1>2, <1>3, <2>1, <2>3 DEF e, o
    <3>2. Len(fed.speak) = e - o /\ \A n \in 1..(e - o) : fed.speak[n] = QuoteOf(m, o + n)
      BY <3>1
    <3>3. Len(new) = e - o BY <1>4, <3>2
    <3>4. \A n \in 1..Len(new) : /\ new[n] = Line(m, o + n) /\ new[n].after = o + n
                                 /\ o + n # Short /\ o + n <= e
      <4> TAKE n \in 1..Len(new)
      <4>1. n \in 1..(e - o) /\ o + n # Short /\ o + n <= e BY <1>3, <3>1, <3>3 DEF Short
      <4>2. new[n] = [key |-> m, text |-> fed.speak[n], after |-> IF e - o = 0 THEN Short ELSE o + n]
        BY <1>4
      <4>3. fed.speak[n] = QuoteOf(m, o + n) BY <3>2, <4>1
      <4>4. e - o # 0 BY <3>1
      <4>5. new[n] = [key |-> m, text |-> QuoteOf(m, o + n), after |-> o + n]
        BY <4>2, <4>3, <4>4
      <4>6. new[n] = Line(m, o + n) BY <4>1, <4>5, LineIs
      <4> QED BY <4>1, <4>5, <4>6
    <3>5. others.shortDone <=> fed.acc.shortDone BY <1>5, <3>4
    <3>6. /\ \A n \in 1..Len(new) : new[n].after <= e
          /\ \E n \in 1..Len(new) : new[n].after = e
      <4>1. e - o \in 1..Len(new) /\ o + (e - o) = e BY <1>3, <3>1, <3>3
      <4>2. new[e - o].after = e BY <3>4, <4>1
      <4> QED BY <3>4, <4>1, <4>2
    <3>7. AccOK(m, others, done \cup {k}) /\ others.emitted = e BY <1>10, <3>5, <3>6
    <3>8. AddsQuotes(m, acc, next, new, digests)
      BY <2>1, <2>3, <3>1, <3>3, <3>4, <3>5, <3>7 DEF AddsQuotes, others, o
    <3> QED BY <1>2, <3>7, <3>8 DEF others, next, new, acc, o
  <2> QED BY <2>2, <2>3
<1> QED BY <1>1, <1>12, <1>14, <1>15

-----------------------------------------------------------------------------
(* The order of the lines.                                                 *)

\* The lines of m that were enqueued, and after them those that are pending, are
\* in document order; only the first of the pending ones may be known to the
\* engine, as the last it has enqueued of m.
InOrder(m, said, pending, known) ==
  /\ \A i \in DOMAIN said : said[i] = Line(m, said[i].after)
  /\ \A i, j \in DOMAIN said : i < j => said[i].after < said[j].after
  /\ \A i \in DOMAIN pending : pending[i].key = m =>
       /\ pending[i] = Line(m, pending[i].after)
       /\ \A j \in DOMAIN pending :
            i < j /\ pending[j].key = m => pending[i].after < pending[j].after
       /\ pending[i] \in known => i = 1 /\ said # <<>> /\ said[Len(said)] = pending[i]
       /\ pending[i] \notin known => \A j \in DOMAIN said : said[j].after < pending[i].after

\* New lines come after everything.
LEMMA OrderSelected ==
  ASSUME NEW m, NEW said, NEW pending \in Seq(Utterances), NEW known, NEW new \in Seq(Utterances),
         InOrder(m, said, pending, known), NEW o \in Int,
         \A i \in DOMAIN said : said[i].after <= o /\ said[i].after \in Nat,
         \A i \in DOMAIN pending : pending[i].key = m => pending[i].after <= o,
         \A n \in 1..Len(new) : new[n] = Line(m, o + n) /\ new[n].after = o + n /\ new[n] \notin known
  PROVE  InOrder(m, said, pending \o new, known)
<1> DEFINE all == pending \o new
           a == Len(pending)
<1>1. /\ a \in Nat /\ Len(new) \in Nat /\ DOMAIN pending = 1..a
      /\ DOMAIN all = 1..(a + Len(new))
      /\ \A i \in 1..(a + Len(new)) : all[i] = IF i <= a THEN pending[i] ELSE new[i - a]
  BY ConcatProperties
<1> HIDE DEF all, a
<1>2. \A i \in DOMAIN all : \/ i \in DOMAIN pending /\ all[i] = pending[i]
                            \/ i > a /\ i - a \in 1..Len(new) /\ all[i] = new[i - a]
                               /\ all[i].after = o + (i - a)
  <2> TAKE i \in DOMAIN all
  <2>1. CASE i <= a BY <1>1, <2>1
  <2>2. CASE ~(i <= a)
    <3>1. i - a \in 1..Len(new) /\ all[i] = new[i - a] /\ i > a BY <1>1, <2>2
    <3> QED BY <3>1
  <2> QED BY <2>1, <2>2
<1>3. \A i \in 1..a : pending[i].after \in Nat
  <2> TAKE i \in 1..a
  <2>1. pending[i] \in Utterances BY <1>1, ElementOfSeq DEF a
  <2> QED BY <2>1 DEF Utterances
<1>4. ASSUME NEW i \in DOMAIN all, all[i].key = m
      PROVE  /\ all[i] = Line(m, all[i].after)
             /\ \A j \in DOMAIN all : i < j /\ all[j].key = m => all[i].after < all[j].after
             /\ all[i] \in known => i = 1 /\ said # <<>> /\ said[Len(said)] = all[i]
             /\ all[i] \notin known => \A j \in DOMAIN said : said[j].after < all[i].after
  <2>1. CASE i \in DOMAIN pending /\ all[i] = pending[i]
    <3>1. pending[i] = Line(m, pending[i].after) BY <1>4, <2>1 DEF InOrder
    <3>2. pending[i] \in known => i = 1 /\ said # <<>> /\ said[Len(said)] = pending[i]
      BY <1>4, <2>1 DEF InOrder
    <3>3. pending[i] \notin known => \A j \in DOMAIN said : said[j].after < pending[i].after
      BY <1>4, <2>1 DEF InOrder
    <3>4. ASSUME NEW j \in DOMAIN all, i < j, all[j].key = m PROVE pending[i].after < all[j].after
      <4>1. CASE j \in DOMAIN pending /\ all[j] = pending[j]
        BY <1>4, <2>1, <3>4, <4>1 DEF InOrder
      <4>2. CASE j - a \in 1..Len(new) /\ all[j].after = o + (j - a)
        <5>1. pending[i].after <= o /\ pending[i].after \in Nat BY <1>1, <1>3, <1>4, <2>1
        <5> DEFINE x == pending[i].after
                   y == all[j].after
                   n == j - a
        <5>2. x <= o /\ x \in Nat /\ n \in 1..Len(new) /\ y = o + n BY <4>2, <5>1
        <5> HIDE DEF x, y, n
        <5>3. x < y BY <1>1, <5>2
        <5> QED BY <5>3 DEF x, y
      <4> QED BY <1>2, <4>1, <4>2
    <3> QED BY <2>1, <3>1, <3>2, <3>3, <3>4
  <2>2. CASE i > a /\ i - a \in 1..Len(new) /\ all[i] = new[i - a]
    <3> DEFINE n == i - a
    <3>1. all[i] = Line(m, o + n) /\ all[i].after = o + n /\ all[i] \notin known BY <2>2
    <3>2. ASSUME NEW j \in DOMAIN said PROVE said[j].after < all[i].after
      <4>1. said[j].after <= o /\ said[j].after \in Nat OBVIOUS
      <4> DEFINE x == said[j].after
                 y == all[i].after
      <4>2. x <= o /\ x \in Nat /\ y = o + n /\ n \in 1..Len(new) BY <2>2, <3>1, <4>1
      <4> HIDE DEF x, y, n
      <4>3. x < y BY <1>1, <4>2
      <4> QED BY <4>3 DEF x, y
    <3>3. ASSUME NEW j \in DOMAIN all, i < j PROVE all[i].after < all[j].after
      <4>1. j - a \in 1..Len(new) /\ all[j].after = o + (j - a)
        <5>1. ~(j <= a) BY <1>1, <2>2, <3>3
        <5> QED BY <1>1, <1>2, <5>1
      <4> DEFINE x == all[i].after
                 y == all[j].after
      <4>2. x = o + (i - a) /\ y = o + (j - a) BY <3>1, <4>1
      <4>3. i \in Nat /\ j \in Nat BY <1>1
      <4> HIDE DEF x, y
      <4>4. x < y BY <1>1, <3>3, <4>2, <4>3
      <4> QED BY <4>4 DEF x, y
    <3>4. all[i] = Line(m, all[i].after) BY <3>1
    <3> QED BY <3>1, <3>2, <3>3, <3>4
  <2> QED BY <1>2, <2>1, <2>2
<1>5. /\ \A i \in DOMAIN said : said[i] = Line(m, said[i].after)
      /\ \A i, j \in DOMAIN said : i < j => said[i].after < said[j].after
  BY DEF InOrder
<1>6. InOrder(m, said, all, known) BY <1>4, <1>5 DEF InOrder
<1> QED BY <1>6 DEF all

\* The engine takes the head, a line of m it does not know.
LEMMA OrderTaken ==
  ASSUME NEW m, NEW said \in Seq(Utterances), NEW pending \in Seq(Utterances), NEW known,
         NEW after, InOrder(m, said, pending, known), pending # <<>>, pending[1].key = m,
         pending[1] \notin known, pending[1] \in after, after \subseteq known \cup {pending[1]}
  PROVE  InOrder(m, Append(said, pending[1]), pending, after)
<1> DEFINE u == pending[1]
           all == Append(said, u)
           a == Len(said)
<1>1. Len(pending) \in Nat \ {0} /\ DOMAIN pending = 1..Len(pending) /\ 1 \in DOMAIN pending
  BY EmptySeq
<1>2. u \in Utterances BY <1>1, ElementOfSeq
<1>3. /\ a \in Nat /\ DOMAIN said = 1..a /\ DOMAIN all = 1..(a + 1) /\ Len(all) = a + 1
      /\ all # <<>> /\ all[a + 1] = u /\ \A i \in 1..a : all[i] = said[i]
  BY <1>2, AppendProperties
<1>4. /\ u = Line(m, u.after) /\ \A j \in DOMAIN said : said[j].after < u.after
      /\ \A j \in DOMAIN pending : 1 < j /\ pending[j].key = m => u.after < pending[j].after
  BY <1>1 DEF InOrder
<1>5. /\ u.after \in Nat /\ \A i \in DOMAIN said : said[i].after \in Nat
      /\ \A i \in DOMAIN pending : pending[i].after \in Nat
  <2>1. \A i \in DOMAIN said : said[i] \in Utterances BY <1>3, ElementOfSeq
  <2>2. \A i \in DOMAIN pending : pending[i] \in Utterances BY <1>1, ElementOfSeq
  <2> QED BY <1>1, <2>1, <2>2 DEF Utterances
<1> HIDE DEF u, all, a
<1>6. \A i \in DOMAIN all : \/ i \in DOMAIN said /\ all[i] = said[i]
                            \/ i = a + 1 /\ all[i] = u
  <2> TAKE i \in DOMAIN all
  <2>1. i \in 1..a \/ i = a + 1 BY <1>3
  <2> QED BY <1>3, <2>1
<1>7. \A i \in DOMAIN all : all[i] = Line(m, all[i].after)
  <2>1. \A i \in DOMAIN said : said[i] = Line(m, said[i].after) BY DEF InOrder
  <2> QED BY <1>4, <1>6, <2>1
<1>8. ASSUME NEW i \in DOMAIN all, NEW j \in DOMAIN all, i < j
      PROVE  all[i].after < all[j].after
  <2>1. i \in DOMAIN said /\ all[i] = said[i] BY <1>3, <1>6, <1>8
  <2>2. CASE j \in DOMAIN said /\ all[j] = said[j] BY <1>8, <2>1, <2>2 DEF InOrder
  <2>3. CASE all[j] = u BY <1>4, <2>1, <2>3
  <2> QED BY <1>6, <2>2, <2>3
<1>9. ASSUME NEW i \in DOMAIN pending, pending[i].key = m
      PROVE  /\ pending[i] = Line(m, pending[i].after)
             /\ \A j \in DOMAIN pending :
                  i < j /\ pending[j].key = m => pending[i].after < pending[j].after
             /\ pending[i] \in after => i = 1 /\ all # <<>> /\ all[Len(all)] = pending[i]
             /\ pending[i] \notin after => \A j \in DOMAIN all : all[j].after < pending[i].after
  <2>1. /\ pending[i] = Line(m, pending[i].after)
        /\ \A j \in DOMAIN pending :
             i < j /\ pending[j].key = m => pending[i].after < pending[j].after
        /\ pending[i] \in known => i = 1
        /\ pending[i] \notin known => \A j \in DOMAIN said : said[j].after < pending[i].after
    BY <1>9 DEF InOrder
  <2>2. CASE i = 1 BY <1>3, <2>1, <2>2 DEF u
  <2>3. CASE i # 1
    <3>1. 1 < i BY <1>1, <2>3
    <3>2. u.after < pending[i].after BY <1>4, <1>9, <3>1
    <3>3. pending[i] # u BY <1>5, <3>2
    <3>4. pending[i] \notin known BY <2>1, <2>3
    <3>5. pending[i] \notin after BY <3>3, <3>4 DEF u
    <3>6. \A j \in DOMAIN all : all[j].after < pending[i].after BY <1>6, <2>1, <3>2, <3>4
    <3> QED BY <2>1, <3>5, <3>6
  <2> QED BY <2>2, <2>3
<1>10. InOrder(m, all, pending, after) BY <1>7, <1>8, <1>9 DEF InOrder
<1> QED BY <1>10 DEF all, u

\* It takes a line of another message.
LEMMA OrderOther ==
  ASSUME NEW m, NEW said, NEW pending, NEW known, NEW after,
         InOrder(m, said, pending, known), pending[1].key # m,
         after \subseteq known \cup {pending[1]}
  PROVE  InOrder(m, said, pending, after)
<1>1. \A i \in DOMAIN pending : pending[i].key = m => pending[i] \notin known
  BY DEF InOrder
<1>2. \A i \in DOMAIN pending : pending[i].key = m => pending[i] \notin after
  BY <1>1
<1> QED BY <1>1, <1>2 DEF InOrder

\* A head that the engine knows is dropped.
LEMMA OrderDropped ==
  ASSUME NEW m, NEW said, NEW pending \in Seq(Utterances), NEW known,
         InOrder(m, said, pending, known), pending # <<>>, pending[1] \in known
  PROVE  InOrder(m, said, Tail(pending), known)
<1> DEFINE t == Tail(pending)
           a == Len(pending)
<1>1. a \in Nat \ {0} /\ DOMAIN pending = 1..a BY EmptySeq
<1>2. Len(t) = a - 1 /\ DOMAIN t = 1..(a - 1) /\ \A i \in 1..(a - 1) : t[i] = pending[i + 1]
  BY <1>1, HeadTailProperties
<1> HIDE DEF t, a
<1>3. \A i \in DOMAIN t : i + 1 \in DOMAIN pending /\ t[i] = pending[i + 1] /\ i \in Nat /\ i + 1 # 1
  BY <1>1, <1>2
<1>4. ASSUME NEW i \in DOMAIN t, t[i].key = m
      PROVE  /\ t[i] = Line(m, t[i].after)
             /\ \A j \in DOMAIN t : i < j /\ t[j].key = m => t[i].after < t[j].after
             /\ t[i] \notin known
             /\ \A j \in DOMAIN said : said[j].after < t[i].after
  <2>1. /\ i + 1 \in DOMAIN pending /\ t[i] = pending[i + 1] /\ i + 1 # 1 BY <1>3
  <2>2. /\ t[i] = Line(m, t[i].after) /\ t[i] \notin known
        /\ \A j \in DOMAIN said : said[j].after < t[i].after
    BY <1>4, <2>1 DEF InOrder
  <2>3. ASSUME NEW j \in DOMAIN t, i < j, t[j].key = m PROVE t[i].after < t[j].after
    <3>1. j + 1 \in DOMAIN pending /\ t[j] = pending[j + 1] /\ i + 1 < j + 1 BY <1>3, <2>3
    <3> QED BY <1>4, <2>1, <2>3, <3>1 DEF InOrder
  <2> QED BY <2>2, <2>3
<1>5. /\ \A i \in DOMAIN said : said[i] = Line(m, said[i].after)
      /\ \A i, j \in DOMAIN said : i < j => said[i].after < said[j].after
  BY DEF InOrder
<1>6. InOrder(m, said, t, known) BY <1>4, <1>5 DEF InOrder
<1> QED BY <1>6 DEF t

-----------------------------------------------------------------------------
(* The lines of an open message.                                           *)

\* The marks a listener of m is owed, those that were told or wait to be, and
\* those that count as selected.
Kept(m, muted) == {n \in Marks(m) : <<m, n>> \notin muted}

Heard(said) == {said[i].after : i \in DOMAIN said}

Told(m, state, said) == Heard(said) \cup MarksOf(state, m)

Reached(m, acc) ==
  {n \in Marks(m) : \/ n = Short /\ acc.shortDone
                    \/ n # Short /\ n <= acc.emitted}

\* What is told is what is owed, from the front; all of it once the message is
\* closed.
Whole(told, kept, closed) ==
  /\ told \subseteq kept
  /\ \A n \in kept, d \in told : n < d => n \in told
  /\ closed => told = kept

\* The state of an open message that no other has taken the file from.
Current(m, state, said, muted, done) ==
  LET acc == AccOf(state, m) IN
  /\ state.key = m /\ state.gateOn
  /\ AccOK(m, acc, done)
  /\ Told(m, state, said) = Reached(m, acc) \cap Kept(m, muted)
  /\ \A n \in Nat : <<m, n>> \in muted => n <= acc.emitted

LEMMA HeardType ==
  ASSUME NEW said \in Seq(Utterances)
  PROVE  /\ Heard(said) \in SUBSET Nat /\ DOMAIN said = 1..Len(said) /\ Len(said) \in Nat
         /\ \A i \in DOMAIN said : said[i].after \in Nat /\ said[i].after \in Heard(said)
<1>1. DOMAIN said = 1..Len(said) /\ Len(said) \in Nat OBVIOUS
<1>2. \A i \in DOMAIN said : said[i] \in Utterances BY <1>1, ElementOfSeq
<1> QED BY <1>1, <1>2 DEF Heard, Utterances

\* The two kinds of message: one with block quotes, and a short.
LEMMA ReachedIs ==
  ASSUME NEW m \in Keys, NEW acc
  PROVE  /\ Count(Text[m]) # 0 =>
              \A n : n \in Reached(m, acc) <=> n \in 1..Count(Text[m]) /\ n <= acc.emitted
         /\ Count(Text[m]) = 0 =>
              \A n : n \in Reached(m, acc) <=> n = Short /\ ~Blank(Text[m]) /\ acc.shortDone
<1>1. CASE Count(Text[m]) # 0
  <2>1. Marks(m) = 1..Count(Text[m]) /\ Count(Text[m]) \in Nat BY <1>1, MarksAre
  <2>2. \A n \in Marks(m) : n # Short BY <2>1 DEF Short
  <2> QED BY <1>1, <2>1, <2>2 DEF Reached
<1>2. CASE Count(Text[m]) = 0
  <2>1. Marks(m) = IF Blank(Text[m]) THEN {} ELSE {Short} BY <1>2, MarksAre
  <2> QED BY <1>2, <2>1 DEF Reached
<1> QED BY <1>1, <1>2

\* What was selected, less what was not to be heard, is whole.
LEMMA WholeFrom ==
  ASSUME NEW m \in Keys, NEW acc, NEW done, AccOK(m, acc, done), NEW muted,
         NEW told, told = Reached(m, acc) \cap Kept(m, muted)
  PROVE  Whole(told, Kept(m, muted), Len(Batches[m]) \in done)
<1>1. CASE Count(Text[m]) # 0
  <2>1. /\ Marks(m) = 1..Count(Text[m]) /\ Count(Text[m]) \in Nat
        /\ \A n : n \in Reached(m, acc) <=> n \in 1..Count(Text[m]) /\ n <= acc.emitted
    BY <1>1, MarksAre, ReachedIs
  <2>2. acc.emitted \in Nat /\ (Len(Batches[m]) \in done => acc.emitted = Count(Text[m]))
    BY DEF AccOK, AccTypes
  <2>3. ASSUME NEW n \in Kept(m, muted), NEW d \in told, n < d PROVE n \in told
    <3>1. n \in 1..Count(Text[m]) /\ d \in 1..Count(Text[m]) /\ d <= acc.emitted
      BY <2>1 DEF Kept
    <3>2. n <= acc.emitted BY <2>1, <2>2, <2>3, <3>1
    <3> QED BY <2>1, <3>1, <3>2
  <2>4. ASSUME Len(Batches[m]) \in done PROVE told = Kept(m, muted)
    <3>1. \A n \in Kept(m, muted) : n \in 1..Count(Text[m]) BY <2>1 DEF Kept
    <3>2. \A n \in Kept(m, muted) : n \in Reached(m, acc) BY <2>1, <2>2, <2>4, <3>1
    <3> QED BY <3>2
  <2> QED BY <2>3, <2>4 DEF Whole
<1>2. CASE Count(Text[m]) = 0
  <2>1. /\ Marks(m) = IF Blank(Text[m]) THEN {} ELSE {Short}
        /\ \A n : n \in Reached(m, acc) <=> n = Short /\ ~Blank(Text[m]) /\ acc.shortDone
    BY <1>2, MarksAre, ReachedIs
  <2>2. Len(Batches[m]) \in done => acc.shortDone BY <1>2 DEF AccOK
  <2>3. \A n \in Kept(m, muted) : n = Short /\ ~Blank(Text[m]) BY <2>1 DEF Kept
  <2>4. told \subseteq {Short} /\ told \subseteq Kept(m, muted) BY <2>1
  <2>5. ~(Short < Short) BY DEF Short
  <2>6. \A n \in Kept(m, muted), d \in told : ~(n < d) BY <2>3, <2>4, <2>5
  <2>7. Len(Batches[m]) \in done => told = Kept(m, muted) BY <2>1, <2>2, <2>3
  <2> QED BY <2>4, <2>6, <2>7 DEF Whole
<1> QED BY <1>1, <1>2

\* What the engine knows of m it has been heard to say.
KnownHeard(m, known, said) == \A u \in known : u.key = m => u.after \in Heard(said)

\* The hypotheses of a selection for an open message.
Ready(m, state, said, muted, done, known) ==
  /\ StateTypes(state) /\ said \in Seq(Utterances) /\ done \in SUBSET DOMAIN Batches[m]
  /\ state.key # m => MarksOf(state, m) = {}
  /\ AccOK(m, AccOf(state, m), done)
  /\ InOrder(m, said, state.pending, known)
  /\ Told(m, state, said) = Reached(m, AccOf(state, m)) \cap Kept(m, muted)
  /\ \A n \in Nat : <<m, n>> \in muted => n <= AccOf(state, m).emitted
  /\ <<m, Short>> \notin muted
  /\ KnownHeard(m, known, said)

\* The lines that a batch consumes while narration of digests is off.
Muted(m, state, next, muted) ==
  muted \cup {<<m, n>> : n \in (AccOf(state, m).emitted + 1)..next.offset}

LEMMA MutedIs ==
  ASSUME NEW m, NEW state, NEW next, NEW muted,
         AccOf(state, m).emitted \in Nat, next.offset \in Nat
  PROVE  /\ \A n : <<m, n>> \in Muted(m, state, next, muted) <=>
                     <<m, n>> \in muted \/ n \in (AccOf(state, m).emitted + 1)..next.offset
         /\ <<m, Short>> \in Muted(m, state, next, muted) => <<m, Short>> \in muted
         /\ \A q : q # m => \A n : <<q, n>> \in Muted(m, state, next, muted) <=> <<q, n>> \in muted
<1>1. \A n : <<m, n>> \in Muted(m, state, next, muted) <=>
                     <<m, n>> \in muted \/ n \in (AccOf(state, m).emitted + 1)..next.offset
  BY DEF Muted
<1>2. Short \notin (AccOf(state, m).emitted + 1)..next.offset BY DEF Short
<1>3. \A q : q # m => \A n : <<q, n>> \in Muted(m, state, next, muted) <=> <<q, n>> \in muted
  BY DEF Muted
<1> QED BY <1>1, <1>2, <1>3

\* One of the short.
LEMMA ShortKeeps ==
  ASSUME NEW m \in Keys, NEW k \in DOMAIN Batches[m], NEW digests \in BOOLEAN, NEW state,
         NEW said, NEW muted, NEW done, NEW known, Ready(m, state, said, muted, done, known),
         NEW next, next = Selected(state, m, k, digests),
         NEW new, new = NewLines(state, m, k, digests), new \in Seq(Utterances),
         AccOK(m, AccOf(next, m), done \cup {k}),
         AddsShort(m, AccOf(state, m), next, new), StateTypes(next),
         NEW muted2, muted2 = muted \/ muted2 = Muted(m, state, next, muted)
  PROVE  /\ InOrder(m, said, next.pending, known)
         /\ Current(m, next, said, muted2, done \cup {k})
<1> DEFINE acc == AccOf(state, m)
           fed == AccOf(next, m)
<1>1. /\ Count(Text[m]) = 0 /\ ~Blank(Text[m]) /\ ~acc.shortDone
      /\ Len(new) = 1 /\ new[1] = Line(m, Short) /\ fed.shortDone
  BY DEF AddsShort
<1>2. Marks(m) = {Short} BY <1>1, MarksAre
<1>3. new[1].after = Short /\ new[1].key = m BY <1>1, <1>2, LineType
<1>4. Reached(m, acc) = {} BY <1>1, ReachedIs
<1>5. Told(m, state, said) = {} BY <1>4 DEF Ready
<1>6. Heard(said) = {} /\ MarksOf(state, m) = {} BY <1>5 DEF Told
<1>7. \A i \in DOMAIN said : FALSE BY <1>6 DEF Heard
<1>8. \A i \in DOMAIN state.pending : state.pending[i].key # m BY <1>6 DEF MarksOf
<1>9. \A n \in 1..Len(new) : /\ new[n] = Line(m, -1 + n) /\ new[n].after = -1 + n
                             /\ new[n] \notin known
  <2> TAKE n \in 1..Len(new)
  <2>1. n = 1 /\ -1 + n = Short BY <1>1 DEF Short
  <2>2. new[1] \notin known BY <1>3, <1>6 DEF Ready, KnownHeard
  <2> QED BY <1>1, <1>3, <2>1, <2>2
<1>10. InOrder(m, said, state.pending \o new, known)
  <2>1. state.pending \in Seq(Utterances) BY DEF Ready, StateTypes, States
  <2>2. InOrder(m, said, state.pending, known) BY DEF Ready
  <2>3. /\ \A i \in DOMAIN said : said[i].after <= -1 /\ said[i].after \in Nat
        /\ \A i \in DOMAIN state.pending : state.pending[i].key = m => state.pending[i].after <= -1
        /\ -1 \in Int
    BY <1>7, <1>8
  <2> QED BY <1>9, <2>1, <2>2, <2>3, OrderSelected
<1>11. next.pending = state.pending \o new BY SelectedPending
<1>12. MarksOf(next, m) = {Short}
  <2>1. MarksOf(next, m) = MarksOf(state, m) \cup {new[n].after : n \in 1..Len(new)}
    BY NewMarks DEF Ready
  <2>2. {new[n].after : n \in 1..Len(new)} = {Short} BY <1>1, <1>3
  <2> QED BY <1>6, <2>1, <2>2
<1>13. Told(m, next, said) = {Short} BY <1>6, <1>12 DEF Told
<1>14. Reached(m, fed) = {Short}
  <2>1. \A n : n \in Reached(m, fed) <=> n = Short BY <1>1, ReachedIs
  <2> QED BY <2>1
<1>15. /\ acc.emitted \in Nat /\ acc.emitted = 0 /\ fed.emitted = 0
       /\ next.offset \in Nat /\ next.offset <= fed.emitted
  <2>1. acc.emitted \in Nat /\ acc.emitted <= Count(Text[m]) BY DEF Ready, AccOK, AccTypes
  <2>2. fed.emitted \in Nat /\ fed.emitted <= Count(Text[m]) BY DEF AccOK, AccTypes
  <2>3. next.key = m /\ next \in States BY SelectedIs DEF StateTypes
  <2>4. next.offset <= fed.emitted BY <2>3, AccOfOwn
  <2>5. next.offset \in Nat BY <2>3 DEF States
  <2> HIDE DEF acc, fed
  <2> QED BY <1>1, <2>1, <2>2, <2>4, <2>5
<1>16. \A n : <<m, n>> \in muted2 <=> <<m, n>> \in muted
  <2>1. (acc.emitted + 1)..next.offset = {}
    <3> DEFINE x == next.offset
               y == acc.emitted
               z == fed.emitted
    <3>1. x \in Nat /\ y = 0 /\ z = 0 /\ x <= z BY <1>15
    <3> HIDE DEF x, y, z
    <3>2. (y + 1)..x = {} BY <3>1
    <3> QED BY <3>2 DEF x, y
  <2> QED BY <2>1, <1>15, MutedIs
<1>17. Kept(m, muted2) = {Short} BY <1>2, <1>16 DEF Kept, Ready
<1>18. \A n \in Nat : <<m, n>> \in muted2 => n <= fed.emitted
  BY <1>15, <1>16 DEF Ready
<1>19. next.key = m /\ next.gateOn BY SelectedIs
<1>20. Current(m, next, said, muted2, done \cup {k})
  BY <1>13, <1>14, <1>17, <1>18, <1>19 DEF Current
<1> QED BY <1>10, <1>11, <1>20

\* Nothing was selected, or the lines were to be consumed in silence.
LEMMA NothingKeeps ==
  ASSUME NEW m \in Keys, NEW k \in DOMAIN Batches[m], NEW digests \in BOOLEAN, NEW state,
         NEW said, NEW muted, NEW done, NEW known, Ready(m, state, said, muted, done, known),
         NEW next, next = Selected(state, m, k, digests),
         NEW new, new = NewLines(state, m, k, digests), new \in Seq(Utterances),
         AccOK(m, AccOf(next, m), done \cup {k}),
         AccOf(state, m).emitted <= AccOf(next, m).emitted,
         AddsNothing(m, AccOf(state, m), next, new, digests), StateTypes(next),
         NEW muted2, muted2 = IF digests THEN muted ELSE Muted(m, state, next, muted)
  PROVE  /\ InOrder(m, said, next.pending, known)
         /\ Current(m, next, said, muted2, done \cup {k})
<1> DEFINE acc == AccOf(state, m)
           fed == AccOf(next, m)
           o == acc.emitted
           e == fed.emitted
           c == Count(Text[m])
<1>1. /\ new = <<>> /\ next.offset = e
      /\ digests => e = o
      /\ (fed.shortDone <=> acc.shortDone) \/ (c = 0 /\ Blank(Text[m]))
  BY DEF AddsNothing
<1>2. next.pending = state.pending
  <2>1. state.pending \in Seq(Utterances) BY DEF Ready, StateTypes, States
  <2>2. next.pending = state.pending \o new BY SelectedPending
  <2>3. new = <<>> BY <1>1
  <2> DEFINE s == state.pending
  <2> HIDE DEF s
  <2>4. s \o <<>> = s BY <2>1, ConcatEmptySeq DEF s
  <2> QED BY <2>2, <2>3, <2>4 DEF s
<1>3. o \in Nat /\ e \in Nat /\ o <= e /\ c \in Nat
  BY MarksAre DEF Ready, AccOK, AccTypes
<1>4. Told(m, next, said) = Told(m, state, said) BY <1>2 DEF Told, MarksOf
<1>5. Told(m, state, said) = Reached(m, acc) \cap Kept(m, muted) BY DEF Ready
<1>6. /\ \A n \in Nat : <<m, n>> \in muted => n <= o
      /\ <<m, Short>> \notin muted
  BY DEF Ready
<1>7. \A n : <<m, n>> \in muted2 <=> <<m, n>> \in muted \/ n \in (o + 1)..e
  <2>1. CASE digests
    <3>1. e = o /\ muted2 = muted BY <1>1, <2>1
    <3> HIDE DEF o, e
    <3>2. (o + 1)..e = {} BY <1>3, <3>1
    <3> QED BY <3>1, <3>2
  <2>2. CASE ~digests
    <3>1. muted2 = Muted(m, state, next, muted) /\ next.offset \in Nat BY <1>1, <1>3, <2>2
    <3> QED BY <1>1, <1>3, <3>1, MutedIs
  <2> QED BY <2>1, <2>2
<1>8. Reached(m, fed) \cap Kept(m, muted2) = Reached(m, acc) \cap Kept(m, muted)
  <2>1. CASE c # 0
    <3>1. /\ \A n : n \in Reached(m, acc) <=> n \in 1..c /\ n <= o
          /\ \A n : n \in Reached(m, fed) <=> n \in 1..c /\ n <= e
      BY <2>1, ReachedIs
    <3>2. \A n : n \in 1..c => (n <= o <=> n <= e /\ n \notin (o + 1)..e)
      <4> HIDE DEF o, e, c
      <4> QED BY <1>3
    <3>3. \A n : n \in Kept(m, muted2) <=> n \in Kept(m, muted) /\ n \notin (o + 1)..e
      BY <1>7 DEF Kept
    <3> QED BY <3>1, <3>2, <3>3
  <2>2. CASE c = 0
    <3>1. /\ \A n : n \in Reached(m, acc) <=> n = Short /\ ~Blank(Text[m]) /\ acc.shortDone
          /\ \A n : n \in Reached(m, fed) <=> n = Short /\ ~Blank(Text[m]) /\ fed.shortDone
      BY <2>2, ReachedIs
    <3>2. Reached(m, fed) = Reached(m, acc) BY <1>1, <3>1
    <3>3. Short \notin (o + 1)..e
      <4> HIDE DEF o, e
      <4> QED BY <1>3 DEF Short
    <3>4. \A n \in Reached(m, acc) : n \in Kept(m, muted2) <=> n \in Kept(m, muted)
      BY <1>7, <3>1, <3>3 DEF Kept
    <3> QED BY <3>2, <3>4
  <2> QED BY <2>1, <2>2
<1>9. \A n \in Nat : <<m, n>> \in muted2 => n <= e
  <2> TAKE n \in Nat
  <2>1. <<m, n>> \in muted2 => n <= o \/ n \in (o + 1)..e BY <1>6, <1>7
  <2> HIDE DEF o, e
  <2> QED BY <1>3, <2>1
<1>10. next.key = m /\ next.gateOn BY SelectedIs
<1>11. Current(m, next, said, muted2, done \cup {k})
  BY <1>4, <1>5, <1>8, <1>9, <1>10 DEF Current
<1> QED BY <1>2, <1>11 DEF Ready

\* One for each block quote that was completed.
LEMMA QuotesKeep ==
  ASSUME NEW m \in Keys, NEW k \in DOMAIN Batches[m], NEW digests \in BOOLEAN, NEW state,
         NEW said, NEW muted, NEW done, NEW known, Ready(m, state, said, muted, done, known),
         NEW next, next = Selected(state, m, k, digests),
         NEW new, new = NewLines(state, m, k, digests), new \in Seq(Utterances),
         AccOK(m, AccOf(next, m), done \cup {k}),
         AccOf(state, m).emitted <= AccOf(next, m).emitted,
         AddsQuotes(m, AccOf(state, m), next, new, digests), StateTypes(next)
  PROVE  /\ InOrder(m, said, next.pending, known)
         /\ Current(m, next, said, muted, done \cup {k})
<1> DEFINE acc == AccOf(state, m)
           fed == AccOf(next, m)
           o == acc.emitted
           e == fed.emitted
           c == Count(Text[m])
<1>1. /\ Len(new) = e - o /\ Len(new) # 0
      /\ \A n \in 1..Len(new) : new[n] = Line(m, o + n)
  BY DEF AddsQuotes
<1>2. o \in Nat /\ e \in Nat /\ c \in Nat /\ e <= c /\ o < e
  <2>1. o \in Nat /\ e \in Nat /\ o <= e /\ e <= c /\ c \in Nat
    BY MarksAre DEF Ready, AccOK, AccTypes
  <2> HIDE DEF o, e, c
  <2>2. o # e BY <1>1, <2>1
  <2> QED BY <2>1, <2>2
<1>3. /\ Marks(m) = 1..c
      /\ \A n : n \in Reached(m, acc) <=> n \in 1..c /\ n <= o
      /\ \A n : n \in Reached(m, fed) <=> n \in 1..c /\ n <= e
  <2>1. c # 0
    <3> HIDE DEF o, e, c
    <3> QED BY <1>2
  <2> QED BY <2>1, MarksAre, ReachedIs
<1>4. /\ Told(m, state, said) = Reached(m, acc) \cap Kept(m, muted)
      /\ \A n \in Nat : <<m, n>> \in muted => n <= o
      /\ KnownHeard(m, known, said)
  BY DEF Ready
<1>5. \A n \in 1..Len(new) : /\ o + n \in 1..c /\ o + n <= e /\ ~(o + n <= o) /\ o + n \in Nat
  <2> HIDE DEF o, e, c
  <2> QED BY <1>1, <1>2
<1>6. \A n \in 1..Len(new) : new[n].after = o + n /\ new[n].key = m
  <2> TAKE n \in 1..Len(new)
  <2>1. o + n \in Marks(m) BY <1>3, <1>5
  <2> DEFINE x == o + n
  <2> HIDE DEF x
  <2>2. Line(m, x).after = x /\ Line(m, x).key = m BY <2>1, LineType DEF x
  <2>3. new[n] = Line(m, x) BY <1>1 DEF x
  <2> QED BY <2>2, <2>3 DEF x
<1>7. /\ \A n \in Heard(said) : n <= o /\ n \in Nat
      /\ \A n \in MarksOf(state, m) : n <= o
  BY <1>3, <1>4 DEF Told
<1>8. \A n \in 1..Len(new) : new[n] \notin known
  BY <1>5, <1>6, <1>4, <1>7 DEF KnownHeard
<1>9. InOrder(m, said, state.pending \o new, known)
  <2>1. state.pending \in Seq(Utterances) /\ InOrder(m, said, state.pending, known)
    BY DEF Ready, StateTypes, States
  <2>2. \A i \in DOMAIN said : said[i].after <= o /\ said[i].after \in Nat
    BY <1>7 DEF Heard
  <2>3. \A i \in DOMAIN state.pending : state.pending[i].key = m => state.pending[i].after <= o
    BY <1>7 DEF MarksOf
  <2>4. o \in Int BY <1>2
  <2>5. \A n \in 1..Len(new) : new[n] = Line(m, o + n) /\ new[n].after = o + n /\ new[n] \notin known
    BY <1>1, <1>6, <1>8
  <2> QED BY <2>1, <2>2, <2>3, <2>4, <2>5, OrderSelected
<1>10. next.pending = state.pending \o new BY SelectedPending
<1>11. Told(m, next, said) = Told(m, state, said) \cup {new[n].after : n \in 1..Len(new)}
  <2>1. MarksOf(next, m) = MarksOf(state, m) \cup {new[n].after : n \in 1..Len(new)}
    BY NewMarks DEF Ready
  <2> QED BY <2>1 DEF Told
<1>12. \A x : x \in Told(m, next, said) <=> x \in Told(m, state, said) \/ x \in (o + 1)..e
  <2>1. ASSUME NEW x \in {new[n].after : n \in 1..Len(new)} PROVE x \in (o + 1)..e
    <3>1. PICK n \in 1..Len(new) : x = o + n BY <1>6, <2>1
    <3> HIDE DEF o, e
    <3> QED BY <1>1, <1>2, <3>1
  <2>2. ASSUME NEW x \in (o + 1)..e PROVE x \in {new[n].after : n \in 1..Len(new)}
    <3>1. x - o \in 1..Len(new) /\ o + (x - o) = x
      <4> HIDE DEF o, e
      <4> QED BY <1>1, <1>2
    <3>2. new[x - o].after = x BY <1>6, <3>1
    <3> QED BY <3>1, <3>2
  <2> QED BY <1>11, <2>1, <2>2
<1>13. Told(m, next, said) = Reached(m, fed) \cap Kept(m, muted)
  <2>1. \A x : x \in 1..c /\ x <= e <=> (x \in 1..c /\ x <= o) \/ x \in (o + 1)..e
    <3> HIDE DEF o, e, c
    <3> QED BY <1>2
  <2>2. \A x \in (o + 1)..e : x \in Kept(m, muted)
    <3> TAKE x \in (o + 1)..e
    <3>1. x \in 1..c /\ ~(x <= o) /\ x \in Nat
      <4> HIDE DEF o, e, c
      <4> QED BY <1>2
    <3> QED BY <1>3, <1>4, <3>1 DEF Kept
  <2> HIDE DEF o, e, c, fed, acc
  <2> QED BY <1>12, <1>3, <1>4, <2>1, <2>2
<1>14. \A n \in Nat : <<m, n>> \in muted => n <= e
  <2> TAKE n \in Nat
  <2>1. <<m, n>> \in muted => n <= o BY <1>4
  <2> HIDE DEF o, e
  <2> QED BY <1>2, <2>1
<1>15. next.key = m /\ next.gateOn BY SelectedIs
<1>16. Current(m, next, said, muted, done \cup {k})
  BY <1>13, <1>14, <1>15 DEF Current
<1> QED BY <1>9, <1>10, <1>16

\* A batch of an open message keeps it current.
LEMMA SelectKeeps ==
  ASSUME NEW m \in Keys, NEW k \in DOMAIN Batches[m], NEW digests \in BOOLEAN, NEW state,
         NEW said, NEW muted, NEW done, NEW known, Ready(m, state, said, muted, done, known),
         ~TellsAgain(m, k, AccOf(state, m)),
         IsFinal(m, k) /\ ~Batches[m][k].whole => 1..(k - 1) \subseteq done,
         NEW next, next = Selected(state, m, k, digests),
         NEW muted2, muted2 = IF digests THEN muted ELSE Muted(m, state, next, muted)
  PROVE  /\ InOrder(m, said, next.pending, known)
         /\ Current(m, next, said, muted2, done \cup {k})
<1> DEFINE new == NewLines(state, m, k, digests)
           acc == AccOf(state, m)
<1>1. StateTypes(state) /\ AccOK(m, acc, done) /\ done \in SUBSET DOMAIN Batches[m]
      /\ (state.key # m => MarksOf(state, m) = {})
  BY DEF Ready
<1>2. new \in Seq(Utterances) BY <1>1, NewLinesAre
<1>3. StateTypes(next) BY <1>1, SelectedTypes
<1>4. Selects(m, k, acc, done, digests) BY <1>1, FeedKeeps
<1>5. /\ AccOK(m, AccOf(next, m), done \cup {k})
      /\ acc.emitted <= AccOf(next, m).emitted
      /\ \/ AddsShort(m, acc, next, new)
         \/ AddsNothing(m, acc, next, new, digests)
         \/ AddsQuotes(m, acc, next, new, digests)
  BY <1>1, <1>4, SelectedAcc
<1> HIDE DEF new
<1>6. new = NewLines(state, m, k, digests) BY DEF new
<1>7. muted2 = muted \/ muted2 = Muted(m, state, next, muted) OBVIOUS
<1>8. CASE AddsShort(m, acc, next, new)
  BY <1>2, <1>3, <1>5, <1>6, <1>7, <1>8, ShortKeeps
<1>9. CASE AddsNothing(m, acc, next, new, digests)
  BY <1>2, <1>3, <1>5, <1>6, <1>9, NothingKeeps
<1>10. CASE AddsQuotes(m, acc, next, new, digests)
  <2>1. muted2 = muted BY <1>10 DEF AddsQuotes
  <2> QED BY <1>2, <1>3, <1>5, <1>6, <1>10, <2>1, QuotesKeep
<1> QED BY <1>5, <1>8, <1>9, <1>10

\* The offset of an open message is a mark.
LEMMA OffsetFits ==
  ASSUME NEW m \in Keys, NEW state, StateTypes(state), state.key = m, NEW done,
         AccOK(m, AccOf(state, m), done)
  PROVE  state.offset \in {0} \cup Marks(m)
<1> DEFINE x == state.offset
           e == AccOf(state, m).emitted
           c == Count(Text[m])
<1>1. x \in Nat /\ e \in Nat /\ c \in Nat /\ x <= e /\ e <= c
  BY AccOfOwn, MarksAre DEF StateTypes, States, AccOK, AccTypes
<1>2. c # 0 => Marks(m) = 1..c BY MarksAre
<1> HIDE DEF x, e, c
<1>3. x \in {0} \cup Marks(m)
  <2>1. CASE c = 0 BY <1>1, <2>1
  <2>2. CASE c # 0
    <3>1. x = 0 \/ x \in 1..c BY <1>1
    <3> QED BY <1>2, <2>2, <3>1
  <2> QED BY <2>1, <2>2
<1> QED BY <1>3 DEF x

\* The lines of another message do not matter.
LEMMA OtherAppended ==
  ASSUME NEW m, NEW state, StateTypes(state), NEW new \in Seq(Utterances),
         \A n \in 1..Len(new) : new[n].key # m, NEW next, next.pending = state.pending \o new,
         NEW said, NEW known
  PROVE  /\ MarksOf(next, m) = MarksOf(state, m)
         /\ InOrder(m, said, state.pending, known) => InOrder(m, said, next.pending, known)
<1> DEFINE s == state.pending
           t == next.pending
           a == Len(s)
<1>1. s \in Seq(Utterances) BY DEF StateTypes, States
<1> HIDE DEF s
<1>2. /\ a \in Nat /\ Len(new) \in Nat /\ DOMAIN s = 1..a /\ DOMAIN t = 1..(a + Len(new))
      /\ \A i \in 1..(a + Len(new)) : t[i] = IF i <= a THEN s[i] ELSE new[i - a]
  <2>1. t = s \o new BY DEF s
  <2> HIDE DEF t
  <2> QED BY <1>1, <2>1, ConcatProperties
<1> HIDE DEF t, a
<1>3. \A i \in DOMAIN s : i \in DOMAIN t /\ t[i] = s[i] BY <1>2
<1>4. \A i \in DOMAIN t : t[i].key = m => i \in DOMAIN s
  <2> SUFFICES ASSUME NEW i \in DOMAIN t, i \notin DOMAIN s PROVE t[i].key # m OBVIOUS
  <2>1. i - a \in 1..Len(new) /\ ~(i <= a) BY <1>2
  <2>2. t[i] = new[i - a] BY <1>2, <2>1
  <2> QED BY <2>1, <2>2
<1>5. MarksOf(next, m) = MarksOf(state, m) BY <1>3, <1>4 DEF MarksOf, s, t
<1>6. InOrder(m, said, s, known) => InOrder(m, said, t, known)
  BY <1>3, <1>4 DEF InOrder
<1> QED BY <1>5, <1>6 DEF s, t

-----------------------------------------------------------------------------
(* A pending line is committed.                                            *)

LEMMA HeadIs ==
  ASSUME NEW S, NEW s \in Seq(S), s # <<>>
  PROVE  /\ Len(s) \in Nat \ {0} /\ DOMAIN s = 1..Len(s) /\ 1 \in DOMAIN s
         /\ Head(s) = s[1] /\ s[1] \in S
<1>1. Len(s) \in Nat \ {0} /\ DOMAIN s = 1..Len(s) BY EmptySeq
<1>2. 1 \in 1..Len(s) BY <1>1
<1>3. s[1] \in S BY <1>2, ElementOfSeq
<1> QED BY <1>1, <1>2, <1>3

\* What admit_pending makes of a state.
LEMMA AdmittedIs ==
  ASSUME NEW state, StateTypes(state), state.pending # <<>>
  PROVE  LET next == Admitted(state)
             u    == state.pending[1] IN
         /\ next.key = state.key /\ next.parts = state.parts
         /\ next.seenFinal = state.seenFinal /\ next.gateMsg = state.gateMsg
         /\ next.gateOn = state.gateOn /\ next.pending = Tail(state.pending)
         /\ next.offset = IF state.key = u.key /\ u.after # Short
                            THEN Max2(state.offset, u.after) ELSE state.offset
         /\ next = [offset |-> next.offset, key |-> next.key, parts |-> next.parts,
                    seenFinal |-> next.seenFinal, shortDone |-> next.shortDone,
                    gateMsg |-> next.gateMsg, gateOn |-> next.gateOn, pending |-> next.pending]
<1> DEFINE u == state.pending[1]
           bare == [state EXCEPT !.pending = Tail(@)]
<1>1. state \in States BY DEF StateTypes
<1>2. state.pending \in Seq(Utterances) BY <1>1 DEF States
<1>3. Head(state.pending) = u BY <1>2, HeadIs
<1>4. /\ bare.key = state.key /\ bare.parts = state.parts
      /\ bare.seenFinal = state.seenFinal /\ bare.gateMsg = state.gateMsg
      /\ bare.gateOn = state.gateOn /\ bare.pending = Tail(state.pending)
      /\ bare.offset = state.offset
      /\ DOMAIN bare = {"offset", "key", "parts", "seenFinal", "shortDone", "gateMsg",
                        "gateOn", "pending"}
      /\ bare = [offset |-> bare.offset, key |-> bare.key, parts |-> bare.parts,
                 seenFinal |-> bare.seenFinal, shortDone |-> bare.shortDone,
                 gateMsg |-> bare.gateMsg, gateOn |-> bare.gateOn, pending |-> bare.pending]
  <2>1. bare = [offset |-> state.offset, key |-> state.key, parts |-> state.parts,
                 seenFinal |-> state.seenFinal, shortDone |-> state.shortDone,
                 gateMsg |-> state.gateMsg, gateOn |-> state.gateOn,
                 pending |-> Tail(state.pending)]
    <3>1. /\ state = [f \in DOMAIN state |-> state[f]]
          /\ DOMAIN state = {"offset", "key", "parts", "seenFinal", "shortDone", "gateMsg",
                             "gateOn", "pending"}
      BY <1>1, Zenon DEF States
    <3> QED BY <3>1
  <2> HIDE DEF bare
  <2> QED BY <2>1
<1>5. Admitted(state) = Passed(bare, u) BY <1>3 DEF Admitted
<1> HIDE DEF bare, u
<1>6. CASE state.key # u.key
  <2>1. Passed(bare, u) = bare BY <1>4, <1>6 DEF Passed
  <2> QED BY <1>4, <1>5, <1>6, <2>1 DEF u
<1>7. CASE state.key = u.key /\ u.after = Short
  <2>1. Passed(bare, u) = [bare EXCEPT !.shortDone = TRUE] BY <1>4, <1>7 DEF Passed
  <2>2. Passed(bare, u) = [offset |-> bare.offset, key |-> bare.key, parts |-> bare.parts,
                 seenFinal |-> bare.seenFinal, shortDone |-> TRUE,
                 gateMsg |-> bare.gateMsg, gateOn |-> bare.gateOn, pending |-> bare.pending]
    BY <1>4, <2>1
  <2> QED BY <1>4, <1>5, <1>7, <2>2 DEF u
<1>8. CASE state.key = u.key /\ u.after # Short
  <2>1. Passed(bare, u) = [bare EXCEPT !.offset = Max2(@, u.after)] BY <1>4, <1>8 DEF Passed
  <2>2. Passed(bare, u) = [offset |-> Max2(bare.offset, u.after), key |-> bare.key,
                 parts |-> bare.parts,
                 seenFinal |-> bare.seenFinal, shortDone |-> bare.shortDone,
                 gateMsg |-> bare.gateMsg, gateOn |-> bare.gateOn, pending |-> bare.pending]
    BY <1>4, <2>1
  <2> QED BY <1>4, <1>5, <1>8, <2>2 DEF u
<1> QED BY <1>6, <1>7, <1>8

LEMMA AdmittedShort ==
  ASSUME NEW state, StateTypes(state), state.pending # <<>>
  PROVE  LET next == Admitted(state)
             u    == state.pending[1] IN
         /\ next.shortDone \in BOOLEAN
         /\ next.shortDone <=> state.shortDone \/ (state.key = u.key /\ u.after = Short)
<1> DEFINE u == state.pending[1]
           bare == [state EXCEPT !.pending = Tail(@)]
<1>1. state \in States BY DEF StateTypes
<1>2. state.pending \in Seq(Utterances) BY <1>1 DEF States
<1>3. Head(state.pending) = u BY <1>2, HeadIs
<1>4. bare \in [{"offset", "key", "parts", "seenFinal", "shortDone", "gateMsg", "gateOn", "pending"}
                  -> {bare[f] : f \in {"offset", "key", "parts", "seenFinal", "shortDone", "gateMsg",
                                       "gateOn", "pending"}}]
      /\ bare.shortDone = state.shortDone /\ bare.key = state.key
      /\ state.shortDone \in BOOLEAN
  BY <1>1 DEF States
<1>5. Admitted(state) = Passed(bare, u) BY <1>3 DEF Admitted
<1> HIDE DEF bare, u
<1>6. CASE state.key # u.key
  <2>1. Passed(bare, u) = bare BY <1>4, <1>6 DEF Passed
  <2> QED BY <1>4, <1>5, <1>6, <2>1 DEF u
<1>7. CASE state.key = u.key /\ u.after = Short
  <2>1. Passed(bare, u) = [bare EXCEPT !.shortDone = TRUE] BY <1>4, <1>7 DEF Passed
  <2>2. Passed(bare, u).shortDone = TRUE BY <1>4, <2>1
  <2> QED BY <1>4, <1>5, <1>7, <2>2 DEF u
<1>8. CASE state.key = u.key /\ u.after # Short
  <2>1. Passed(bare, u) = [bare EXCEPT !.offset = Max2(@, u.after)] BY <1>4, <1>8 DEF Passed
  <2>2. Passed(bare, u).shortDone = bare.shortDone BY <1>4, <2>1
  <2> QED BY <1>4, <1>5, <1>8, <2>2 DEF u
<1> QED BY <1>6, <1>7, <1>8

LEMMA AdmittedTypes ==
  ASSUME NEW state, StateTypes(state), state.pending # <<>>
  PROVE  LET next == Admitted(state) IN
         StateTypes(next) /\ next.offset \in {state.offset, state.pending[1].after}
<1> DEFINE next == Admitted(state)
           u == state.pending[1]
<1>1. state \in States BY DEF StateTypes
<1>2. state.pending \in Seq(Utterances) BY <1>1 DEF States
<1>3. u \in Utterances /\ Tail(state.pending) \in Seq(Utterances)
  BY <1>2, HeadIs, HeadTailProperties
<1>4. u.key \in Keys /\ u.after \in Nat BY <1>3 DEF Utterances
<1> HIDE DEF u
<1>5. /\ next.key = state.key /\ next.parts = state.parts
      /\ next.seenFinal = state.seenFinal /\ next.gateMsg = state.gateMsg
      /\ next.gateOn = state.gateOn /\ next.pending = Tail(state.pending)
      /\ next.offset = IF state.key = u.key /\ u.after # Short
                            THEN Max2(state.offset, u.after) ELSE state.offset
      /\ next = [offset |-> next.offset, key |-> next.key, parts |-> next.parts,
                    seenFinal |-> next.seenFinal, shortDone |-> next.shortDone,
                    gateMsg |-> next.gateMsg, gateOn |-> next.gateOn, pending |-> next.pending]
  BY AdmittedIs DEF u
<1>6. next.shortDone \in BOOLEAN BY AdmittedShort
<1> HIDE DEF next
<1>7. state.offset \in Nat BY <1>1 DEF States
<1>8. next.offset \in {state.offset, u.after} /\ next.offset \in Nat
      /\ (next.key = NoKey => next.offset = state.offset)
  <2>1. state.key = NoKey => state.key # u.key BY <1>4, KeysAre
  <2> QED BY <1>4, <1>5, <1>7, <2>1 DEF Max2
<1>9. next \in States
  <2>1. /\ state.key \in Keys \cup {NoKey} /\ state.parts \in SUBSET Nat /\ state.seenFinal \in BOOLEAN
        /\ state.gateMsg \in Keys \cup {NoKey} /\ state.gateOn \in BOOLEAN
    BY <1>1 DEF States
  <2>2. /\ next.key \in Keys \cup {NoKey} /\ next.parts \in SUBSET Nat /\ next.seenFinal \in BOOLEAN
        /\ next.gateMsg \in Keys \cup {NoKey} /\ next.gateOn \in BOOLEAN
        /\ next.pending \in Seq(Utterances)
    BY <1>3, <1>5, <2>1
  <2> QED BY <1>5, <1>6, <1>8, <2>2 DEF States
<1>10. StateTypes(next) BY <1>5, <1>8, <1>9 DEF StateTypes
<1> QED BY <1>8, <1>10 DEF next, u

LEMMA AdmittedMarks ==
  ASSUME NEW state, StateTypes(state), state.pending # <<>>, NEW m
  PROVE  LET u == state.pending[1] IN
         MarksOf(state, m) =
           MarksOf(Admitted(state), m) \cup (IF u.key = m THEN {u.after} ELSE {})
<1> DEFINE s == state.pending
           t == Tail(s)
           u == s[1]
<1>1. s \in Seq(Utterances) /\ s # <<>> BY DEF StateTypes, States
<1>2. Admitted(state).pending = t BY AdmittedIs
<1> HIDE DEF s
<1>3. /\ Len(s) \in Nat \ {0} /\ DOMAIN s = 1..Len(s)
      /\ Len(t) = Len(s) - 1 /\ DOMAIN t = 1..(Len(s) - 1)
      /\ \A i \in DOMAIN t : t[i] = s[i + 1]
  BY <1>1, HeadIs, HeadTailProperties
<1> HIDE DEF t
<1>4. \A i \in DOMAIN t : i + 1 \in DOMAIN s /\ t[i] = s[i + 1] BY <1>3
<1>5. \A i \in DOMAIN s : i = 1 \/ (i - 1 \in DOMAIN t /\ t[i - 1] = s[i])
  <2> TAKE i \in DOMAIN s
  <2>1. CASE i # 1
    <3>1. i - 1 \in DOMAIN t /\ (i - 1) + 1 = i BY <1>3, <2>1
    <3> QED BY <1>3, <3>1
  <2> QED BY <2>1
<1>6. 1 \in DOMAIN s BY <1>3
<1> DEFINE old == {s[i].after : i \in {j \in DOMAIN s : s[j].key = m}}
           new == {t[i].after : i \in {j \in DOMAIN t : t[j].key = m}}
<1>7. \A x \in old : x \in new \/ (u.key = m /\ x = u.after) BY <1>5
<1>8. \A x \in new : x \in old BY <1>4
<1>9. u.key = m => u.after \in old BY <1>6
<1>10. old = new \cup (IF u.key = m THEN {u.after} ELSE {})
  <2> HIDE DEF old, new
  <2> QED BY <1>7, <1>8, <1>9
<1>11. MarksOf(state, m) = old /\ MarksOf(Admitted(state), m) = new
  BY <1>2 DEF MarksOf, s, t
<1> HIDE DEF old, new
<1> QED BY <1>10, <1>11 DEF s

\* The mark a state commits is one that counted already.
LEMMA AdmittedAcc ==
  ASSUME NEW state, StateTypes(state), state.pending # <<>>, NEW m \in Keys, state.key = m,
         NEW done, AccOK(m, AccOf(state, m), done)
  PROVE  /\ AccOK(m, AccOf(Admitted(state), m), done)
         /\ AccOf(Admitted(state), m).emitted = AccOf(state, m).emitted
         /\ AccOf(Admitted(state), m).shortDone <=> AccOf(state, m).shortDone
<1> DEFINE next == Admitted(state)
           u == state.pending[1]
           acc == AccOf(state, m)
           fed == AccOf(next, m)
           old == MarksOf(state, m)
           new == MarksOf(next, m)
<1>1. state \in States BY DEF StateTypes
<1>2. u \in Utterances
  <2>1. state.pending \in Seq(Utterances) BY <1>1 DEF States
  <2> QED BY <2>1, HeadIs
<1>3. u.after \in Nat BY <1>2 DEF Utterances
<1>4. /\ next.key = m /\ next.parts = state.parts /\ next.seenFinal = state.seenFinal
      /\ next.offset = IF m = u.key /\ u.after # Short
                            THEN Max2(state.offset, u.after) ELSE state.offset
  BY AdmittedIs
<1>5. next.shortDone <=> state.shortDone \/ (m = u.key /\ u.after = Short)
  BY AdmittedShort
<1>6. StateTypes(next) /\ next \in States BY AdmittedTypes DEF StateTypes
<1>7. old = new \cup (IF u.key = m THEN {u.after} ELSE {}) BY AdmittedMarks
<1>8. /\ acc.parts = state.parts /\ acc.seenFinal = state.seenFinal
      /\ acc.emitted \in Nat /\ acc.emitted \in {state.offset} \cup old
      /\ state.offset <= acc.emitted /\ \A x \in old : x <= acc.emitted
  BY <1>1, AccOfOwn
<1>9. /\ fed.parts = next.parts /\ fed.seenFinal = next.seenFinal
      /\ fed.emitted \in Nat /\ fed.emitted \in {next.offset} \cup new
      /\ next.offset <= fed.emitted /\ \A x \in new : x <= fed.emitted
  BY <1>4, <1>6, AccOfOwn
<1>10. /\ acc.shortDone <=> state.shortDone \/ Short \in old
       /\ fed.shortDone <=> next.shortDone \/ Short \in new
  BY <1>1, <1>4, <1>6, AccOfMarks, AccOfOwn
<1>11. AccTypes(m, fed) BY <1>6, AccOfTypes
<1>12. state.offset \in Nat BY <1>1 DEF States
<1>13. fed.emitted = acc.emitted
  <2> DEFINE x == state.offset
             y == next.offset
             a == acc.emitted
             f == fed.emitted
             w == u.after
  <2>1. CASE m = u.key
    <3>1. /\ old = new \cup {w} /\ w \in Nat
          /\ y = IF w # Short THEN Max2(x, w) ELSE x
      BY <1>3, <1>4, <1>7, <2>1
    <3>2. /\ a \in Nat /\ a \in {x} \cup old /\ x <= a /\ \A z \in old : z <= a
          /\ f \in Nat /\ f \in {y} \cup new /\ y <= f /\ \A z \in new : z <= f /\ x \in Nat
      BY <1>8, <1>9, <1>12
    <3> HIDE DEF x, y, a, f, w, old, new
    <3>3. /\ y \in Nat /\ x <= y /\ w <= y /\ y \in {x, w}
      BY <3>1, <3>2 DEF Max2, Short
    <3>4. y <= a BY <3>1, <3>2, <3>3
    <3>5. f <= a BY <3>1, <3>2, <3>4
    <3>6. a <= f
      <4>1. CASE a \in {x, w} BY <3>1, <3>2, <3>3, <4>1
      <4>2. CASE a \in new BY <3>2, <4>2
      <4> QED BY <3>1, <3>2, <4>1, <4>2
    <3>7. f = a BY <3>2, <3>5, <3>6
    <3> QED BY <3>7 DEF f, a
  <2>2. CASE m # u.key
    <3>1. old = new /\ y = x BY <1>4, <1>7, <2>2
    <3>2. /\ a \in Nat /\ a \in {x} \cup old /\ x <= a /\ \A z \in old : z <= a
          /\ f \in Nat /\ f \in {y} \cup new /\ y <= f /\ \A z \in new : z <= f
      BY <1>8, <1>9
    <3> HIDE DEF x, y, a, f, w, old, new
    <3>3. a <= f /\ f <= a BY <3>1, <3>2
    <3>4. f = a BY <3>2, <3>3
    <3> QED BY <3>4 DEF f, a
  <2> QED BY <2>1, <2>2
<1>14. fed.shortDone <=> acc.shortDone
  <2>1. Short \in old <=> Short \in new \/ (m = u.key /\ u.after = Short) BY <1>7
  <2> HIDE DEF old, new, acc, fed, next, u
  <2> QED BY <1>5, <1>10, <2>1
<1>15. AccOK(m, fed, done)
  <2>1. fed.parts = acc.parts /\ fed.seenFinal = acc.seenFinal BY <1>4, <1>8, <1>9
  <2> HIDE DEF acc, fed
  <2> QED BY <1>11, <1>13, <1>14, <2>1, AccTransfer DEF acc, fed
<1> QED BY <1>13, <1>14, <1>15

-----------------------------------------------------------------------------
(* The lock file.                                                          *)

Processes ==
  /\ DOMAIN proc = Procs
  /\ \A p \in Procs :
       DOMAIN proc[p] = {"pc", "batch", "mic", "digests", "held", "mem"}

Apart == \A p, q \in Procs : Inside(p) /\ Inside(q) => p = q

\* What a process has read or selected is what the file says.
CopyIsFile ==
  \A p \in Procs : proc[p].pc \in {"offer", "commit", "leave"} => proc[p].mem = file

Inv == Processes /\ Apart /\ CopyIsFile

LEMMA DiskServes == ASSUME NEW serves, Disk(serves), sound' PROVE serves /\ sound /\ upsets' = upsets
BY DEF Disk

\* A process that enters, and leaves the file sound, finds nobody inside.
LEMMA EntryKeepsInv ==
  ASSUME Inv, NEW p \in Procs, NEW held, Enter(p, held), sound', UNCHANGED file
  PROVE  Inv'
<1>1. /\ DOMAIN proc' = Procs /\ proc'[p].pc = "entered"
      /\ DOMAIN proc'[p] = DOMAIN proc[p]
      /\ \A q \in Procs \ {p} : proc'[q] = proc[q]
  BY DEF Enter, Inv, Processes
<1>2. \A q \in Procs : ~Inside(q) BY DEF Enter
<1>3. \A q \in Procs \ {p} : ~Inside(q)' BY <1>1, <1>2 DEF Inside
<1>4. Processes' BY <1>1 DEF Inv, Processes
<1>5. Apart' BY <1>3 DEF Apart
<1>6. CopyIsFile' BY <1>1, <1>2 DEF Inv, CopyIsFile, Inside
<1> QED BY <1>4, <1>5, <1>6 DEF Inv

\* A step of one process that does not enter, and touches the file from inside
\* only.
LEMMA OwnStepKeepsInv ==
  ASSUME Inv, NEW p \in Procs, NEW r, proc' = [proc EXCEPT ![p] = r],
         DOMAIN r = DOMAIN proc[p],
         r.pc \in {"idle", "spin", "breaking"} \/ Inside(p),
         r.pc \in {"offer", "commit", "leave"} => r.mem = file',
         Inside(p) \/ file' = file
  PROVE  Inv'
<1>1. /\ DOMAIN proc' = Procs /\ proc'[p] = r
      /\ \A q \in Procs \ {p} : proc'[q] = proc[q]
  BY DEF Inv, Processes
<1>2. Processes' BY <1>1 DEF Inv, Processes
<1>3. \A q \in Procs : Inside(q)' => Inside(q) BY <1>1 DEF Inside
<1>4. Apart' BY <1>3 DEF Inv, Apart
<1>5. \A q \in Procs : Inside(p) /\ Inside(q) => q = p BY DEF Inv, Apart
<1>6. CopyIsFile' BY <1>1, <1>5 DEF Inv, CopyIsFile, Inside
<1> QED BY <1>2, <1>4, <1>6 DEF Inv

LEMMA InvStep ==
  ASSUME Inv, sound', Next
  PROVE  Inv'
<1>1. ASSUME NEW p \in Procs, \E batch : Start(p, batch), UNCHANGED file
      PROVE  Inv'
  BY <1>1, OwnStepKeepsInv DEF Start, Idle, Inv, Processes
<1>2. ASSUME NEW p \in Procs, Deliver(p) \/ Repeat(p) \/ Retry(p) PROVE Inv'
  BY <1>1, <1>2 DEF Deliver, Repeat, Retry
<1>3. ASSUME NEW p \in Procs, Acquire(p) \/ GiveUp(p) PROVE Inv'
  BY <1>3, EntryKeepsInv DEF Acquire, GiveUp
<1>5. ASSUME NEW p \in Procs, FindStale(p) \/ BreakStale(p) PROVE Inv'
  <2>1. PICK pc \in {"spin", "breaking"} : proc' = [proc EXCEPT ![p].pc = pc] /\ file' = file
    BY <1>5 DEF FindStale, BreakStale
  <2> DEFINE r == [proc[p] EXCEPT !.pc = pc]
  <2>2. proc' = [proc EXCEPT ![p] = r] BY <2>1
  <2>3. DOMAIN r = DOMAIN proc[p] /\ r.pc = pc BY DEF Inv, Processes
  <2> HIDE DEF r
  <2> QED BY <2>1, <2>2, <2>3, OwnStepKeepsInv
<1>6. ASSUME NEW p \in Procs, SelectLines(p) PROVE Inv'
  <2>1. PICK state : \E prev, written :
              /\ proc' = [proc EXCEPT ![p].pc = "offer", ![p].mem = state]
              /\ file' = IF written THEN state ELSE file
              /\ Disk(prev = file /\ written)
    BY <1>6 DEF SelectLines
  <2> DEFINE r == [proc[p] EXCEPT !.pc = "offer", !.mem = state]
  <2>2. proc' = [proc EXCEPT ![p] = r] BY <2>1
  <2>3. /\ DOMAIN r = DOMAIN proc[p] /\ r.pc = "offer" /\ r.mem = state /\ Inside(p)
    BY <1>6 DEF Inv, Processes, SelectLines, Inside
  <2>4. file' = state BY <2>1, DiskServes
  <2> HIDE DEF r
  <2> QED BY <2>2, <2>3, <2>4, OwnStepKeepsInv
<1>7. ASSUME NEW p \in Procs, ReadPending(p) PROVE Inv'
  <2>1. PICK read : /\ proc' = [proc EXCEPT ![p].pc = "offer", ![p].mem = read]
                    /\ Disk(read = file) /\ file' = file
    BY <1>7 DEF ReadPending
  <2> DEFINE r == [proc[p] EXCEPT !.pc = "offer", !.mem = read]
  <2>2. proc' = [proc EXCEPT ![p] = r] BY <2>1
  <2>3. /\ DOMAIN r = DOMAIN proc[p] /\ r.pc = "offer" /\ r.mem = read /\ Inside(p)
    BY <1>7 DEF Inv, Processes, ReadPending, Inside
  <2>4. read = file BY <2>1, DiskServes
  <2> HIDE DEF r
  <2> QED BY <2>1, <2>2, <2>3, <2>4, OwnStepKeepsInv
<1>8. ASSUME NEW p \in Procs, Offer(p) PROVE Inv'
  <2>1. PICK pc \in {"commit", "leave"} : proc' = [proc EXCEPT ![p].pc = pc]
    BY <1>8 DEF Offer
  <2> DEFINE r == [proc[p] EXCEPT !.pc = pc]
  <2>2. proc' = [proc EXCEPT ![p] = r] BY <2>1
  <2>3. /\ DOMAIN r = DOMAIN proc[p] /\ r.pc = pc /\ r.mem = file /\ Inside(p)
    BY <1>8 DEF Inv, Processes, CopyIsFile, Offer, Inside
  <2>4. UNCHANGED file BY <1>8 DEF Offer
  <2> HIDE DEF r
  <2> QED BY <2>1, <2>2, <2>3, <2>4, OwnStepKeepsInv
<1>9. ASSUME NEW p \in Procs, Commit(p) PROVE Inv'
  <2> DEFINE r == [proc[p] EXCEPT !.pc = "offer", !.mem = Admitted(proc[p].mem)]
  <2>1. PICK written \in BOOLEAN :
             Disk(written) /\ file' = IF written THEN Admitted(proc[p].mem) ELSE file
    BY <1>9 DEF Commit
  <2>2. file' = Admitted(proc[p].mem) BY <2>1, DiskServes
  <2>3. proc' = [proc EXCEPT ![p] = r] BY <1>9 DEF Commit, Inv, Processes
  <2>4. /\ DOMAIN r = DOMAIN proc[p] /\ r.pc = "offer" /\ Inside(p)
        /\ r.mem = Admitted(proc[p].mem)
    BY <1>9 DEF Inv, Processes, Commit, Inside
  <2> HIDE DEF r
  <2> QED BY <2>2, <2>3, <2>4, OwnStepKeepsInv
<1>10. ASSUME NEW p \in Procs, Leave(p) \/ Crash(p) PROVE Inv'
  <2>1. proc' = [proc EXCEPT ![p] = Idle] /\ file' = file BY <1>10 DEF Leave, Crash
  <2>2. DOMAIN Idle = DOMAIN proc[p] /\ Idle.pc = "idle"
    BY DEF Idle, Inv, Processes
  <2> QED BY <2>1, <2>2, OwnStepKeepsInv
<1>11. CASE Flip
  BY <1>11 DEF Flip, Inv, Processes, Apart, CopyIsFile, Inside
<1> QED BY <1>2, <1>3, <1>5, <1>6, <1>7, <1>8, <1>9, <1>10, <1>11 DEF Next

\* The sound history never comes back.
LEMMA SoundLasts == ASSUME [Next]_vars, sound' PROVE sound
<1>1. \A p, held : Enter(p, held) => sound BY DEF Enter
<1>2. \A serves : Disk(serves) => sound BY DiskServes
<1>3. CASE UNCHANGED vars BY <1>3 DEF vars
<1>4. ASSUME NEW p \in Procs,
             \/ Deliver(p) \/ Repeat(p) \/ Retry(p) \/ FindStale(p) \/ BreakStale(p)
             \/ Offer(p) \/ Leave(p) \/ Crash(p)
      PROVE  sound
  BY <1>4 DEF Deliver, Repeat, Retry, FindStale, BreakStale, Offer, Leave, Crash
<1>5. ASSUME NEW p \in Procs,
             Acquire(p) \/ GiveUp(p) \/ SelectLines(p) \/ ReadPending(p) \/ Commit(p)
      PROVE  sound
  BY <1>1, <1>2, <1>5 DEF Acquire, GiveUp, SelectLines, ReadPending, Commit
<1>6. CASE Flip BY <1>6 DEF Flip
<1> QED BY <1>3, <1>4, <1>5, <1>6 DEF Next

-----------------------------------------------------------------------------
(* Types.                                                                  *)

Records(known) ==
  [pc : {"idle", "spin", "breaking", "entered", "offer", "commit", "leave"},
   batch : known \cup {NoBatch}, mic : BOOLEAN, digests : BOOLEAN, held : BOOLEAN, mem : States]

Fates == [Keys -> {"new", "open", "gated", "holed"}]

\* How the messages went, as far as that binds the file: not at all any more
\* once it is not sound.
Went == IF sound THEN fate ELSE [m \in Keys |-> "holed"]

\* StateOK of a state and of how the messages went.
StateIn(state, went) ==
  /\ StateTypes(state)
  /\ state.key # NoKey /\ went[state.key] # "holed" =>
       state.offset \in {0} \cup Marks(state.key)

LEMMA StateInIs == \A state : StateOK(state) <=> StateIn(state, Went)
<1> TAKE state
<1>1. state \in States /\ state.key # NoKey =>
        (Went[state.key] # "holed" <=> sound /\ fate[state.key] # "holed")
  BY DEF Went, States
<1> QED BY <1>1 DEF StateOK, StateIn, StateTypes

\* Once a message is holed it stays so.
Holes(before, after) == \A m \in Keys : before[m] = "holed" => after[m] = "holed"

LEMMA StateInStays ==
  ASSUME NEW state, NEW before, NEW after, StateIn(state, before), Holes(before, after)
  PROVE  StateIn(state, after)
<1>1. state.key \in Keys \cup {NoKey} BY DEF StateIn, StateTypes, States
<1> QED BY <1>1 DEF StateIn, Holes

LEMMA GoesOn ==
  ASSUME sound' => sound, Holes(fate, fate')
  PROVE  Holes(Went, Went')
<1>1. CASE sound' BY <1>1 DEF Went, Holes
<1>2. CASE ~sound' BY <1>2 DEF Went, Holes
<1> QED BY <1>1, <1>2

LEMMA FreshIs == \A went : StateIn(Fresh, went) /\ Fresh \in States
<1>1. Fresh \in States
  <2>1. NoKey \in Keys \cup {NoKey} /\ {} \in SUBSET Nat /\ <<>> \in Seq(Utterances)
    BY EmptySeq
  <2>2. 0 \in Nat OBVIOUS
  <2> QED BY <2>1, <2>2 DEF Fresh, States
<1> QED BY <1>1 DEF Fresh, StateIn, StateTypes

\* The parts of TypeOK that are not about one process.
Others ==
  /\ StateOK(file)
  /\ lock \in BOOLEAN /\ micActive \in BOOLEAN /\ digestsOn \in BOOLEAN
  /\ sent \subseteq AllBatches /\ counted \subseteq sent
  /\ fate \in Fates
  /\ accepted \in Seq(Utterances) /\ Len(accepted) <= AcceptedMax
  /\ spoken \in [Keys -> Seq(Utterances)]
  /\ patient \in BOOLEAN /\ sound \in BOOLEAN
  /\ upsets \in 0..MaxUpsets

LEMMA TypeOKIs ==
  TypeOK <=> /\ Others /\ proc \in [Procs -> Records(sent)]
             /\ \A p \in Procs : StateIn(proc[p].mem, Went)
BY StateInIs DEF TypeOK, Others, Records, Fates

LEMMA TypeOKNext ==
  (TypeOK <=> /\ Others /\ proc \in [Procs -> Records(sent)]
              /\ \A p \in Procs : StateIn(proc[p].mem, Went))'
BY TypeOKIs, PTL

LEMMA ProcessesAre == TypeOK => Processes
BY TypeOKIs DEF Processes, Records

LEMMA FileIs == StateOK(file) <=> StateIn(file, Went)
BY StateInIs

LEMMA FileNext == (StateOK(file) <=> StateIn(file, Went))'
BY FileIs, PTL

\* What a step that leaves file, engine and history alone keeps.
LEMMA OthersStay ==
  ASSUME TypeOK, UNCHANGED <<file, accepted, spoken, counted, fate>>, sound' => sound,
         sound' \in BOOLEAN, patient' \in BOOLEAN, lock' \in BOOLEAN, micActive' \in BOOLEAN,
         digestsOn' \in BOOLEAN, sent \subseteq sent', sent' \subseteq AllBatches,
         upsets' \in 0..MaxUpsets
  PROVE  Others' /\ Holes(Went, Went')
<1>1. Others /\ StateIn(file, Went) BY TypeOKIs, StateInIs DEF Others
<1>2. Holes(Went, Went') BY GoesOn DEF Holes
<1>3. StateIn(file', Went') BY <1>1, <1>2, StateInStays
<1> QED BY <1>1, <1>2, <1>3, FileNext DEF Others

LEMMA InitTypes == Init => TypeOK
<1> SUFFICES ASSUME Init PROVE TypeOK OBVIOUS
<1>1. StateOK(file) BY StateInIs, FreshIs DEF Init
<1>2. Idle \in Records(sent)
  <2>1. NoBatch \in sent \cup {NoBatch} OBVIOUS
  <2> QED BY <2>1, FreshIs DEF Idle, Records
<1>3. Idle.mem = Fresh BY DEF Idle
<1>4. /\ fate \in Fates /\ spoken \in [Keys -> Seq(Utterances)]
      /\ accepted \in Seq(Utterances) /\ Len(accepted) <= AcceptedMax
  <2>1. <<>> \in Seq(Utterances) /\ Len(<<>>) = 0 BY EmptySeq
  <2> QED BY <2>1, NarrationAssumption DEF Init, Fates
<1>5. upsets \in 0..MaxUpsets BY NarrationAssumption DEF Init
<1>6. Others BY <1>1, <1>4, <1>5 DEF Init, Others
<1>7. proc \in [Procs -> Records(sent)] /\ \A p \in Procs : proc[p].mem = Fresh
  BY <1>2, <1>3 DEF Init
<1> QED BY <1>6, <1>7, FreshIs, TypeOKIs

\* A step of one process.
LEMMA OwnStepTypes ==
  ASSUME TypeOK, NEW p \in Procs, NEW r, r \in Records(sent'), proc' = [proc EXCEPT ![p] = r],
         StateIn(r.mem, Went'), sent \subseteq sent', Holes(Went, Went'), Others'
  PROVE  TypeOK'
<1>1. proc \in [Procs -> Records(sent)] /\ \A q \in Procs : StateIn(proc[q].mem, Went)
  BY TypeOKIs
<1>2. \A s \in Records(sent) : s \in Records(sent') BY DEF Records
<1>3. proc' \in [Procs -> Records(sent')] BY <1>1, <1>2
<1>4. \A q \in Procs : proc'[q] = IF q = p THEN r ELSE proc[q] BY <1>1
<1>5. ASSUME NEW q \in Procs PROVE StateIn(proc'[q].mem, Went')
  <2>1. CASE q = p BY <1>4, <2>1
  <2>2. CASE q # p
    <3>1. proc'[q] = proc[q] BY <1>4, <2>2
    <3>2. StateIn(proc[q].mem, Went) BY <1>1
    <3> QED BY <3>1, <3>2, StateInStays
  <2> QED BY <2>1, <2>2
<1>6. (\A q \in Procs : StateIn(proc[q].mem, Went))' BY <1>5
<1> QED BY <1>3, <1>6, TypeOKNext

\* The record of one process, with what changed in it.
LEMMA RecordOf ==
  ASSUME TypeOK, NEW p \in Procs
  PROVE  /\ proc[p] \in Records(sent) /\ proc[p].mem \in States
         /\ proc[p].batch # NoBatch =>
              /\ proc[p].batch[1] \in Keys
              /\ proc[p].batch[2] \in DOMAIN Batches[proc[p].batch[1]]
              /\ proc[p].batch \in sent
              /\ proc[p].batch = <<proc[p].batch[1], proc[p].batch[2]>>
         /\ proc[p].digests \in BOOLEAN
         /\ StateIn(proc[p].mem, Went)
<1>1. proc[p] \in Records(sent) /\ StateIn(proc[p].mem, Went) BY TypeOKIs
<1>2. proc[p].batch \in sent \cup {NoBatch} /\ proc[p].mem \in States /\ proc[p].digests \in BOOLEAN
  BY <1>1 DEF Records
<1>3. sent \subseteq AllBatches BY TypeOKIs DEF Others
<1>4. \A b \in AllBatches : /\ b[1] \in Keys /\ b[2] \in DOMAIN Batches[b[1]]
                            /\ b = <<b[1], b[2]>>
  BY DEF AllBatches
<1> QED BY <1>1, <1>2, <1>3, <1>4

LEMMA UpsetTypes ==
  ASSUME upsets \in 0..MaxUpsets, Upset
  PROVE  upsets' \in 0..MaxUpsets
BY NarrationAssumption DEF Upset

LEMMA DiskTypes ==
  ASSUME TypeOK, NEW serves, Disk(serves)
  PROVE  upsets' \in 0..MaxUpsets /\ sound' \in BOOLEAN
<1>1. upsets \in 0..MaxUpsets /\ sound \in BOOLEAN BY TypeOKIs DEF Others
<1> QED BY <1>1, UpsetTypes DEF Disk

\* Steps that leave file, engine and history alone.
LEMMA QuietTypes ==
  ASSUME TypeOK, sound' => sound, NEW p \in Procs,
         \/ Deliver(p) \/ Repeat(p) \/ Retry(p) \/ Acquire(p) \/ GiveUp(p)
         \/ FindStale(p) \/ BreakStale(p) \/ ReadPending(p) \/ Leave(p) \/ Crash(p)
  PROVE  TypeOK'
<1>1. /\ upsets \in 0..MaxUpsets /\ sent \subseteq AllBatches /\ counted \subseteq sent
      /\ micActive \in BOOLEAN /\ digestsOn \in BOOLEAN /\ lock \in BOOLEAN
      /\ patient \in BOOLEAN /\ sound \in BOOLEAN /\ StateOK(file)
  BY TypeOKIs DEF Others
<1>2. proc[p] \in Records(sent) /\ StateIn(proc[p].mem, Went) BY RecordOf
<1>4. ASSUME NEW batch, batch \in sent' \cup {NoBatch}, Start(p, batch), Others',
             sent \subseteq sent', Holes(Went, Went')
      PROVE  TypeOK'
  <2> DEFINE r == [Idle EXCEPT !.pc = "spin", !.batch = batch, !.mic = micActive, !.digests = digestsOn]
  <2>1. r \in Records(sent') /\ r.mem = Fresh
    <3>1. Idle \in Records(sent')
      <4>1. NoBatch \in sent' \cup {NoBatch} OBVIOUS
      <4> QED BY <4>1, FreshIs DEF Idle, Records
    <3>2. r \in Records(sent') BY <1>1, <1>4, <3>1 DEF Records
    <3>3. r.mem = Idle.mem BY <3>1 DEF Records
    <3> QED BY <3>2, <3>3 DEF Idle
  <2>2. proc' = [proc EXCEPT ![p] = r] BY <1>4 DEF Start
  <2> HIDE DEF r
  <2> QED BY <1>4, <2>1, <2>2, FreshIs, OwnStepTypes
<1>5. CASE Deliver(p)
  <2>1. PICK next \in AllBatches \ sent : Start(p, next) /\ sent' = sent \cup {next}
    BY <1>5 DEF Deliver
  <2>2. UNCHANGED <<file, lock, micActive, digestsOn, accepted, spoken, counted,
                 fate, hushed, patient, sound, upsets>>
    BY <1>5 DEF Deliver
  <2>3. Others' /\ Holes(Went, Went') BY <1>1, <2>1, <2>2, OthersStay
  <2> QED BY <1>4, <2>1, <2>2, <2>3
<1>6. CASE Repeat(p)
  <2>1. PICK batch \in sent : Start(p, batch) BY <1>6 DEF Repeat
  <2>2. UNCHANGED <<file, lock, sent, micActive, digestsOn, accepted, spoken,
                 counted, fate, hushed, patient, sound>> /\ upsets' \in 0..MaxUpsets
    BY <1>1, <1>6, UpsetTypes DEF Repeat
  <2>3. Others' /\ Holes(Went, Went') BY <1>1, <2>2, OthersStay
  <2> QED BY <1>4, <2>1, <2>2, <2>3
<1>7. CASE Retry(p)
  <2>1. Start(p, NoBatch) /\ UNCHANGED <<file, lock, sent, micActive, digestsOn, accepted, spoken,
                 counted, fate, hushed, patient, sound, upsets>>
    BY <1>7 DEF Retry
  <2>2. Others' /\ Holes(Went, Went') BY <1>1, <2>1, OthersStay
  <2> QED BY <1>4, <2>1, <2>2
\* A step of p to another place, with the state it holds.
<1>8. ASSUME NEW pc \in {"spin", "breaking", "entered"}, NEW held \in BOOLEAN,
             proc' = [proc EXCEPT ![p].pc = pc, ![p].held = held], Others', Holes(Went, Went'),
             sent' = sent
      PROVE  TypeOK'
  <2> DEFINE r == [proc[p] EXCEPT !.pc = pc, !.held = held]
  <2>1. r \in Records(sent') /\ r.mem = proc[p].mem BY <1>2, <1>8 DEF Records
  <2>2. proc' = [proc EXCEPT ![p] = r] BY <1>8
  <2> HIDE DEF r
  <2>3. StateIn(r.mem, Went') BY <1>2, <1>8, <2>1, StateInStays
  <2> QED BY <1>8, <2>1, <2>2, <2>3, OwnStepTypes
<1>9. CASE Acquire(p)
  <2>1. Enter(p, TRUE) /\ lock' = TRUE /\ UNCHANGED <<file, sent, micActive, digestsOn, accepted,
           spoken, counted, fate, hushed, patient, upsets>>
    BY <1>9 DEF Acquire
  <2>2. sound' \in BOOLEAN BY <2>1 DEF Enter
  <2>3. Others' /\ Holes(Went, Went') BY <1>1, <2>1, <2>2, OthersStay
  <2> QED BY <1>8, <2>1, <2>3 DEF Enter
<1>10. CASE GiveUp(p)
  <2>1. Enter(p, FALSE) /\ upsets' \in 0..MaxUpsets /\ patient' = FALSE
        /\ UNCHANGED <<file, lock, sent, micActive, digestsOn, accepted,
           spoken, counted, fate, hushed>>
    BY <1>1, <1>10, UpsetTypes DEF GiveUp
  <2>2. sound' \in BOOLEAN BY <2>1 DEF Enter
  <2>3. Others' /\ Holes(Went, Went') BY <1>1, <2>1, <2>2, OthersStay
  <2> QED BY <1>8, <2>1, <2>3 DEF Enter
<1>11. CASE FindStale(p) \/ BreakStale(p)
  <2>1. PICK pc \in {"spin", "breaking"} : proc' = [proc EXCEPT ![p].pc = pc]
    BY <1>11 DEF FindStale, BreakStale
  <2>2. /\ lock' \in BOOLEAN /\ patient' \in BOOLEAN /\ upsets' \in 0..MaxUpsets
        /\ UNCHANGED <<file, sent, micActive, digestsOn, accepted, spoken, counted, fate, sound>>
    BY <1>1, <1>11, UpsetTypes DEF FindStale, BreakStale
  <2>3. Others' /\ Holes(Went, Went') BY <1>1, <2>2, OthersStay
  <2>4. /\ proc[p].held \in BOOLEAN
        /\ proc' = [proc EXCEPT ![p].pc = pc, ![p].held = proc[p].held]
    BY <1>2, <2>1 DEF Records
  <2> QED BY <1>8, <2>2, <2>3, <2>4
<1>12. CASE ReadPending(p)
  <2>1. PICK read \in {file, Fresh} :
          Disk(read = file) /\ proc' = [proc EXCEPT ![p].pc = "offer", ![p].mem = read]
    BY <1>12 DEF ReadPending
  <2> DEFINE r == [proc[p] EXCEPT !.pc = "offer", !.mem = read]
  <2>2. /\ upsets' \in 0..MaxUpsets /\ sound' \in BOOLEAN
        /\ UNCHANGED <<file, lock, sent, micActive, digestsOn, accepted, spoken, counted,
                       fate, hushed, patient>>
    BY <1>12, <2>1, DiskTypes DEF ReadPending
  <2>3. Others' /\ Holes(Went, Went') BY <1>1, <2>2, OthersStay
  <2>4. read \in States /\ StateIn(read, Went) BY <1>1, StateInIs, FreshIs DEF StateOK
  <2>5. StateIn(read, Went') BY <2>3, <2>4, StateInStays
  <2>6. r \in Records(sent') /\ r.mem = read BY <1>2, <2>2, <2>4 DEF Records
  <2>7. proc' = [proc EXCEPT ![p] = r] BY <2>1
  <2> HIDE DEF r
  <2> QED BY <2>2, <2>3, <2>5, <2>6, <2>7, OwnStepTypes
<1>13. CASE Leave(p) \/ Crash(p)
  <2>1. /\ proc' = [proc EXCEPT ![p] = Idle] /\ lock' \in BOOLEAN /\ upsets' \in 0..MaxUpsets
        /\ UNCHANGED <<file, sent, micActive, digestsOn, accepted, spoken, counted, fate, hushed,
                       patient, sound>>
    <3>1. CASE Leave(p) BY <1>1, <3>1 DEF Leave
    <3>2. CASE Crash(p) BY <1>1, <3>2, UpsetTypes DEF Crash
    <3> QED BY <1>13, <3>1, <3>2
  <2>2. Others' /\ Holes(Went, Went') BY <1>1, <2>1, OthersStay
  <2>3. Idle \in Records(sent') /\ Idle.mem = Fresh
    <3>1. NoBatch \in sent' \cup {NoBatch} OBVIOUS
    <3> QED BY <3>1, FreshIs DEF Idle, Records
  <2> QED BY <2>1, <2>2, <2>3, FreshIs, OwnStepTypes
<1> QED BY <1>5, <1>6, <1>7, <1>9, <1>10, <1>11, <1>12, <1>13

LEMMA FlipTypes ==
  ASSUME TypeOK, Flip
  PROVE  TypeOK'
<1>1. UNCHANGED <<file, lock, proc, sent, accepted, spoken, counted, fate, hushed, patient, sound>>
  BY DEF Flip
<1>2. micActive' \in BOOLEAN /\ digestsOn' \in BOOLEAN BY DEF Flip, TypeOK
<1>3. /\ upsets' \in 0..MaxUpsets /\ lock \in BOOLEAN /\ patient \in BOOLEAN /\ sound \in BOOLEAN
      /\ sent \subseteq AllBatches
  BY UpsetTypes DEF Flip, TypeOK
<1>4. Others' BY <1>1, <1>2, <1>3, OthersStay
<1>5. Went' = Went BY <1>1 DEF Went
<1>6. (proc \in [Procs -> Records(sent)] /\ \A q \in Procs : StateIn(proc[q].mem, Went))'
  BY <1>1, <1>5, TypeOKIs
<1> QED BY <1>4, <1>6, TypeOKNext

-----------------------------------------------------------------------------
(* The inductive invariant.                                                *)

Unheard(m, state, said) == said = <<>> /\ MarksOf(state, m) = {}

\* How a message stands: not begun, silenced by the microphone, or open.  Of a
\* holed one nothing is said.
MessageOK(m, went, state, said, muted, done, known) ==
  /\ went = "new" =>
       /\ Unheard(m, state, said) /\ done = {} /\ state.gateMsg # m
       /\ \A n \in Nat : <<m, n>> \notin muted
  /\ went = "gated" => Unheard(m, state, said) /\ (state.gateMsg = m => ~state.gateOn)
  /\ went = "open" =>
       /\ InOrder(m, said, state.pending, known)
       /\ Whole(Told(m, state, said), Kept(m, muted), Len(Batches[m]) \in done)
       /\ state.gateMsg = m => Current(m, state, said, muted, done)

Done(m) == {k \in DOMAIN Batches[m] : <<m, k>> \in counted}

Message(m) == MessageOK(m, fate[m], file, spoken[m], hushed, Done(m), ToSet(accepted))

\* The engine remembers only what it has enqueued, and a process about to commit
\* has had the head of the pending lines admitted.
Engine ==
  /\ \A u \in ToSet(accepted) : u \in ToSet(spoken[u.key])
  /\ \A p \in Procs : proc[p].pc = "commit" =>
       file.pending # <<>> /\ file.pending[1] \in ToSet(accepted)

Messages ==
  /\ \A m \in Keys : Message(m)
  /\ file.key \in {NoKey, file.gateMsg}
  /\ \A m \in Keys : <<m, Short>> \notin hushed

SoundInv == Inv /\ TypeOK /\ Engine /\ Messages

\* A process about to commit has a line to commit, whatever the file says.
Held == \A p \in Procs : proc[p].pc = "commit" => proc[p].mem.pending # <<>>

IInv == TypeOK /\ Held /\ (sound => SoundInv)

LEMMA InitSound == Init => SoundInv
<1> SUFFICES ASSUME Init PROVE SoundInv OBVIOUS
<1>1. Inv BY DEF Init, Inv, Processes, Apart, CopyIsFile, Inside, Idle
<1>2. TypeOK BY InitTypes
<1>3. Engine
  <2>1. ToSet(accepted) = {} BY DEF Init, ToSet
  <2>2. \A p \in Procs : proc[p].pc # "commit" BY DEF Init, Idle
  <2> QED BY <2>1, <2>2 DEF Engine
<1>4. Messages
  <2>1. /\ file.key = NoKey /\ file.gateMsg = NoKey /\ file.pending = <<>> /\ hushed = {}
        /\ counted = {}
    BY DEF Init, Fresh
  <2>2. \A m : MarksOf(file, m) = {} BY <2>1 DEF MarksOf
  <2>3. ASSUME NEW m \in Keys PROVE Message(m)
    <3>1. fate[m] = "new" /\ spoken[m] = <<>> /\ Done(m) = {} BY <2>1, <2>3 DEF Init, Done
    <3>2. file.gateMsg # m BY <2>1, <2>3, KeysAre
    <3>3. Unheard(m, file, spoken[m]) BY <2>2, <3>1 DEF Unheard
    <3> QED BY <2>1, <3>1, <3>2, <3>3 DEF Message, MessageOK
  <2> QED BY <2>1, <2>3 DEF Messages
<1> QED BY <1>1, <1>2, <1>3, <1>4 DEF SoundInv

\* Steps that leave file, engine and history alone.
LEMMA QuietMessages ==
  ASSUME SoundInv, UNCHANGED <<file, accepted, spoken, counted, fate, hushed>>,
         \A p \in Procs : proc'[p].pc = "commit" => proc[p].pc = "commit"
  PROVE  Engine' /\ Messages'
<1>1. Engine' BY DEF SoundInv, Engine
<1>2. \A m : Done(m)' = Done(m) BY DEF Done
<1>3. \A m \in Keys : Message(m)' BY <1>2 DEF SoundInv, Messages, Message
<1>4. Messages' BY <1>3 DEF SoundInv, Messages
<1> QED BY <1>1, <1>4

\* With one process at work there is nobody else about to commit.
LEMMA NobodyElse ==
  ASSUME SoundInv, NEW p \in Procs, Inside(p)
  PROVE  \A q \in Procs \ {p} : ~Inside(q) /\ proc[q].pc # "commit"
BY DEF SoundInv, Inv, Apart, Inside

-----------------------------------------------------------------------------
(* A batch, and the message of the batch.                                  *)

\* A message that is not begun is ready for its first batch.
LEMMA NewReady ==
  ASSUME NEW m \in Keys, NEW state, StateTypes(state), NEW said, NEW muted, NEW done, NEW known,
         MessageOK(m, "new", state, said, muted, done, known),
         state.key \in {NoKey, state.gateMsg}, KnownHeard(m, known, said)
  PROVE  /\ Ready(m, state, said, muted, done, known) /\ AccOf(state, m) = Accum0
         /\ done = {}
<1>1. /\ said = <<>> /\ MarksOf(state, m) = {} /\ done = {} /\ state.gateMsg # m
      /\ \A n \in Nat : <<m, n>> \notin muted
  BY DEF MessageOK, Unheard
<1>2. state.key # m BY <1>1, KeysAre
<1>3. AccOf(state, m) = Accum0 BY <1>2, AccOfOther DEF StateTypes
<1>4. AccOK(m, Accum0, {})
  <2>1. Accum0.emitted = 0 /\ ~Accum0.seenFinal /\ Accum0.parts = {} /\ ~Accum0.shortDone
    BY DEF Accum0
  <2>2. Count(Text[m]) \in Nat BY MarksAre
  <2>3. Chunks(m, {}) = {} BY DEF Chunks
  <2> QED BY <2>1, <2>2, <2>3, Accum0Types DEF AccOK
<1>5. Heard(said) = {} BY <1>1 DEF Heard
<1>6. Told(m, state, said) = {} BY <1>1, <1>5 DEF Told
<1>7. Reached(m, Accum0) = {}
  <2>1. \A n \in Marks(m) : n \in Nat BY MarksAre
  <2>2. Accum0.emitted = 0 /\ ~Accum0.shortDone BY DEF Accum0
  <2>3. \A n \in Nat : n # Short => ~(n <= 0) BY DEF Short
  <2> QED BY <2>1, <2>2, <2>3 DEF Reached
<1>8. InOrder(m, said, state.pending, known)
  <2>1. \A i \in DOMAIN state.pending : state.pending[i].key # m BY <1>1 DEF MarksOf
  <2> QED BY <1>1, <2>1 DEF InOrder
<1>9. said \in Seq(Utterances) /\ Short \in Nat BY <1>1, EmptySeq DEF Short
<1>10. done \in SUBSET DOMAIN Batches[m] BY <1>1
<1> QED BY <1>1, <1>2, <1>3, <1>4, <1>6, <1>7, <1>8, <1>9, <1>10 DEF Ready

\* So is an open one that no other has taken the file from.
LEMMA OpenReady ==
  ASSUME NEW m \in Keys, NEW state, StateTypes(state), NEW said \in Seq(Utterances), NEW muted,
         NEW done \in SUBSET DOMAIN Batches[m], NEW known,
         MessageOK(m, "open", state, said, muted, done, known), state.gateMsg = m,
         KnownHeard(m, known, said), <<m, Short>> \notin muted
  PROVE  Ready(m, state, said, muted, done, known) /\ state.gateOn
BY DEF MessageOK, Current, Ready

\* A message that stays open.
LEMMA OpenAfter ==
  ASSUME NEW m \in Keys, NEW state, NEW said, NEW muted, NEW done, NEW known,
         InOrder(m, said, state.pending, known), Current(m, state, said, muted, done)
  PROVE  MessageOK(m, "open", state, said, muted, done, known)
<1>1. Whole(Told(m, state, said), Kept(m, muted), Len(Batches[m]) \in done)
  BY WholeFrom DEF Current
<1> QED BY <1>1 DEF MessageOK

LEMMA MutedOther ==
  ASSUME NEW m, NEW muted, NEW muted2, \A n : <<m, n>> \in muted2 <=> <<m, n>> \in muted
  PROVE  Kept(m, muted2) = Kept(m, muted)
BY DEF Kept

\* The messages of other batches.
LEMMA OtherMessage ==
  ASSUME NEW m, NEW went, NEW state, StateTypes(state), NEW said, NEW muted, NEW done,
         NEW known, MessageOK(m, went, state, said, muted, done, known),
         NEW new \in Seq(Utterances), \A n \in 1..Len(new) : new[n].key # m,
         NEW next, next.pending = state.pending \o new, next.gateMsg # m,
         NEW muted2, \A n : <<m, n>> \in muted2 <=> <<m, n>> \in muted
  PROVE  MessageOK(m, went, next, said, muted2, done, known)
<1>1. /\ MarksOf(next, m) = MarksOf(state, m)
      /\ InOrder(m, said, state.pending, known) => InOrder(m, said, next.pending, known)
  BY OtherAppended
<1>2. Kept(m, muted2) = Kept(m, muted) BY MutedOther
<1>3. Told(m, next, said) = Told(m, state, said) BY <1>1 DEF Told
<1> QED BY <1>1, <1>2, <1>3 DEF MessageOK, Unheard

\* How a message goes that does not become holed, see Outcome.
Goes(m, k, went, state, done) ==
  /\ went # "holed" /\ (went # "new" => state.gateMsg = m)
  /\ IsFinal(m, k) /\ ~Batches[m][k].whole => 1..(k - 1) \subseteq done
  /\ ~TellsAgain(m, k, AccOf(state, m))

\* The lines that are not to be heard, after a batch.
Silenced(m, state, next, digests, muted) ==
  IF digests \/ next.key # m THEN muted ELSE Muted(m, state, next, muted)

LEMMA SilencedIs ==
  ASSUME NEW m, NEW state, NEW next, NEW digests \in BOOLEAN, NEW muted, next.key = m
  PROVE  Silenced(m, state, next, digests, muted) =
           IF digests THEN muted ELSE Muted(m, state, next, muted)
BY DEF Silenced

\* A batch k of m is due, and this is how m stands.
Turn(m, k, digests, state, said, muted, done, known, went) ==
  /\ m \in Keys /\ k \in DOMAIN Batches[m] /\ digests \in BOOLEAN
  /\ StateTypes(state) /\ said \in Seq(Utterances) /\ done \in SUBSET DOMAIN Batches[m]
  /\ went \in {"new", "open", "gated", "holed"}
  /\ MessageOK(m, went, state, said, muted, done, known)
  /\ state.key \in {NoKey, state.gateMsg} /\ <<m, Short>> \notin muted
  /\ KnownHeard(m, known, said)

LEMMA OpenedMessage ==
  ASSUME NEW m, NEW k, NEW digests, NEW state, NEW said, NEW muted, NEW done, NEW known, NEW went,
         Turn(m, k, digests, state, said, muted, done, known, went),
         state.gateMsg = m => state.gateOn, Goes(m, k, went, state, done),
         NEW next, next = Selected(state, m, k, digests),
         NEW muted2, muted2 = Silenced(m, state, next, digests, muted)
  PROVE  /\ InOrder(m, said, next.pending, known)
         /\ Current(m, next, said, muted2, done \cup {k})
         /\ next.offset \in {0} \cup Marks(m)
<1>0. /\ m \in Keys /\ k \in DOMAIN Batches[m] /\ digests \in BOOLEAN
      /\ StateTypes(state) /\ said \in Seq(Utterances) /\ done \in SUBSET DOMAIN Batches[m]
      /\ went \in {"new", "open", "gated"}
      /\ MessageOK(m, went, state, said, muted, done, known)
      /\ state.key \in {NoKey, state.gateMsg} /\ <<m, Short>> \notin muted
      /\ KnownHeard(m, known, said)
  BY DEF Turn, Goes
<1>1. Ready(m, state, said, muted, done, known)
  <2>1. CASE went = "new" BY <1>0, <2>1, NewReady
  <2>2. CASE went = "open"
    <3>1. state.gateMsg = m BY <2>2 DEF Goes
    <3> QED BY <1>0, <2>2, <3>1, OpenReady
  <2>3. CASE went = "gated"
    <3>1. state.gateMsg = m BY <2>3 DEF Goes
    <3> QED BY <1>0, <2>3, <3>1 DEF MessageOK
  <2> QED BY <1>0, <2>1, <2>2, <2>3
<1>2. /\ InOrder(m, said, next.pending, known)
      /\ Current(m, next, said, muted2, done \cup {k})
  <2>1. next.key = m BY SelectedIs
  <2>2. muted2 = IF digests THEN muted ELSE Muted(m, state, next, muted) BY <1>0, <2>1, SilencedIs
  <2> QED BY <1>0, <1>1, <2>2, SelectKeeps DEF Goes
<1>3. StateTypes(next) /\ next.key = m BY <1>0, SelectedTypes
<1>4. AccOK(m, AccOf(next, m), done \cup {k}) BY <1>2 DEF Current
<1>5. next.offset \in {0} \cup Marks(m) BY <1>0, <1>3, <1>4, OffsetFits
<1> QED BY <1>2, <1>5

LEMMA GatedMessage ==
  ASSUME NEW m, NEW k, NEW digests, NEW state, NEW said, NEW muted, NEW done, NEW known, NEW went,
         Turn(m, k, digests, state, said, muted, done, known, went),
         state.gateMsg = m => ~state.gateOn, Goes(m, k, went, state, done)
  PROVE  Unheard(m, Gated(state, m), said) /\ ~Gated(state, m).gateOn
<1>0. /\ m \in Keys /\ StateTypes(state) /\ went \in {"new", "open", "gated"}
      /\ MessageOK(m, went, state, said, muted, done, known)
  BY DEF Turn, Goes
<1>1. Unheard(m, state, said)
  <2>1. CASE went = "open"
    <3>1. state.gateMsg = m BY <2>1 DEF Goes
    <3>2. state.gateOn BY <1>0, <2>1, <3>1 DEF MessageOK, Current
    <3> QED BY <3>1, <3>2
  <2>2. CASE went # "open" BY <1>0, <2>2 DEF MessageOK
  <2> QED BY <2>1, <2>2
<1>2. Gated(state, m).pending = state.pending /\ ~Gated(state, m).gateOn BY <1>0, GatedIs
<1>3. MarksOf(Gated(state, m), m) = MarksOf(state, m) BY <1>2 DEF MarksOf
<1> QED BY <1>1, <1>2, <1>3 DEF Unheard

\* Either way, the message stands as it goes.
Follows(m, goes, next, said, muted, done, known) ==
  /\ goes = "open" => InOrder(m, said, next.pending, known) /\ Current(m, next, said, muted, done)
  /\ goes = "gated" => Unheard(m, next, said) /\ ~next.gateOn

LEMMA FollowsIs ==
  ASSUME NEW m \in Keys, NEW goes \in {"open", "gated", "holed"}, NEW next, NEW said, NEW muted,
         NEW done, NEW known, Follows(m, goes, next, said, muted, done, known)
  PROVE  MessageOK(m, goes, next, said, muted, done, known)
BY OpenAfter DEF Follows, MessageOK

\* The state after a batch, and its new lines.
After(state, m, k, mic, digests) ==
  IF GateOpen(state, m, mic) THEN Selected(state, m, k, digests) ELSE Gated(state, m)

Grows(state, next, m) ==
  \E new \in Seq(Utterances) :
    next.pending = state.pending \o new /\ \A n \in 1..Len(new) : new[n].key = m

LEMMA NewPending ==
  ASSUME NEW m \in Keys, NEW k \in DOMAIN Batches[m], NEW digests \in BOOLEAN, NEW state,
         StateTypes(state), NEW mic, NEW next, next = After(state, m, k, mic, digests)
  PROVE  Grows(state, next, m)
<1> SUFFICES \E new \in Seq(Utterances) :
           next.pending = state.pending \o new /\ \A n \in 1..Len(new) : new[n].key = m
  BY DEF Grows
<1>1. CASE GateOpen(state, m, mic)
  <2> DEFINE new == NewLines(state, m, k, digests)
  <2>1. new \in Seq(Utterances) BY NewLinesAre
  <2>2. \A n \in 1..Len(new) : new[n].key = m
    <3> DEFINE fed == FedOf(state, m, k, digests)
               o == AccOf(state, m).emitted
    <3>1. \A n \in 1..Len(new) :
            new[n] = [key |-> m, text |-> fed.speak[n],
                      after |-> IF fed.acc.emitted - o = 0 THEN Short ELSE o + n]
      BY NewLinesAre
    <3> HIDE DEF new, fed, o
    <3>2. ASSUME NEW n \in 1..Len(new) PROVE new[n].key = m
      <4> DEFINE x == IF fed.acc.emitted - o = 0 THEN Short ELSE o + n
      <4>1. new[n] = [key |-> m, text |-> fed.speak[n], after |-> x] BY <3>1, <3>2
      <4> HIDE DEF x
      <4> QED BY <4>1
    <3> QED BY <3>2
  <2>3. next = Selected(state, m, k, digests) BY <1>1 DEF After
  <2>4. next.pending = state.pending \o new BY <2>3, SelectedPending
  <2> QED BY <2>1, <2>2, <2>4
<1>2. CASE ~GateOpen(state, m, mic)
  <2>1. next = Gated(state, m) BY <1>2 DEF After
  <2>2. next.pending = state.pending BY <2>1, GatedIs
  <2>3. state.pending \in Seq(Utterances) BY DEF StateTypes, States
  <2>4. state.pending \o <<>> = state.pending
    <3> DEFINE s == state.pending
    <3> HIDE DEF s
    <3>1. s \o <<>> = s BY <2>3, ConcatEmptySeq DEF s
    <3> QED BY <3>1 DEF s
  <2>5. <<>> \in Seq(Utterances) /\ \A n \in 1..Len(<<>>) : FALSE BY EmptySeq
  <2> QED BY <2>2, <2>4, <2>5
<1> QED BY <1>1, <1>2

\* The message of the batch.
Resolves(m, k, mic, state, done, went, goes) ==
  /\ goes \in {"open", "gated", "holed"}
  /\ goes # "holed" => /\ Goes(m, k, went, state, done)
                       /\ goes = "open" <=> GateOpen(state, m, mic)

LEMMA OwnMessage ==
  ASSUME NEW m, NEW k, NEW digests, NEW state, NEW said, NEW muted, NEW done, NEW known, NEW went,
         Turn(m, k, digests, state, said, muted, done, known, went),
         NEW mic, NEW goes, Resolves(m, k, mic, state, done, went, goes),
         NEW next, next = After(state, m, k, mic, digests),
         NEW muted2, muted2 = Silenced(m, state, next, digests, muted)
  PROVE  /\ Follows(m, goes, next, said, muted2, done \cup {k}, known)
         /\ goes # "holed" /\ next.key = m => next.offset \in {0} \cup Marks(m)
<1>1. CASE goes = "holed" BY <1>1 DEF Follows
<1>2. CASE goes = "open"
  <2>1. GateOpen(state, m, mic) /\ Goes(m, k, went, state, done) BY <1>2 DEF Resolves
  <2>2. next = Selected(state, m, k, digests) BY <2>1 DEF After
  <2>7. state.gateMsg = m => state.gateOn BY <2>1 DEF GateOpen
  <2>6. /\ InOrder(m, said, next.pending, known)
        /\ Current(m, next, said, muted2, done \cup {k})
        /\ next.offset \in {0} \cup Marks(m)
    BY <2>1, <2>2, <2>7, OpenedMessage
  <2> QED BY <1>2, <2>6 DEF Follows
<1>3. CASE goes = "gated"
  <2>1. ~GateOpen(state, m, mic) /\ Goes(m, k, went, state, done) BY <1>3 DEF Resolves
  <2>2. next = Gated(state, m) BY <2>1 DEF After
  <2>7. state.gateMsg = m => ~state.gateOn BY <2>1 DEF GateOpen
  <2>3. next.key # m BY <2>2, GatedIs, KeysAre DEF Turn
  <2>6. Unheard(m, Gated(state, m), said) /\ ~Gated(state, m).gateOn
    BY <2>1, <2>7, GatedMessage
  <2> QED BY <1>3, <2>2, <2>3, <2>6 DEF Follows
<1> QED BY <1>1, <1>2, <1>3 DEF Resolves

\* The state after a batch, by its type.
LEMMA AfterTypes ==
  ASSUME NEW m \in Keys, NEW k \in DOMAIN Batches[m], NEW digests \in BOOLEAN, NEW state,
         StateTypes(state), NEW mic, NEW next, next = After(state, m, k, mic, digests)
  PROVE  /\ StateTypes(next) /\ next \in States /\ next.gateMsg = m /\ next.key \in {NoKey, m}
         /\ next.offset \in Nat
<1>1. CASE GateOpen(state, m, mic)
  <2>1. next = Selected(state, m, k, digests) BY <1>1 DEF After
  <2>2. StateTypes(next) /\ next.gateMsg = m /\ next.key = m
    BY <2>1, SelectedTypes, SelectedIs
  <2> QED BY <2>2 DEF StateTypes, States
<1>2. CASE ~GateOpen(state, m, mic)
  <2>1. next = Gated(state, m) BY <1>2 DEF After
  <2>2. StateTypes(next) /\ next.gateMsg = m /\ next.key = NoKey BY <2>1, GatedIs
  <2> QED BY <2>2 DEF StateTypes, States
<1> QED BY <1>1, <1>2

LEMMA OutcomeIs ==
  \A m, k, mic : /\ Outcome(m, k, mic) \in {"open", "gated", "holed"}
                 /\ fate[m] = "holed" => Outcome(m, k, mic) = "holed"
BY DEF Outcome

\* What the step does when prev is read and next written, or not.
SelectsTo(p, m, k, mic, digests, prev, written, next) ==
  /\ next = After(prev, m, k, mic, digests)
  /\ Disk(prev = file /\ written)
  /\ file' = IF written THEN next ELSE file
  /\ proc' = [proc EXCEPT ![p].pc = "offer", ![p].mem = next]
  /\ counted' = counted \cup {<<m, k>>}
  /\ fate' = [fate EXCEPT ![m] = Outcome(m, k, mic)]
  /\ hushed' = Silenced(m, prev, next, digests, hushed)

LEMMA SelectIs ==
  ASSUME NEW p \in Procs, SelectLines(p),
         NEW m, m = proc[p].batch[1], NEW k, k = proc[p].batch[2],
         NEW mic, mic = proc[p].mic, NEW digests, digests = proc[p].digests
  PROVE  \E prev \in {file, Fresh}, written \in BOOLEAN :
           SelectsTo(p, m, k, mic, digests, prev, written, After(prev, m, k, mic, digests))
<1>1. PICK prev \in {file, Fresh}, written \in BOOLEAN :
        LET a    == proc[p].batch[1]
            b    == proc[p].batch[2]
            next == IF GateOpen(prev, a, proc[p].mic) THEN Selected(prev, a, b, proc[p].digests)
                    ELSE Gated(prev, a)
        IN  /\ Disk(prev = file /\ written)
            /\ file' = IF written THEN next ELSE file
            /\ proc' = [proc EXCEPT ![p].pc = "offer", ![p].mem = next]
            /\ counted' = counted \cup {<<a, b>>}
            /\ fate' = [fate EXCEPT ![a] = Outcome(a, b, proc[p].mic)]
            /\ hushed' = IF proc[p].digests \/ next.key # a THEN hushed
                         ELSE hushed \cup {<<a, n>> :
                                n \in (AccumOf(Shadow(prev), a).emitted + 1)..next.offset}
  BY Zenon DEF SelectLines
<1>2. SelectsTo(p, m, k, mic, digests, prev, written, After(prev, m, k, mic, digests))
  BY <1>1 DEF SelectsTo, Silenced, Muted, AccOf, After
<1> QED BY <1>2

LEMMA SelectTypes ==
  ASSUME TypeOK, sound' => sound, NEW p \in Procs, SelectLines(p),
         NEW m, m = proc[p].batch[1], NEW k, k = proc[p].batch[2],
         NEW mic, mic = proc[p].mic, NEW digests, digests = proc[p].digests,
         sound' => StateIn(file', fate')
  PROVE  /\ TypeOK'
         /\ \A q \in Procs : proc'[q].pc = "commit" => proc'[q] = proc[q]
<1>0. PICK prev \in {file, Fresh}, written \in BOOLEAN :
        SelectsTo(p, m, k, mic, digests, prev, written, After(prev, m, k, mic, digests))
  BY SelectIs
<1> DEFINE next == After(prev, m, k, mic, digests)
<1>a. next = After(prev, m, k, mic, digests) OBVIOUS
<1> HIDE DEF next
<1>1. /\ Disk(prev = file /\ written)
      /\ file' = IF written THEN next ELSE file
      /\ proc' = [proc EXCEPT ![p].pc = "offer", ![p].mem = next]
      /\ counted' = counted \cup {<<m, k>>}
      /\ fate' = [fate EXCEPT ![m] = Outcome(m, k, mic)]
  BY <1>0, <1>a DEF SelectsTo
<1>2. /\ proc[p].batch # NoBatch
      /\ UNCHANGED <<lock, sent, micActive, digestsOn, accepted, spoken, patient>>
  BY DEF SelectLines
<1>3. m \in Keys /\ k \in DOMAIN Batches[m] /\ <<m, k>> \in sent /\ digests \in BOOLEAN
      /\ proc[p] \in Records(sent)
  BY <1>2, RecordOf
<1>4. Others /\ StateIn(file, Went) /\ StateTypes(prev)
  BY <1>1, TypeOKIs, StateInIs, FreshIs DEF Others, StateIn, StateTypes
<1>5. StateTypes(next) /\ next \in States BY <1>a, <1>3, <1>4, AfterTypes
<1>6. upsets' \in 0..MaxUpsets /\ sound' \in BOOLEAN BY <1>1, DiskTypes
<1>7. fate' \in Fates /\ Holes(fate, fate')
  <2>1. fate \in Fates BY <1>4 DEF Others
  <2>2. Outcome(m, k, mic) \in {"open", "gated", "holed"}
        /\ (fate[m] = "holed" => Outcome(m, k, mic) = "holed")
    BY OutcomeIs
  <2> QED BY <1>1, <1>3, <2>1, <2>2 DEF Fates, Holes
<1>8. Holes(Went, Went') BY <1>7, GoesOn
<1>9. StateIn(next, Went') /\ StateIn(file', Went')
  <2>1. CASE sound'
    <3>1. file' = next BY <1>1, <2>1, DiskServes
    <3>2. Went' = fate' BY <2>1 DEF Went
    <3> QED BY <2>1, <3>1, <3>2
  <2>2. CASE ~sound'
    <3>1. Went' = [q \in Keys |-> "holed"] BY <2>2 DEF Went
    <3>2. next.key # NoKey => next.key \in Keys BY <1>5 DEF States
    <3>3. StateIn(next, Went') BY <1>5, <3>1, <3>2 DEF StateIn
    <3>4. StateIn(file, Went') BY <1>4, <1>8, StateInStays
    <3> QED BY <1>1, <3>3, <3>4
  <2> QED BY <2>1, <2>2
<1>10. Others'
  <2>1. StateOK(file)' BY <1>9, FileNext
  <2>2. counted' \subseteq sent' BY <1>1, <1>2, <1>3, <1>4 DEF Others
  <2> QED BY <1>2, <1>4, <1>6, <1>7, <2>1, <2>2 DEF Others
<1> DEFINE r == [proc[p] EXCEPT !.pc = "offer", !.mem = next]
<1>11. r \in Records(sent') /\ r.mem = next /\ r.pc = "offer" BY <1>2, <1>3, <1>5 DEF Records
<1>12. proc' = [proc EXCEPT ![p] = r] BY <1>1
<1>13. proc \in [Procs -> Records(sent)] BY TypeOKIs
<1> HIDE DEF r
<1>14. \A q \in Procs : proc'[q].pc = "commit" => proc'[q] = proc[q] BY <1>11, <1>12, <1>13
<1> QED BY <1>2, <1>8, <1>9, <1>10, <1>11, <1>12, <1>14, OwnStepTypes

\* deliver_batch up to the write before the first offer.
LEMMA SelectStep ==
  ASSUME SoundInv, sound', NEW p \in Procs, SelectLines(p),
         NEW m, m = proc[p].batch[1], NEW k, k = proc[p].batch[2],
         NEW mic, mic = proc[p].mic, NEW digests, digests = proc[p].digests
  PROVE  StateIn(file', fate') /\ Engine' /\ Messages'
<1> DEFINE next == After(file, m, k, mic, digests)
           went == Outcome(m, k, mic)
           r == [proc[p] EXCEPT !.pc = "offer", !.mem = next]
<1>1. /\ proc[p].pc = "entered" /\ proc[p].batch # NoBatch
      /\ file' = next /\ proc' = [proc EXCEPT ![p] = r]
      /\ counted' = counted \cup {<<m, k>>}
      /\ fate' = [fate EXCEPT ![m] = went]
      /\ hushed' = Silenced(m, file, next, digests, hushed)
      /\ UNCHANGED <<accepted, spoken>>
  <2>1. PICK prev \in {file, Fresh}, written \in BOOLEAN :
          SelectsTo(p, m, k, mic, digests, prev, written, After(prev, m, k, mic, digests))
    BY SelectIs
  <2>2. prev = file /\ written
    <3>1. Disk(prev = file /\ written) BY <2>1 DEF SelectsTo
    <3> QED BY <3>1, DiskServes
  <2>3. /\ proc[p].pc = "entered" /\ proc[p].batch # NoBatch
        /\ UNCHANGED <<accepted, spoken>>
    BY DEF SelectLines
  <2>4. SelectsTo(p, m, k, mic, digests, file, TRUE, next) BY <2>1, <2>2
  <2> HIDE DEF next, went
  <2>5. proc' = [proc EXCEPT ![p] = r] BY <2>4 DEF SelectsTo
  <2> HIDE DEF r
  <2> QED BY <2>3, <2>4, <2>5 DEF SelectsTo, went
<1>2. TypeOK /\ Engine /\ Messages BY DEF SoundInv
<1>3. Others /\ StateTypes(file) /\ file \in States
  BY <1>2, TypeOKIs, StateInIs DEF Others, StateIn, StateTypes
<1>4. m \in Keys /\ k \in DOMAIN Batches[m] /\ <<m, k>> \in sent /\ digests \in BOOLEAN
      /\ proc[p] \in Records(sent)
  BY <1>1, <1>2, RecordOf
<1>5. Inside(p) BY <1>1 DEF Inside
<1>6. /\ fate \in Fates /\ fate[m] \in {"new", "open", "gated", "holed"}
      /\ spoken \in [Keys -> Seq(Utterances)] /\ accepted \in Seq(Utterances)
  BY <1>3, <1>4 DEF Others, Fates
<1>7. /\ Message(m) /\ file.key \in {NoKey, file.gateMsg} /\ <<m, Short>> \notin hushed
      /\ \A q \in Keys : Message(q)
  BY <1>2, <1>4 DEF Messages
<1>8. Done(m) \in SUBSET DOMAIN Batches[m] BY DEF Done
<1>9. \A q \in Keys : KnownHeard(q, ToSet(accepted), spoken[q])
  <2> TAKE q \in Keys
  <2>1. \A u \in ToSet(accepted) : u \in ToSet(spoken[u.key]) BY <1>2 DEF Engine
  <2> QED BY <2>1 DEF KnownHeard, Heard, ToSet
<1>10. Outruns(m, k) <=> TellsAgain(m, k, AccOf(file, m)) BY DEF Outruns, TellsAgain, AccOf
<1>11. /\ went \in {"open", "gated", "holed"}
       /\ went # "holed" => /\ Goes(m, k, fate[m], file, Done(m))
                            /\ went = "open" <=> GateOpen(file, m, mic)
  <2>1. 1..(k - 1) \subseteq Done(m) <=> \A i \in 1..(k - 1) : <<m, i>> \in counted
    <3>1. DOMAIN Batches[m] = 1..Len(Batches[m]) /\ Len(Batches[m]) \in Nat BY <1>4, BatchesAre
    <3>2. 1..(k - 1) \subseteq DOMAIN Batches[m]
      <4> QED BY <1>4, <3>1
    <3> QED BY <3>2 DEF Done
  <2>2. CASE fate[m] = "holed" \/ (fate[m] # "new" /\ file.gateMsg # m)
    BY <2>2 DEF Outcome
  <2>3. CASE Outruns(m, k) BY <2>3 DEF Outcome
  <2>4. CASE IsFinal(m, k) /\ ~Batches[m][k].whole /\ \E i \in 1..(k - 1) : <<m, i>> \notin counted
    BY <2>4 DEF Outcome
  <2>5. CASE /\ ~(fate[m] = "holed" \/ (fate[m] # "new" /\ file.gateMsg # m))
             /\ ~Outruns(m, k)
             /\ ~(IsFinal(m, k) /\ ~Batches[m][k].whole /\ \E i \in 1..(k - 1) : <<m, i>> \notin counted)
    <3>1. went = IF GateOpen(file, m, mic) THEN "open" ELSE "gated" BY <2>5 DEF Outcome
    <3>2. Goes(m, k, fate[m], file, Done(m)) BY <1>10, <2>1, <2>5 DEF Goes
    <3>3. GateOpen(file, m, mic) \/ ~GateOpen(file, m, mic) OBVIOUS
    <3>4. CASE GateOpen(file, m, mic) BY <3>1, <3>2, <3>4
    <3>5. CASE ~GateOpen(file, m, mic) BY <3>1, <3>2, <3>5
    <3> QED BY <3>4, <3>5
  <2> QED BY <2>2, <2>3, <2>4, <2>5
<1>12. PICK new \in Seq(Utterances) :
         next.pending = file.pending \o new /\ \A n \in 1..Len(new) : new[n].key = m
  <2> HIDE DEF next
  <2>1. next = After(file, m, k, mic, digests) BY DEF next
  <2>2. Grows(file, next, m) BY <1>3, <1>4, <2>1, NewPending
  <2> QED BY <2>2 DEF Grows
<1>13. /\ StateTypes(next) /\ next \in States /\ next.gateMsg = m /\ next.key \in {NoKey, m}
       /\ next.offset \in Nat
  <2> HIDE DEF next
  <2>1. next = After(file, m, k, mic, digests) BY DEF next
  <2> QED BY <1>3, <1>4, <2>1, AfterTypes
<1>14. /\ \A q : q # m => \A n : <<q, n>> \in hushed' <=> <<q, n>> \in hushed
       /\ <<m, Short>> \notin hushed'
  <2>1. AccOf(file, m).emitted \in Nat BY <1>3, <1>4, AccOfTypes DEF AccTypes
  <2> HIDE DEF next
  <2>2. hushed' = hushed \/ hushed' = Muted(m, file, next, hushed) BY <1>1 DEF Silenced
  <2> QED BY <1>7, <1>13, <2>1, <2>2, MutedIs
<1>15. \A q \in Keys : Done(q)' = IF q = m THEN Done(m) \cup {k} ELSE Done(q)
  <2> TAKE q \in Keys
  <2>1. counted' = counted \cup {<<m, k>>} BY <1>1
  <2>2. \A j : <<q, j>> \in counted' <=> <<q, j>> \in counted \/ (q = m /\ j = k) BY <2>1
  <2>3. Done(q)' = {j \in DOMAIN Batches[q] : <<q, j>> \in counted'} BY DEF Done
  <2>4. CASE q = m BY <1>4, <2>2, <2>3, <2>4 DEF Done
  <2>5. CASE q # m BY <2>2, <2>3, <2>5 DEF Done
  <2> QED BY <2>4, <2>5
<1>16. /\ MessageOK(m, went, next, spoken[m], hushed', Done(m) \cup {k}, ToSet(accepted))
       /\ went # "holed" /\ next.key = m => next.offset \in {0} \cup Marks(m)
  <2>1. /\ MessageOK(m, fate[m], file, spoken[m], hushed, Done(m), ToSet(accepted))
        /\ KnownHeard(m, ToSet(accepted), spoken[m]) /\ spoken[m] \in Seq(Utterances)
    BY <1>4, <1>6, <1>7, <1>9 DEF Message
  <2>2. next = After(file, m, k, mic, digests)
        /\ hushed' = Silenced(m, file, next, digests, hushed)
    BY <1>1
  <2>4. Turn(m, k, digests, file, spoken[m], hushed, Done(m), ToSet(accepted), fate[m])
    BY <1>3, <1>4, <1>6, <1>7, <1>8, <2>1 DEF Turn
  <2>5. Resolves(m, k, mic, file, Done(m), fate[m], went) BY <1>11 DEF Resolves
  <2> HIDE DEF went, next
  <2>3. /\ Follows(m, went, next, spoken[m], hushed', Done(m) \cup {k}, ToSet(accepted))
        /\ went # "holed" /\ next.key = m => next.offset \in {0} \cup Marks(m)
    BY <2>2, <2>4, <2>5, OwnMessage
  <2> QED BY <1>4, <1>11, <2>3, FollowsIs
<1> HIDE DEF next, went, r
<1>17. fate' \in Fates /\ fate'[m] = went /\ \A q \in Keys : q # m => fate'[q] = fate[q]
  BY <1>1, <1>4, <1>6, <1>11 DEF Fates
<1>18. Messages'
  <2>1. ASSUME NEW q \in Keys PROVE Message(q)'
    <3>1. CASE q = m
      <4>1. MessageOK(q, fate'[q], file', spoken'[q], hushed', Done(q)', ToSet(accepted'))
        BY <1>1, <1>15, <1>16, <1>17, <3>1
      <4> QED BY <4>1 DEF Message
    <3>2. CASE q # m
      <4>1. MessageOK(q, fate[q], file, spoken[q], hushed, Done(q), ToSet(accepted))
        BY <1>7 DEF Message
      <4>2. \A n \in 1..Len(new) : new[n].key # q BY <1>12, <3>2
      <4>3. next.gateMsg # q BY <1>13, <3>2
      <4>4. \A n : <<q, n>> \in hushed' <=> <<q, n>> \in hushed BY <1>14, <3>2
      <4>5. MessageOK(q, fate[q], next, spoken[q], hushed', Done(q), ToSet(accepted))
        BY <1>3, <1>12, <4>1, <4>2, <4>3, <4>4, OtherMessage
      <4>6. MessageOK(q, fate'[q], file', spoken'[q], hushed', Done(q)', ToSet(accepted'))
        BY <1>1, <1>15, <1>17, <3>2, <4>5
      <4> QED BY <4>6 DEF Message
    <3> QED BY <3>1, <3>2
  <2>2. file'.key \in {NoKey, file'.gateMsg} BY <1>1, <1>13
  <2>3. \A q \in Keys : <<q, Short>> \notin hushed' BY <1>2, <1>14 DEF Messages
  <2> QED BY <2>1, <2>2, <2>3 DEF Messages
<1>19. proc'[p] = r /\ r.pc = "offer" /\ \A q \in Procs \ {p} : proc'[q] = proc[q]
  <2>1. proc \in [Procs -> Records(sent)] BY <1>2, TypeOKIs
  <2>2. r.pc = "offer" BY <1>4 DEF r, Records
  <2> QED BY <1>1, <2>1, <2>2
<1>20. Engine'
  <2>1. \A q \in Procs : proc'[q].pc # "commit" BY <1>5, <1>19, NobodyElse
  <2>2. \A u \in ToSet(accepted') : u \in ToSet(spoken'[u.key]) BY <1>1, <1>2 DEF Engine
  <2> QED BY <2>1, <2>2 DEF Engine
<1>21. StateIn(file', fate')
  <2>1. next.key # NoKey /\ fate'[next.key] # "holed" => next.offset \in {0} \cup Marks(next.key)
    BY <1>13, <1>16, <1>17
  <2> QED BY <1>1, <1>13, <2>1 DEF StateIn
<1> QED BY <1>18, <1>20, <1>21

-----------------------------------------------------------------------------
(* The engine is offered a line.                                           *)

LEMMA RememberIs ==
  ASSUME accepted \in Seq(Utterances), Len(accepted) <= AcceptedMax, NEW u \in Utterances
  PROVE  /\ Remember(u) \in Seq(Utterances) /\ Len(Remember(u)) <= AcceptedMax
         /\ u \in ToSet(Remember(u)) /\ ToSet(Remember(u)) \subseteq ToSet(accepted) \cup {u}
<1> DEFINE all == Append(accepted, u)
           c == Len(accepted)
<1>1. c \in Nat /\ DOMAIN accepted = 1..c BY LenProperties
<1>2. /\ all \in Seq(Utterances) /\ Len(all) = c + 1 /\ DOMAIN all = 1..(c + 1)
      /\ all[c + 1] = u /\ \A i \in 1..c : all[i] = accepted[i]
  BY <1>1, AppendProperties
<1>3. AcceptedMax \in Nat \ {0} BY NarrationAssumption
<1> HIDE DEF all, c
<1>4. \A i \in DOMAIN all : all[i] \in ToSet(accepted) \cup {u}
  <2> TAKE i \in DOMAIN all
  <2>1. i = c + 1 \/ i \in 1..c BY <1>1, <1>2
  <2> QED BY <1>1, <1>2, <2>1 DEF ToSet
<1>5. CASE Len(all) > AcceptedMax
  <2> DEFINE t == Tail(all)
  <2>1. Remember(u) = t BY <1>5 DEF Remember, all
  <2>2. all # <<>> BY <1>1, <1>2
  <2>3. t \in Seq(Utterances) /\ Len(t) = c /\ DOMAIN t = 1..c /\ \A i \in 1..c : t[i] = all[i + 1]
    BY <1>1, <1>2, <2>2, HeadTailProperties
  <2> HIDE DEF t
  <2>4. c \in 1..c BY <1>1, <1>2, <1>3, <1>5
  <2>5. t[c] = u BY <1>2, <2>3, <2>4
  <2>6. u \in ToSet(t) BY <2>3, <2>4, <2>5 DEF ToSet
  <2>7. \A i \in DOMAIN t : i + 1 \in DOMAIN all /\ t[i] = all[i + 1] BY <1>1, <1>2, <2>3
  <2>8. ToSet(t) \subseteq ToSet(accepted) \cup {u} BY <1>4, <2>7 DEF ToSet
  <2>9. Len(t) <= AcceptedMax BY <2>3 DEF c
  <2> QED BY <2>1, <2>3, <2>6, <2>8, <2>9
<1>6. CASE ~(Len(all) > AcceptedMax)
  <2>1. Remember(u) = all BY <1>6 DEF Remember, all
  <2>2. Len(all) <= AcceptedMax BY <1>1, <1>2, <1>3, <1>6
  <2>3. c + 1 \in DOMAIN all BY <1>1, <1>2
  <2>4. u \in ToSet(all) BY <1>2, <2>3 DEF ToSet
  <2>5. ToSet(all) \subseteq ToSet(accepted) \cup {u} BY <1>4 DEF ToSet
  <2> QED BY <1>2, <2>1, <2>2, <2>4, <2>5
<1> QED BY <1>5, <1>6

\* A message whose line u the engine takes, and what stays of it.
Takes(m, u, went, state, said, muted, done, known, after) ==
  /\ StateTypes(state) /\ said \in Seq(Utterances)
  /\ MessageOK(m, went, state, said, muted, done, known)
  /\ state.pending # <<>> /\ u = state.pending[1] /\ u.key = m /\ u \notin known
  /\ u \in after /\ after \subseteq known \cup {u}

Stays(m, went, state, said, said2, after) ==
  /\ went # "new" /\ went # "gated"
  /\ went = "open" => /\ InOrder(m, said2, state.pending, after)
                      /\ Told(m, state, said2) = Told(m, state, said)

LEMMA TakenMessage ==
  ASSUME NEW m, NEW u, NEW went, NEW state, NEW said, NEW muted, NEW done, NEW known, NEW after,
         Takes(m, u, went, state, said, muted, done, known, after),
         NEW said2, said2 = Append(said, u)
  PROVE  Stays(m, went, state, said, said2, after)
<1>0. /\ StateTypes(state) /\ said \in Seq(Utterances)
      /\ MessageOK(m, went, state, said, muted, done, known)
      /\ state.pending # <<>> /\ u = state.pending[1] /\ u.key = m /\ u \notin known
      /\ u \in after /\ after \subseteq known \cup {u}
  BY DEF Takes
<1>1. state.pending \in Seq(Utterances) BY <1>0 DEF StateTypes, States
<1>2. 1 \in DOMAIN state.pending /\ u \in Utterances BY <1>0, <1>1, HeadIs
<1>3. u.after \in MarksOf(state, m) BY <1>0, <1>2 DEF MarksOf
<1>4. went # "new" /\ went # "gated" BY <1>0, <1>3 DEF MessageOK, Unheard
<1>5. Heard(said2) = Heard(said) \cup {u.after}
  <2>1. /\ Len(said) \in Nat /\ DOMAIN said = 1..Len(said) /\ DOMAIN said2 = 1..(Len(said) + 1)
        /\ said2[Len(said) + 1] = u /\ \A i \in 1..Len(said) : said2[i] = said[i]
    BY <1>0, <1>2, AppendProperties
  <2>2. \A i \in DOMAIN said2 : i = Len(said) + 1 \/ i \in DOMAIN said BY <2>1
  <2>3. \A i \in DOMAIN said : i \in DOMAIN said2 /\ said2[i] = said[i] BY <2>1
  <2>4. Len(said) + 1 \in DOMAIN said2 BY <2>1
  <2> QED BY <2>1, <2>2, <2>3, <2>4 DEF Heard
<1>6. Told(m, state, said2) = Told(m, state, said) BY <1>3, <1>5 DEF Told
<1>7. ASSUME went = "open" PROVE InOrder(m, said2, state.pending, after)
  <2>1. InOrder(m, said, state.pending, known) BY <1>0, <1>7 DEF MessageOK
  <2> QED BY <1>0, <1>1, <2>1, OrderTaken
<1> QED BY <1>4, <1>6, <1>7 DEF Stays

LEMMA SameTold ==
  ASSUME NEW m, NEW went, NEW state, NEW said, NEW muted, NEW done, NEW known,
         MessageOK(m, went, state, said, muted, done, known), NEW said2, NEW after,
         Stays(m, went, state, said, said2, after)
  PROVE  MessageOK(m, went, state, said2, muted, done, after)
BY DEF MessageOK, Current, Stays

LEMMA OtherTaken ==
  ASSUME NEW m, NEW went, NEW state, NEW said, NEW muted,
         NEW done, NEW known, MessageOK(m, went, state, said, muted, done, known),
         state.pending[1].key # m, NEW after, after \subseteq known \cup {state.pending[1]}
  PROVE  MessageOK(m, went, state, said, muted, done, after)
BY OrderOther DEF MessageOK

\* The head of the pending lines is offered.
LEMMA OfferStep ==
  ASSUME SoundInv, NEW p \in Procs, Offer(p)
  PROVE  Engine' /\ Messages'
<1> DEFINE u == file.pending[1]
<1>1. proc[p].pc = "offer" /\ Inside(p) /\ proc[p].mem = file /\ file.pending # <<>>
  BY DEF Offer, SoundInv, Inv, CopyIsFile, Inside
<1>2. TypeOK /\ Engine /\ Messages BY DEF SoundInv
<1>3. Others /\ StateTypes(file) /\ file \in States
  BY <1>2, TypeOKIs, StateInIs DEF Others, StateIn, StateTypes
<1>4. file.pending \in Seq(Utterances) BY <1>3 DEF States
<1>5. Head(file.pending) = u /\ u \in Utterances /\ 1 \in DOMAIN file.pending
  BY <1>1, <1>4, HeadIs
<1>6. u.key \in Keys BY <1>5 DEF Utterances
<1>7. UNCHANGED <<file, lock, sent, micActive, digestsOn, counted, fate, hushed, upsets>>
  BY DEF Offer
<1> HIDE DEF u
<1>8. PICK pc \in {"commit", "leave"} :
        /\ proc' = [proc EXCEPT ![p].pc = pc]
        /\ \/ EnqueueNarration(u)
           \/ pc = "leave" /\ UNCHANGED <<accepted, spoken>>
  <2>1. CASE EnqueueNarration(u) /\ \E pc \in {"commit", "leave"} : proc' = [proc EXCEPT ![p].pc = pc]
    BY <2>1
  <2>2. CASE proc' = [proc EXCEPT ![p].pc = "leave"] /\ UNCHANGED <<accepted, spoken>>
    BY <2>2
  <2>3. \/ /\ EnqueueNarration(u)
           /\ \E pc \in {"commit", "leave"} : proc' = [proc EXCEPT ![p].pc = pc]
        \/ proc' = [proc EXCEPT ![p].pc = "leave"] /\ UNCHANGED <<accepted, spoken>>
    BY <1>1, <1>5 DEF Offer
  <2> QED BY <2>1, <2>2, <2>3
<1>9. /\ accepted \in Seq(Utterances) /\ Len(accepted) <= AcceptedMax
      /\ spoken \in [Keys -> Seq(Utterances)] /\ spoken[u.key] \in Seq(Utterances)
  BY <1>3, <1>6 DEF Others
<1>10. \/ /\ u \in ToSet(accepted) \/ pc = "leave"
          /\ UNCHANGED <<accepted, spoken>>
       \/ /\ u \notin ToSet(accepted)
          /\ accepted' = Remember(u)
          /\ spoken' = [spoken EXCEPT ![u.key] = Append(@, u)]
  <2>1. Contains(accepted, u) <=> u \in ToSet(accepted) BY <1>9 DEF Contains, ToSet
  <2> QED BY <1>8, <2>1 DEF EnqueueNarration
<1>11. /\ accepted' \in Seq(Utterances) /\ Len(accepted') <= AcceptedMax
       /\ u \in ToSet(accepted') \/ pc = "leave"
       /\ spoken' \in [Keys -> Seq(Utterances)]
  <2>1. CASE UNCHANGED <<accepted, spoken>> /\ (u \in ToSet(accepted) \/ pc = "leave")
    BY <1>9, <2>1
  <2>2. CASE accepted' = Remember(u) /\ spoken' = [spoken EXCEPT ![u.key] = Append(@, u)]
    <3>1. Append(spoken[u.key], u) \in Seq(Utterances) BY <1>5, <1>9, AppendProperties
    <3>2. spoken' \in [Keys -> Seq(Utterances)] BY <1>9, <2>2, <3>1
    <3> QED BY <1>5, <1>9, <2>2, <3>2, RememberIs
  <2> QED BY <1>10, <2>1, <2>2
<1>12. proc \in [Procs -> Records(sent)] BY <1>2, TypeOKIs
<1>13. proc'[p].pc = pc /\ \A q \in Procs \ {p} : proc'[q] = proc[q]
  BY <1>8, <1>12 DEF Records
<1>14. Engine'
  <2>1. ASSUME NEW q \in Procs, proc'[q].pc = "commit"
        PROVE  file'.pending # <<>> /\ file'.pending[1] \in ToSet(accepted')
    <3>1. q = p BY <1>1, <1>13, <2>1, NobodyElse
    <3>2. pc = "commit" BY <1>13, <2>1, <3>1
    <3> QED BY <1>1, <1>7, <1>11, <3>2 DEF u
  <2>2. ASSUME NEW v \in ToSet(accepted') PROVE v \in ToSet(spoken'[v.key])
    <3>1. \A w \in ToSet(accepted) : w \in ToSet(spoken[w.key]) BY <1>2 DEF Engine
    <3>2. CASE UNCHANGED <<accepted, spoken>> BY <2>2, <3>1, <3>2
    <3>3. CASE accepted' = Remember(u) /\ spoken' = [spoken EXCEPT ![u.key] = Append(@, u)]
      <4>1. v \in ToSet(accepted) \/ v = u BY <1>5, <1>9, <2>2, <3>3, RememberIs
      <4>2. CASE v.key = u.key
        <5> DEFINE said == spoken[u.key]
        <5>1. spoken'[v.key] = Append(said, u) BY <1>6, <1>9, <3>3, <4>2
        <5>2. said \in Seq(Utterances) BY <1>9
        <5>3. v \in ToSet(said) \/ v = u BY <3>1, <4>1, <4>2
        <5> HIDE DEF said
        <5>4. /\ Len(said) \in Nat /\ DOMAIN said = 1..Len(said)
              /\ DOMAIN Append(said, u) = 1..(Len(said) + 1)
              /\ Append(said, u)[Len(said) + 1] = u
              /\ \A i \in 1..Len(said) : Append(said, u)[i] = said[i]
          BY <1>5, <5>2, AppendProperties
        <5>5. /\ Len(said) + 1 \in DOMAIN Append(said, u)
              /\ \A i \in DOMAIN said : i \in DOMAIN Append(said, u) /\ Append(said, u)[i] = said[i]
          BY <5>4
        <5>6. v \in ToSet(Append(said, u)) BY <5>3, <5>4, <5>5 DEF ToSet
        <5> QED BY <5>1, <5>6
      <4>3. CASE v.key # u.key
        <5>1. v \in ToSet(accepted) BY <4>1, <4>3
        <5>2. v \in Utterances
          <6>1. \A i \in DOMAIN accepted : accepted[i] \in Utterances
            BY <1>9, LenProperties, ElementOfSeq
          <6> QED BY <5>1, <6>1 DEF ToSet
        <5>3. v.key \in Keys BY <5>2 DEF Utterances
        <5>4. spoken'[v.key] = spoken[v.key] BY <1>9, <3>3, <4>3, <5>3
        <5> QED BY <3>1, <5>1, <5>4
      <4> QED BY <4>2, <4>3
    <3> QED BY <1>10, <3>2, <3>3
  <2> QED BY <2>1, <2>2 DEF Engine
<1>15. Messages'
  <2>1. \A m : Done(m)' = Done(m) BY <1>7 DEF Done
  <2>2. ASSUME NEW m \in Keys PROVE Message(m)'
    <3>1. MessageOK(m, fate[m], file, spoken[m], hushed, Done(m), ToSet(accepted))
      BY <1>2 DEF Messages, Message
    <3>2. MessageOK(m, fate[m], file, spoken'[m], hushed, Done(m), ToSet(accepted'))
      <4>1. CASE UNCHANGED <<accepted, spoken>> BY <3>1, <4>1
      <4>2. CASE /\ u \notin ToSet(accepted) /\ accepted' = Remember(u)
                 /\ spoken' = [spoken EXCEPT ![u.key] = Append(@, u)]
        <5>1. u \in ToSet(accepted') /\ ToSet(accepted') \subseteq ToSet(accepted) \cup {u}
          BY <1>5, <1>9, <4>2, RememberIs
        <5>2. CASE m = u.key
          <6>1. spoken'[m] = Append(spoken[m], u) /\ spoken[m] \in Seq(Utterances)
            BY <1>9, <4>2, <5>2
          <6>2. Takes(m, u, fate[m], file, spoken[m], hushed, Done(m), ToSet(accepted),
                      ToSet(accepted'))
            BY <1>1, <1>3, <3>1, <4>2, <5>1, <5>2, <6>1 DEF Takes, u
          <6>3. Stays(m, fate[m], file, spoken[m], spoken'[m], ToSet(accepted'))
            BY <6>1, <6>2, TakenMessage
          <6> QED BY <3>1, <6>3, SameTold
        <5>3. CASE m # u.key
          <6>1. spoken'[m] = spoken[m] BY <1>9, <4>2, <5>3
          <6>2. MessageOK(m, fate[m], file, spoken[m], hushed, Done(m), ToSet(accepted'))
            BY <3>1, <5>1, <5>3, OtherTaken DEF u
          <6> QED BY <6>1, <6>2
        <5> QED BY <5>2, <5>3
      <4> QED BY <1>10, <4>1, <4>2
    <3>3. MessageOK(m, fate'[m], file', spoken'[m], hushed', Done(m)', ToSet(accepted'))
      BY <1>7, <2>1, <3>2
    <3> QED BY <3>3 DEF Message
  <2> QED BY <1>2, <1>7, <2>2 DEF Messages
<1> QED BY <1>14, <1>15

LEMMA OfferTypes ==
  ASSUME TypeOK, Held, NEW p \in Procs, Offer(p)
  PROVE  TypeOK' /\ Held'
<1> DEFINE u == Head(proc[p].mem.pending)
<1>1. /\ proc[p].mem.pending # <<>> /\ proc[p].mem \in States /\ proc[p] \in Records(sent)
      /\ StateIn(proc[p].mem, Went) /\ proc \in [Procs -> Records(sent)] /\ Others
  BY RecordOf, TypeOKIs DEF Offer
<1>2. u \in Utterances /\ u.key \in Keys
  <2>1. proc[p].mem.pending \in Seq(Utterances) BY <1>1 DEF States
  <2>2. u \in Utterances BY <1>1, <2>1, HeadIs
  <2> QED BY <2>2 DEF Utterances
<1> HIDE DEF u
<1>3. PICK pc \in {"commit", "leave"} :
        /\ proc' = [proc EXCEPT ![p].pc = pc]
        /\ EnqueueNarration(u) \/ UNCHANGED <<accepted, spoken>>
  BY DEF Offer, u
<1>4. UNCHANGED <<file, lock, sent, micActive, digestsOn, counted, fate, patient, sound, upsets>>
  BY DEF Offer
<1>5. /\ accepted \in Seq(Utterances) /\ Len(accepted) <= AcceptedMax
      /\ spoken \in [Keys -> Seq(Utterances)]
  BY <1>1 DEF Others
<1>6. /\ accepted' \in Seq(Utterances) /\ Len(accepted') <= AcceptedMax
      /\ spoken' \in [Keys -> Seq(Utterances)]
  <2>1. CASE UNCHANGED <<accepted, spoken>> BY <1>5, <2>1
  <2>2. CASE accepted' = Remember(u) /\ spoken' = [spoken EXCEPT ![u.key] = Append(@, u)]
    <3>1. spoken[u.key] \in Seq(Utterances) BY <1>2, <1>5
    <3>2. Append(spoken[u.key], u) \in Seq(Utterances) BY <1>2, <3>1, AppendProperties
    <3>3. spoken' \in [Keys -> Seq(Utterances)] BY <1>5, <2>2, <3>2
    <3> QED BY <1>2, <1>5, <2>2, <3>3, RememberIs
  <2> QED BY <1>3, <2>1, <2>2 DEF EnqueueNarration
<1> DEFINE r == [proc[p] EXCEPT !.pc = pc]
<1>7. r \in Records(sent') /\ r.mem = proc[p].mem BY <1>1, <1>4 DEF Records
<1>8. proc' = [proc EXCEPT ![p] = r] BY <1>3
<1>9. Others' BY <1>1, <1>4, <1>6 DEF Others, StateOK
<1>10. Went' = Went BY <1>4 DEF Went
<1>11. Holes(Went, Went') BY <1>10 DEF Holes
<1> HIDE DEF r
<1>12. StateIn(r.mem, Went') BY <1>1, <1>7, <1>10
<1>13. TypeOK' BY <1>4, <1>7, <1>8, <1>9, <1>11, <1>12, OwnStepTypes
<1>14. proc'[p].mem = proc[p].mem /\ \A q \in Procs \ {p} : proc'[q] = proc[q]
  BY <1>1, <1>7, <1>8
<1>15. Held' BY <1>1, <1>14 DEF Held
<1> QED BY <1>13, <1>15

-----------------------------------------------------------------------------
(* A line is committed.                                                    *)

\* A message in whose sight a line is committed that the engine knows.
Commits(m, went, state, said, muted, done, known) ==
  /\ m \in Keys /\ StateTypes(state) /\ MessageOK(m, went, state, said, muted, done, known)
  /\ state.pending # <<>> /\ state.pending[1] \in known /\ KnownHeard(m, known, said)

LEMMA SameReached ==
  ASSUME NEW m, NEW acc, NEW fed, fed.emitted = acc.emitted, fed.shortDone <=> acc.shortDone
  PROVE  Reached(m, fed) = Reached(m, acc)
BY DEF Reached

LEMMA CurrentCommitted ==
  ASSUME NEW m \in Keys, NEW state, StateTypes(state), state.pending # <<>>, NEW said, NEW muted,
         NEW done, Current(m, state, said, muted, done),
         NEW next, next = Admitted(state), Told(m, next, said) = Told(m, state, said)
  PROVE  Current(m, next, said, muted, done)
<1> DEFINE acc == AccOf(state, m)
           fed == AccOf(next, m)
<1>1. /\ state.key = m /\ state.gateOn /\ AccOK(m, acc, done)
      /\ Told(m, state, said) = Reached(m, acc) \cap Kept(m, muted)
      /\ \A n \in Nat : <<m, n>> \in muted => n <= acc.emitted
  BY DEF Current
<1>2. next.key = m /\ next.gateOn BY <1>1, AdmittedIs
<1>3. AccOK(m, fed, done) /\ fed.emitted = acc.emitted /\ (fed.shortDone <=> acc.shortDone)
  BY <1>1, AdmittedAcc
<1> HIDE DEF acc, fed
<1>4. Reached(m, fed) = Reached(m, acc) BY <1>3, SameReached
<1> QED BY <1>1, <1>2, <1>3, <1>4 DEF Current, fed

LEMMA CommittedMessage ==
  ASSUME NEW m, NEW went, NEW state, NEW said, NEW muted, NEW done, NEW known,
         Commits(m, went, state, said, muted, done, known), NEW next, next = Admitted(state)
  PROVE  MessageOK(m, went, next, said, muted, done, known)
<1> DEFINE u == state.pending[1]
<1>1. /\ m \in Keys /\ StateTypes(state) /\ MessageOK(m, went, state, said, muted, done, known)
      /\ state.pending # <<>> /\ u \in known /\ KnownHeard(m, known, said)
  BY DEF Commits
<1>2. state.pending \in Seq(Utterances) BY <1>1 DEF StateTypes, States
<1>3. /\ next.pending = Tail(state.pending) /\ next.gateMsg = state.gateMsg
      /\ next.gateOn = state.gateOn
  BY <1>1, AdmittedIs
<1>4. MarksOf(state, m) = MarksOf(next, m) \cup (IF u.key = m THEN {u.after} ELSE {})
  BY <1>1, AdmittedMarks
<1>5. u.key = m => u.after \in Heard(said) BY <1>1 DEF KnownHeard
<1> HIDE DEF u
<1>6. Told(m, next, said) = Told(m, state, said)
  <2>1. CASE u.key = m BY <1>4, <1>5, <2>1 DEF Told
  <2>2. CASE u.key # m BY <1>4, <2>2 DEF Told
  <2> QED BY <2>1, <2>2
<1>7. Unheard(m, state, said) => Unheard(m, next, said) BY <1>4 DEF Unheard
<1>8. InOrder(m, said, state.pending, known) => InOrder(m, said, next.pending, known)
  BY <1>1, <1>2, <1>3, OrderDropped DEF u
<1>9. Current(m, state, said, muted, done) => Current(m, next, said, muted, done)
  BY <1>1, <1>6, CurrentCommitted
<1> QED BY <1>1, <1>3, <1>6, <1>7, <1>8, <1>9 DEF MessageOK

\* The mark of such a line is one of the message.
LEMMA CommittedMark ==
  ASSUME NEW m, NEW went, NEW state, NEW said, NEW muted, NEW done, NEW known,
         Commits(m, went, state, said, muted, done, known), state.pending[1].key = m,
         went \in {"new", "gated", "open"}
  PROVE  state.pending[1].after \in Marks(m)
<1> DEFINE u == state.pending[1]
<1>1. StateTypes(state) /\ MessageOK(m, went, state, said, muted, done, known) /\ state.pending # <<>>
  BY DEF Commits
<1>2. u.after \in MarksOf(state, m)
  <2>1. state.pending \in Seq(Utterances) BY <1>1 DEF StateTypes, States
  <2>2. 1 \in DOMAIN state.pending BY <1>1, <2>1, HeadIs
  <2> QED BY <2>2 DEF MarksOf
<1>3. went = "open" BY <1>1, <1>2 DEF MessageOK, Unheard
<1>4. Told(m, state, said) \subseteq Kept(m, muted) BY <1>1, <1>3 DEF MessageOK, Whole
<1> QED BY <1>2, <1>4 DEF Told, Kept

\* The admitted head is dropped and its mark committed.
LEMMA CommitStep ==
  ASSUME SoundInv, sound, sound', NEW p \in Procs, Commit(p)
  PROVE  StateIn(file', fate') /\ Engine' /\ Messages'
<1> DEFINE next == Admitted(file)
           u == file.pending[1]
           r == [proc[p] EXCEPT !.pc = "offer", !.mem = next]
<1>1. proc[p].pc = "commit" /\ Inside(p) /\ proc[p].mem = file
  BY DEF Commit, SoundInv, Inv, CopyIsFile, Inside
<1>2. TypeOK /\ Engine /\ Messages BY DEF SoundInv
<1>3. file.pending # <<>> /\ u \in ToSet(accepted)
      /\ \A v \in ToSet(accepted) : v \in ToSet(spoken[v.key])
  BY <1>1, <1>2 DEF Engine
<1>4. Others /\ StateIn(file, fate) /\ StateTypes(file)
  <2>1. Went = fate BY DEF Went
  <2> QED BY <1>2, <2>1, TypeOKIs, StateInIs DEF Others, StateIn
<1>5. proc[p] \in Records(sent) /\ proc \in [Procs -> Records(sent)] BY <1>2, RecordOf, TypeOKIs
<1>6. file' = next /\ proc' = [proc EXCEPT ![p] = r]
  <2>1. PICK written \in BOOLEAN :
             Disk(written) /\ file' = IF written THEN Admitted(proc[p].mem) ELSE file
    BY DEF Commit
  <2>2. written BY <2>1, DiskServes
  <2> QED BY <1>1, <1>5, <2>1, <2>2 DEF Commit, Records
<1>7. UNCHANGED <<accepted, spoken, counted, fate, hushed>>
  BY DEF Commit
<1>8. StateTypes(next) /\ next.offset \in {file.offset, u.after} /\ next.key = file.key
      /\ next.gateMsg = file.gateMsg
      /\ next.offset = IF file.key = u.key /\ u.after # Short THEN Max2(file.offset, u.after)
                       ELSE file.offset
  BY <1>3, <1>4, AdmittedTypes, AdmittedIs
<1>9. \A m \in Keys : Commits(m, fate[m], file, spoken[m], hushed, Done(m), ToSet(accepted))
  <2> TAKE m \in Keys
  <2>1. MessageOK(m, fate[m], file, spoken[m], hushed, Done(m), ToSet(accepted))
    BY <1>2 DEF Messages, Message
  <2>2. KnownHeard(m, ToSet(accepted), spoken[m]) BY <1>3 DEF KnownHeard, Heard, ToSet
  <2> QED BY <1>3, <1>4, <2>1, <2>2 DEF Commits
<1>10. \A m : Done(m)' = Done(m) BY <1>7 DEF Done
<1>11. r \in Records(sent) /\ r.mem = next /\ r.pc = "offer"
  <2>1. next \in States BY <1>8 DEF StateTypes
  <2> HIDE DEF next
  <2> QED BY <1>5, <2>1 DEF Records, r
<1>12. \A m \in Keys : MessageOK(m, fate[m], next, spoken[m], hushed, Done(m), ToSet(accepted))
  <2> TAKE m \in Keys
  <2>1. Commits(m, fate[m], file, spoken[m], hushed, Done(m), ToSet(accepted)) BY <1>9
  <2> QED BY <2>1, CommittedMessage
<1>13. StateIn(next, fate)
  <2> SUFFICES ASSUME file.key # NoKey, fate[file.key] # "holed"
               PROVE  next.offset \in {0} \cup Marks(file.key)
    BY <1>8 DEF StateIn
  <2>1. file.offset \in {0} \cup Marks(file.key) BY <1>4 DEF StateIn
  <2>2. CASE next.offset = file.offset BY <2>1, <2>2
  <2>3. CASE next.offset # file.offset
    <3>1. file.key = u.key /\ next.offset = u.after BY <1>8, <2>3
    <3>2. file.key \in Keys BY <1>4 DEF StateTypes, States
    <3>3. fate[file.key] \in {"new", "gated", "open"} BY <1>4, <3>2 DEF Others, Fates
    <3>4. Commits(file.key, fate[file.key], file, spoken[file.key], hushed, Done(file.key),
                  ToSet(accepted))
      BY <1>9, <3>2
    <3>5. u.after \in Marks(file.key) BY <3>1, <3>3, <3>4, CommittedMark
    <3> QED BY <3>1, <3>5
  <2> QED BY <2>2, <2>3
<1> HIDE DEF next, u, r
<1>14. Messages'
  <2>1. ASSUME NEW m \in Keys PROVE Message(m)'
    <3>1. MessageOK(m, fate'[m], file', spoken'[m], hushed', Done(m)', ToSet(accepted'))
      BY <1>6, <1>7, <1>10, <1>12
    <3> QED BY <3>1 DEF Message
  <2>2. file'.key \in {NoKey, file'.gateMsg} BY <1>2, <1>6, <1>8 DEF Messages
  <2>3. \A m \in Keys : <<m, Short>> \notin hushed' BY <1>2, <1>7 DEF Messages
  <2> QED BY <2>1, <2>2, <2>3 DEF Messages
<1>15. Engine'
  <2>1. proc'[p] = r /\ \A q \in Procs \ {p} : proc'[q] = proc[q] BY <1>5, <1>6
  <2>2. \A q \in Procs : proc'[q].pc # "commit" BY <1>1, <1>11, <2>1, NobodyElse
  <2> QED BY <1>3, <1>7, <2>2 DEF Engine
<1>16. StateIn(file', fate') BY <1>6, <1>7, <1>13
<1> QED BY <1>14, <1>15, <1>16

LEMMA CommitTypes ==
  ASSUME TypeOK, Held, sound' => sound, NEW p \in Procs, Commit(p),
         sound' => StateIn(file', fate')
  PROVE  /\ TypeOK'
         /\ \A q \in Procs : proc'[q].pc = "commit" => proc'[q] = proc[q]
<1> DEFINE next == Admitted(proc[p].mem)
           r == [proc[p] EXCEPT !.pc = "offer", !.mem = next]
<1>1. PICK written \in BOOLEAN : Disk(written) /\ file' = IF written THEN next ELSE file
  BY DEF Commit
<1>2. /\ proc[p].pc = "commit"
      /\ UNCHANGED <<lock, sent, micActive, digestsOn, accepted, spoken, counted, fate, patient>>
  BY DEF Commit
<1>3. /\ proc[p].mem.pending # <<>> /\ proc[p] \in Records(sent) /\ StateIn(proc[p].mem, Went)
      /\ proc \in [Procs -> Records(sent)] /\ Others /\ StateIn(file, Went)
  BY <1>2, RecordOf, TypeOKIs, StateInIs DEF Held, Others
<1>4. StateTypes(next) /\ next \in States
  <2>1. StateTypes(proc[p].mem) BY <1>3 DEF StateIn
  <2>2. StateTypes(next) BY <1>3, <2>1, AdmittedTypes
  <2> HIDE DEF next
  <2> QED BY <2>2 DEF StateTypes
<1>5. proc' = [proc EXCEPT ![p] = r] BY <1>3 DEF Commit, Records
<1> HIDE DEF next
<1>6. upsets' \in 0..MaxUpsets /\ sound' \in BOOLEAN BY <1>1, DiskTypes
<1>7. Holes(Went, Went')
  <2>1. Holes(fate, fate') BY <1>2 DEF Holes
  <2> QED BY <2>1, GoesOn
<1>8. StateIn(next, Went') /\ StateIn(file', Went')
  <2>1. CASE sound'
    <3>1. file' = next BY <1>1, <2>1, DiskServes
    <3>2. Went' = fate' BY <2>1 DEF Went
    <3> QED BY <2>1, <3>1, <3>2
  <2>2. CASE ~sound'
    <3>1. Went' = [q \in Keys |-> "holed"] BY <2>2 DEF Went
    <3>2. next.key # NoKey => next.key \in Keys BY <1>4 DEF States
    <3>3. StateIn(next, Went') BY <1>4, <3>1, <3>2 DEF StateIn
    <3>4. StateIn(file, Went') BY <1>3, <1>7, StateInStays
    <3> QED BY <1>1, <3>3, <3>4
  <2> QED BY <2>1, <2>2
<1>9. Others'
  <2>1. StateOK(file)' BY <1>8, FileNext
  <2> QED BY <1>2, <1>3, <1>6, <2>1 DEF Others
<1>10. r \in Records(sent') /\ r.mem = next /\ r.pc = "offer" BY <1>2, <1>3, <1>4 DEF Records
<1> HIDE DEF r
<1>11. \A q \in Procs : proc'[q].pc = "commit" => proc'[q] = proc[q] BY <1>3, <1>5, <1>10
<1> QED BY <1>2, <1>5, <1>7, <1>8, <1>9, <1>10, <1>11, OwnStepTypes

-----------------------------------------------------------------------------
(* Every step, and what follows.                                           *)

\* No other step lets a process commit.
LEMMA QuietCommits ==
  ASSUME TypeOK, NEW p \in Procs,
         \/ Deliver(p) \/ Repeat(p) \/ Retry(p) \/ Acquire(p) \/ GiveUp(p)
         \/ FindStale(p) \/ BreakStale(p) \/ ReadPending(p) \/ Leave(p) \/ Crash(p)
  PROVE  /\ UNCHANGED <<file, accepted, spoken, counted, fate, hushed>>
         /\ \A q \in Procs : proc'[q].pc = "commit" => proc'[q] = proc[q]
<1>1. proc \in [Procs -> Records(sent)] BY TypeOKIs
<1>2. DOMAIN proc = Procs /\ DOMAIN proc[p] = {"pc", "batch", "mic", "digests", "held", "mem"}
  BY <1>1 DEF Records
<1>3. \A f \in DOMAIN Idle : f \in {"pc", "batch", "mic", "digests", "held", "mem"}
  BY DEF Idle
<1>4. ASSUME NEW batch, Start(p, batch)
      PROVE  \A q \in Procs : proc'[q].pc = "commit" => proc'[q] = proc[q]
  <2> DEFINE r == [Idle EXCEPT !.pc = "spin", !.batch = batch, !.mic = micActive, !.digests = digestsOn]
  <2>1. r.pc = "spin" BY DEF Idle
  <2>2. proc' = [proc EXCEPT ![p] = r] BY <1>4 DEF Start
  <2> HIDE DEF r
  <2> QED BY <1>2, <2>1, <2>2
<1>5. ASSUME NEW held, Enter(p, held)
      PROVE  \A q \in Procs : proc'[q].pc = "commit" => proc'[q] = proc[q]
  <2> DEFINE r == [proc[p] EXCEPT !.pc = "entered", !.held = held]
  <2>1. r.pc = "entered" BY <1>2
  <2>2. proc' = [proc EXCEPT ![p] = r] BY <1>5 DEF Enter
  <2> HIDE DEF r
  <2> QED BY <1>2, <2>1, <2>2
<1>6. CASE Deliver(p) BY <1>4, <1>6 DEF Deliver
<1>7. CASE Repeat(p) BY <1>4, <1>7 DEF Repeat
<1>8. CASE Retry(p) BY <1>4, <1>8 DEF Retry
<1>9. CASE Acquire(p) BY <1>5, <1>9 DEF Acquire
<1>10. CASE GiveUp(p) BY <1>5, <1>10 DEF GiveUp
<1>11. CASE FindStale(p) \/ BreakStale(p)
  <2>1. PICK pc \in {"spin", "breaking"} :
          /\ proc' = [proc EXCEPT ![p].pc = pc]
          /\ UNCHANGED <<file, accepted, spoken, counted, fate, hushed>>
    BY <1>11 DEF FindStale, BreakStale
  <2> DEFINE r == [proc[p] EXCEPT !.pc = pc]
  <2>2. r.pc = pc BY <1>2
  <2>3. proc' = [proc EXCEPT ![p] = r] BY <2>1
  <2> HIDE DEF r
  <2> QED BY <1>2, <2>1, <2>2, <2>3
<1>12. CASE ReadPending(p)
  <2>1. PICK read : proc' = [proc EXCEPT ![p].pc = "offer", ![p].mem = read]
    BY <1>12 DEF ReadPending
  <2> DEFINE r == [proc[p] EXCEPT !.pc = "offer", !.mem = read]
  <2>2. r.pc = "offer" BY <1>2
  <2>3. proc' = [proc EXCEPT ![p] = r]
        /\ UNCHANGED <<file, accepted, spoken, counted, fate, hushed>>
    BY <1>12, <2>1 DEF ReadPending
  <2> HIDE DEF r
  <2> QED BY <1>2, <2>2, <2>3
<1>13. CASE Leave(p) \/ Crash(p)
  <2>1. Idle.pc = "idle" BY DEF Idle
  <2>2. proc' = [proc EXCEPT ![p] = Idle]
        /\ UNCHANGED <<file, accepted, spoken, counted, fate, hushed>>
    BY <1>13 DEF Leave, Crash
  <2> QED BY <1>2, <2>1, <2>2
<1> QED BY <1>6, <1>7, <1>8, <1>9, <1>10, <1>11, <1>12, <1>13

LEMMA HeldStays ==
  ASSUME Held, \A q \in Procs : proc'[q].pc = "commit" => proc'[q] = proc[q]
  PROVE  Held'
BY DEF Held

LEMMA IInvStep ==
  ASSUME IInv, [Next]_vars
  PROVE  IInv'
<1>1. TypeOK /\ Held /\ (sound => SoundInv) BY DEF IInv
<1>2. sound' => sound BY SoundLasts
<1>3. CASE UNCHANGED vars
  <2>1. Inv => Inv' BY <1>3 DEF Inv, Processes, Apart, CopyIsFile, Inside, vars
  <2>2. TypeOK'
    <3>1. UNCHANGED <<file, lock, proc, sent, micActive, digestsOn, accepted, spoken,
                      counted, fate, patient, sound, upsets>>
      BY <1>3 DEF vars
    <3> QED BY <1>1, <3>1 DEF TypeOK, StateOK
  <2>3. UNCHANGED <<file, accepted, spoken, counted, fate, hushed, proc>> BY <1>3 DEF vars
  <2>4. SoundInv => Engine' /\ Messages' BY <2>3, QuietMessages
  <2>5. Held' BY <1>1, <2>3 DEF Held
  <2>6. sound' => SoundInv' BY <1>1, <1>2, <2>1, <2>2, <2>4 DEF SoundInv
  <2> QED BY <2>2, <2>5, <2>6 DEF IInv
<1>4. CASE Next
  <2>1. sound' => Inv' BY <1>1, <1>2, <1>4, InvStep DEF SoundInv
  <2>2. TypeOK' /\ Held' /\ (sound' => Engine' /\ Messages')
    <3>1. ASSUME NEW p \in Procs,
                 \/ Deliver(p) \/ Repeat(p) \/ Retry(p) \/ Acquire(p) \/ GiveUp(p)
                 \/ FindStale(p) \/ BreakStale(p) \/ ReadPending(p) \/ Leave(p) \/ Crash(p)
          PROVE  TypeOK' /\ Held' /\ (sound' => Engine' /\ Messages')
      <4>1. TypeOK' BY <1>1, <1>2, <3>1, QuietTypes
      <4>2. /\ UNCHANGED <<file, accepted, spoken, counted, fate, hushed>>
            /\ \A q \in Procs : proc'[q].pc = "commit" => proc'[q] = proc[q]
        BY <1>1, <3>1, QuietCommits
      <4>3. Held' BY <1>1, <4>2, HeldStays
      <4>4. \A q \in Procs : proc'[q].pc = "commit" => proc[q].pc = "commit" BY <4>2
      <4>5. SoundInv => Engine' /\ Messages' BY <4>2, <4>4, QuietMessages
      <4> QED BY <1>1, <1>2, <4>1, <4>3, <4>5
    <3>2. ASSUME NEW p \in Procs, SelectLines(p)
          PROVE  TypeOK' /\ Held' /\ (sound' => Engine' /\ Messages')
      <4> DEFINE m == proc[p].batch[1]
                 k == proc[p].batch[2]
                 mic == proc[p].mic
                 digests == proc[p].digests
      <4>1. PICK a, b, c, d : a = m /\ b = k /\ c = mic /\ d = digests OBVIOUS
      <4>2. sound' => StateIn(file', fate') /\ Engine' /\ Messages'
        BY <1>1, <1>2, <3>2, <4>1, SelectStep
      <4>3. /\ TypeOK'
            /\ \A q \in Procs : proc'[q].pc = "commit" => proc'[q] = proc[q]
        BY <1>1, <1>2, <3>2, <4>1, <4>2, SelectTypes
      <4> QED BY <1>1, <4>2, <4>3, HeldStays
    <3>3. ASSUME NEW p \in Procs, Offer(p)
          PROVE  TypeOK' /\ Held' /\ (sound' => Engine' /\ Messages')
      <4>1. SoundInv => Engine' /\ Messages' BY <3>3, OfferStep
      <4>2. TypeOK' /\ Held' BY <1>1, <3>3, OfferTypes
      <4> QED BY <1>1, <1>2, <4>1, <4>2
    <3>4. ASSUME NEW p \in Procs, Commit(p)
          PROVE  TypeOK' /\ Held' /\ (sound' => Engine' /\ Messages')
      <4>1. sound' => StateIn(file', fate') /\ Engine' /\ Messages'
        BY <1>1, <1>2, <3>4, CommitStep
      <4>2. /\ TypeOK'
            /\ \A q \in Procs : proc'[q].pc = "commit" => proc'[q] = proc[q]
        BY <1>1, <1>2, <3>4, <4>1, CommitTypes
      <4> QED BY <1>1, <4>1, <4>2, HeldStays
    <3>5. CASE Flip
      <4>1. TypeOK' BY <1>1, <3>5, FlipTypes
      <4>2. UNCHANGED <<file, proc, accepted, spoken, counted, fate, hushed>> BY <3>5 DEF Flip
      <4>3. SoundInv => Engine' /\ Messages' BY <4>2, QuietMessages
      <4>4. Held' BY <1>1, <4>2 DEF Held
      <4> QED BY <1>1, <1>2, <4>1, <4>3, <4>4
    <3> QED BY <1>4, <3>1, <3>2, <3>3, <3>4, <3>5 DEF Next
  <2> QED BY <2>1, <2>2 DEF IInv, SoundInv
<1> QED BY <1>3, <1>4

LEMMA IInvHolds == Spec => []IInv
<1>1. Init => IInv
  <2>1. Init => Held BY DEF Init, Idle, Held
  <2> QED BY <2>1, InitTypes, InitSound DEF IInv
<1>2. IInv /\ [Next]_vars => IInv' BY IInvStep
<1> QED BY <1>1, <1>2, PTL DEF Spec

\* TypeOK, for any texts, batches and processes: the state file and every copy of
\* it is always a state of the session, and while the file is sound the offset
\* saved in it is a mark of its message.
THEOREM NarrationTypes == Spec => []TypeOK
<1>1. IInv => TypeOK BY DEF IInv
<1> QED BY <1>1, IInvHolds, PTL

\* The marks a listener is owed, and those of what was said, in order.
LEMMA OwedIs ==
  ASSUME NEW m \in Keys, NEW kept \in SUBSET Marks(m),
         NEW owed, owed = [i \in DOMAIN Ascending(kept) |-> Line(m, Ascending(kept)[i])]
  PROVE  /\ kept \in SUBSET Nat /\ IsFiniteSet(kept) /\ Cardinality(kept) \in Nat
         /\ DOMAIN owed = 1..Cardinality(kept) /\ owed \in Seq(Utterances)
         /\ Len(owed) = Cardinality(kept)
         /\ \A i \in 1..Cardinality(kept) : owed[i] = Line(m, Ascending(kept)[i])
<1> DEFINE c == Cardinality(kept)
           at == Ascending(kept)
<1>1. kept \in SUBSET Nat /\ IsFiniteSet(kept)
  <2>1. IsFiniteSet(1..Count(Text[m]))
    <3>1. 1 \in Int /\ Count(Text[m]) \in Int BY MarksAre
    <3> QED BY <3>1, FS_Interval
  <2>3. IsFiniteSet({Short}) /\ IsFiniteSet({}) BY FS_Singleton, FS_EmptySet
  <2>2. IsFiniteSet(Marks(m)) BY <2>1, <2>3, MarksAre
  <2> QED BY <2>2, MarksAre, FS_Subset
<1>2. c \in Nat /\ DOMAIN at = 1..c /\ \A i \in 1..c : at[i] \in kept
  BY <1>1, AscendingIs DEF Increasing
<1> HIDE DEF c, at
<1>3. owed = [i \in 1..c |-> Line(m, at[i])] BY <1>2 DEF at
<1>4. \A i \in 1..c : Line(m, at[i]) \in Utterances BY <1>2, LineType
<1>5. owed \in [1..c -> Utterances] BY <1>3, <1>4
<1>6. owed \in Seq(Utterances) /\ Len(owed) = c BY <1>2, <1>5
<1> QED BY <1>1, <1>2, <1>3, <1>6 DEF c, at

\* What has been said of an open message is what is owed, from the front.
LEMMA SaidBegins ==
  ASSUME NEW m \in Keys, NEW said \in Seq(Utterances), NEW pending \in Seq(Utterances),
         NEW known, InOrder(m, said, pending, known), NEW state, state.pending = pending,
         NEW kept \in SUBSET Marks(m), NEW closed, Whole(Told(m, state, said), kept, closed)
  PROVE  /\ Len(said) <= Cardinality(kept)
         /\ \A i \in 1..Len(said) : said[i] = Line(m, Ascending(kept)[i])
<1> DEFINE a == Len(said)
           b == Cardinality(kept)
           f == [i \in 1..a |-> said[i].after]
           g == Ascending(kept)
<1>1. a \in Nat /\ DOMAIN said = 1..a
      /\ \A i \in DOMAIN said : said[i].after \in Nat /\ said[i].after \in Heard(said)
  BY HeardType
<1>2. b \in Nat /\ Increasing(g, b) /\ (\A n \in 1..b : g[n] \in kept)
      /\ \A x \in kept : \E n \in 1..b : g[n] = x
  BY OwedIs, AscendingIs
<1> HIDE DEF a, b, g
<1>3. \A i, j \in DOMAIN said : i < j => said[i].after < said[j].after BY DEF InOrder
<1>4. DOMAIN f = 1..a /\ \A i \in 1..a : f[i] = said[i].after OBVIOUS
<1> HIDE DEF f
<1>5. Increasing(f, a) BY <1>1, <1>3, <1>4 DEF Increasing
<1>6. /\ Told(m, state, said) \subseteq kept
      /\ \A n \in kept, d \in Told(m, state, said) : n < d => n \in Told(m, state, said)
  BY DEF Whole
<1>7. \A i \in 1..a : f[i] \in Told(m, state, said) BY <1>1, <1>4 DEF Told
<1>8. ASSUME NEW i \in 1..a, NEW n \in Told(m, state, said), n < f[i]
      PROVE  \E k \in 1..a : f[k] = n
  <2>1. CASE n \in Heard(said) BY <1>1, <1>4, <2>1 DEF Heard
  <2>2. CASE n \in MarksOf(state, m)
    <3>1. PICK l \in DOMAIN pending : pending[l].key = m /\ pending[l].after = n
      BY <2>2 DEF MarksOf
    <3>2. /\ pending[l] \in known => said # <<>> /\ said[Len(said)] = pending[l]
          /\ pending[l] \notin known => \A j \in DOMAIN said : said[j].after < n
      BY <3>1 DEF InOrder
    <3>3. CASE pending[l] \in known
      <4>1. a \in 1..a BY <1>1, <1>8
      <4>2. said[a] = pending[l] BY <3>2, <3>3 DEF a
      <4> QED BY <1>4, <3>1, <4>1, <4>2
    <3>4. CASE pending[l] \notin known
      <4>1. f[i] < n /\ f[i] \in Nat BY <1>1, <1>4, <3>2, <3>4
      <4>2. n \in Nat BY <1>6, OwedIs
      <4> QED BY <1>8, <4>1, <4>2
    <3> QED BY <3>3, <3>4
  <2> QED BY <2>1, <2>2 DEF Told
<1>9. SmallestOf(f, a, g, b)
  <2>1. \A i \in 1..a : \E j \in 1..b : f[i] = g[j] BY <1>2, <1>6, <1>7
  <2>2. ASSUME NEW i \in 1..a, NEW j \in 1..b, g[j] < f[i] PROVE \E k \in 1..a : f[k] = g[j]
    <3>1. g[j] \in Told(m, state, said) BY <1>2, <1>6, <1>7, <2>2
    <3> QED BY <1>8, <2>2, <3>1
  <2> QED BY <2>1, <2>2 DEF SmallestOf
<1>10. a <= b /\ \A i \in 1..a : f[i] = g[i] BY <1>1, <1>2, <1>5, <1>9, BeginsAlike
<1>11. \A i \in DOMAIN said : said[i] = Line(m, said[i].after) BY DEF InOrder
<1> QED BY <1>1, <1>4, <1>10, <1>11 DEF a, b, g

\* The file and one open message.
LEMMA OpenIs ==
  ASSUME SoundInv, NEW m \in Keys, fate[m] = "open"
  PROVE  /\ file.pending \in Seq(Utterances) /\ spoken[m] \in Seq(Utterances)
         /\ InOrder(m, spoken[m], file.pending, ToSet(accepted))
         /\ Whole(Told(m, file, spoken[m]), Kept(m, hushed), Len(Batches[m]) \in Done(m))
<1>1. file \in States /\ spoken \in [Keys -> Seq(Utterances)] BY DEF SoundInv, TypeOK, StateOK
<1>2. MessageOK(m, "open", file, spoken[m], hushed, Done(m), ToSet(accepted))
  BY DEF SoundInv, Messages, Message
<1> QED BY <1>1, <1>2 DEF States, MessageOK

LEMMA OwedKept ==
  ASSUME NEW m \in Keys
  PROVE  /\ Kept(m, hushed) \in SUBSET Marks(m)
         /\ Owed(m) = [i \in DOMAIN Ascending(Kept(m, hushed)) |->
                         Line(m, Ascending(Kept(m, hushed))[i])]
BY DEF Owed, Kept

\* OnceInDocumentOrder, for any texts, batches and processes, until two processes
\* have been inside at once or the disk has failed one (sound): each line of an
\* open message reaches the engine once, in the order of the document, and none
\* is skipped.
THEOREM SpokenOnceInOrder == Spec => []OnceInDocumentOrder
<1>1. IInv => OnceInDocumentOrder
  <2> SUFFICES ASSUME SoundInv, NEW m \in Keys
               PROVE  /\ fate[m] \in {"new", "gated"} => spoken[m] = <<>>
                      /\ fate[m] = "open" => IsPrefix(spoken[m], Owed(m))
    BY DEF IInv, OnceInDocumentOrder
  <2>1. CASE fate[m] \in {"new", "gated"}
    <3>1. MessageOK(m, fate[m], file, spoken[m], hushed, Done(m), ToSet(accepted))
      BY DEF SoundInv, Messages, Message
    <3> QED BY <2>1, <3>1 DEF MessageOK, Unheard
  <2>2. CASE fate[m] = "open"
    <3> DEFINE said == spoken[m]
               owed == Owed(m)
               c == Cardinality(Kept(m, hushed))
               g == Ascending(Kept(m, hushed))
    <3>1. said \in Seq(Utterances) BY <2>2, OpenIs
    <3>2. Len(said) <= c /\ \A i \in 1..Len(said) : said[i] = Line(m, g[i])
      BY <2>2, OpenIs, OwedKept, SaidBegins
    <3>3. /\ c \in Nat /\ owed \in Seq(Utterances) /\ Len(owed) = c
          /\ \A i \in 1..c : owed[i] = Line(m, g[i])
      BY OwedIs, OwedKept
    <3> HIDE DEF said, owed, c, g
    <3>4. \A i \in 1..Len(said) : said[i] = owed[i] BY <3>1, <3>2, <3>3
    <3>5. SubSeq(said, 1, Len(said)) = SubSeq(owed, 1, Len(said)) BY <3>1, <3>3, <3>4
    <3> QED BY <2>2, <3>2, <3>3, <3>5 DEF IsPrefix, said, owed
  <2> QED BY <2>1, <2>2
<1> QED BY <1>1, IInvHolds, PTL

\* NothingForgotten, for any texts, batches and processes, until the same moment
\* (sound): once the final batch is counted, each line the listener is owed has
\* been spoken or waits in the state file.
THEOREM NothingIsForgotten == Spec => []NothingForgotten
<1>1. IInv => NothingForgotten
  <2> SUFFICES ASSUME SoundInv, NEW m \in Keys, fate[m] = "open", <<m, Len(Batches[m])>> \in counted
               PROVE  ToSet(Owed(m)) \subseteq ToSet(spoken[m]) \cup ToSet(file.pending)
    BY DEF IInv, NothingForgotten
  <2>1. Len(Batches[m]) \in Done(m) BY BatchesAre DEF Done
  <2>2. Told(m, file, spoken[m]) = Kept(m, hushed) BY <2>1, OpenIs DEF Whole
  <2>3. InOrder(m, spoken[m], file.pending, ToSet(accepted)) BY OpenIs
  <2>4. ASSUME NEW n \in Kept(m, hushed)
        PROVE  Line(m, n) \in ToSet(spoken[m]) \cup ToSet(file.pending)
    <3>1. CASE n \in Heard(spoken[m])
      <4>1. PICK i \in DOMAIN spoken[m] : spoken[m][i].after = n BY <3>1 DEF Heard
      <4>2. spoken[m][i] = Line(m, n) BY <2>3, <4>1 DEF InOrder
      <4> QED BY <4>2 DEF ToSet
    <3>2. CASE n \in MarksOf(file, m)
      <4>1. PICK i \in DOMAIN file.pending : file.pending[i].key = m /\ file.pending[i].after = n
        BY <3>2 DEF MarksOf
      <4>2. file.pending[i] = Line(m, n) BY <2>3, <4>1 DEF InOrder
      <4> QED BY <4>2 DEF ToSet
    <3> QED BY <2>2, <3>1, <3>2 DEF Told
  <2>5. /\ DOMAIN Owed(m) = 1..Cardinality(Kept(m, hushed))
        /\ \A i \in 1..Cardinality(Kept(m, hushed)) :
             Owed(m)[i] = Line(m, Ascending(Kept(m, hushed))[i])
    BY OwedIs, OwedKept
  <2>6. \A i \in 1..Cardinality(Kept(m, hushed)) : Ascending(Kept(m, hushed))[i] \in Kept(m, hushed)
    BY OwedIs, OwedKept, AscendingIs
  <2> QED BY <2>4, <2>5, <2>6 DEF ToSet
<1> QED BY <1>1, IInvHolds, PTL

LEMMA OwnStepKeepsApart ==
  ASSUME Processes, LockKeepsApart, NEW p \in Procs, NEW r, proc' = [proc EXCEPT ![p] = r],
         Inside(p)' => Inside(p) /\ r.held = proc[p].held,
         lock' = lock \/ (lock' = (lock /\ ~proc[p].held) /\ Inside(p) /\ ~Inside(p)'),
         patient' => patient
  PROVE  LockKeepsApart'
<1> SUFFICES ASSUME patient', NEW q \in Procs, Inside(q)'
             PROVE  Owner(q)'
  BY DEF LockKeepsApart
<1>1. proc'[p] = r /\ \A s \in Procs \ {p} : proc'[s] = proc[s] BY DEF Processes
<1>2. \A s \in Procs : Inside(s)' => Inside(s) BY <1>1 DEF Inside
<1>3. Owner(q) BY <1>2 DEF LockKeepsApart
<1>4. proc'[q].held = proc[q].held BY <1>1
<1>5. lock' = lock
  <2>1. CASE Inside(p) /\ ~Inside(p)' BY <1>3, <2>1 DEF Owner
  <2> QED BY <2>1
<1> QED BY <1>2, <1>3, <1>4, <1>5 DEF Owner

\* LockKeepsApart, for any texts, batches and processes: two processes are inside
\* at once only after one has given up its spin or removed a lock.
THEOREM OwnersAreAlone == Spec => []LockKeepsApart
<1>1. Init => LockKeepsApart BY DEF Init, Idle, LockKeepsApart, Inside
<1>2. ASSUME TypeOK, LockKeepsApart, [Next]_vars PROVE LockKeepsApart'
  <2>0. Processes BY <1>2, ProcessesAre
  <2>1. CASE UNCHANGED vars
    BY <1>2, <2>1 DEF vars, LockKeepsApart, Owner, Inside
  <2>2. ASSUME NEW p \in Procs, \E batch : Start(p, batch), UNCHANGED <<lock, patient>>
        PROVE  LockKeepsApart'
    <3>1. PICK r : proc' = [proc EXCEPT ![p] = r] /\ r.pc = "spin"
      <4>1. PICK batch : Start(p, batch) BY <2>2
      <4> DEFINE r == [Idle EXCEPT !.pc = "spin", !.batch = batch, !.mic = micActive,
                                   !.digests = digestsOn]
      <4>2. proc' = [proc EXCEPT ![p] = r] BY <4>1 DEF Start
      <4>3. r.pc = "spin" BY DEF Idle
      <4> QED BY <4>2, <4>3
    <3>2. ~Inside(p)' BY <2>0, <3>1 DEF Processes, Inside
    <3> QED BY <1>2, <2>0, <2>2, <3>1, <3>2, OwnStepKeepsApart
  <2>3. ASSUME NEW p \in Procs, Deliver(p) \/ Repeat(p) \/ Retry(p) PROVE LockKeepsApart'
    BY <2>2, <2>3 DEF Deliver, Repeat, Retry
  <2>4. ASSUME NEW p \in Procs, Acquire(p) PROVE LockKeepsApart'
    <3> SUFFICES ASSUME patient, NEW q \in Procs, Inside(q)' PROVE Owner(q)'
      BY <2>4 DEF LockKeepsApart, Acquire
    <3>1. /\ proc'[p].held = TRUE /\ lock' = TRUE
          /\ \A s \in Procs \ {p} : proc'[s] = proc[s]
      BY <2>0, <2>4 DEF Acquire, Enter, Processes
    <3>2. \A s \in Procs : ~Inside(s) BY <1>2, <2>4 DEF LockKeepsApart, Owner, Acquire
    <3>3. \A s \in Procs \ {p} : ~Inside(s)' BY <3>1, <3>2 DEF Inside
    <3> QED BY <3>1, <3>3 DEF Owner
  <2>5. ASSUME NEW p \in Procs, GiveUp(p) \/ BreakStale(p) PROVE LockKeepsApart'
    BY <2>5 DEF GiveUp, BreakStale, LockKeepsApart
  <2>6. ASSUME NEW p \in Procs, Leave(p) \/ Crash(p) PROVE LockKeepsApart'
    <3>1. /\ proc' = [proc EXCEPT ![p] = Idle] /\ patient' = patient
          /\ \/ lock' = lock
             \/ lock' = (lock /\ ~proc[p].held) /\ Inside(p)
      BY <2>6 DEF Leave, Crash, Inside
    <3>2. ~Inside(p)' BY <2>0, <3>1 DEF Idle, Processes, Inside
    <3> QED BY <1>2, <2>0, <3>1, <3>2, OwnStepKeepsApart
  <2>7. ASSUME NEW p \in Procs,
               FindStale(p) \/ SelectLines(p) \/ ReadPending(p) \/ Offer(p) \/ Commit(p)
        PROVE  LockKeepsApart'
    <3>1. UNCHANGED <<lock, patient>>
      BY <2>7 DEF FindStale, SelectLines, ReadPending, Offer, Commit
    <3>2. PICK pc, mem :
            /\ \/ proc' = [proc EXCEPT ![p].pc = pc]
               \/ proc' = [proc EXCEPT ![p].pc = pc, ![p].mem = mem]
            /\ pc = "breaking" \/ Inside(p)
      <4>1. CASE FindStale(p) BY <4>1 DEF FindStale
      <4>2. CASE SelectLines(p) BY <4>2 DEF SelectLines, Inside
      <4>3. CASE ReadPending(p) BY <4>3 DEF ReadPending, Inside
      <4>4. CASE Offer(p) BY <4>4 DEF Offer, Inside
      <4>5. CASE Commit(p)
        <5>1. proc' = [proc EXCEPT ![p].pc = "offer", ![p].mem = Admitted(proc[p].mem)]
          BY <2>0, <4>5 DEF Commit, Processes
        <5> QED BY <4>5, <5>1 DEF Commit, Inside
      <4> QED BY <2>7, <4>1, <4>2, <4>3, <4>4, <4>5
    <3>3. PICK r : proc' = [proc EXCEPT ![p] = r] /\ r.held = proc[p].held /\ r.pc = pc
      <4>1. CASE proc' = [proc EXCEPT ![p].pc = pc]
        <5> DEFINE r == [proc[p] EXCEPT !.pc = pc]
        <5>1. r.held = proc[p].held /\ r.pc = pc BY <2>0 DEF Processes
        <5> QED BY <4>1, <5>1
      <4>2. CASE proc' = [proc EXCEPT ![p].pc = pc, ![p].mem = mem]
        <5> DEFINE r == [proc[p] EXCEPT !.pc = pc, !.mem = mem]
        <5>1. r.held = proc[p].held /\ r.pc = pc BY <2>0 DEF Processes
        <5> QED BY <4>2, <5>1
      <4> QED BY <3>2, <4>1, <4>2
    <3>4. Inside(p)' => Inside(p)
      <4>1. proc'[p].pc = pc BY <2>0, <3>3 DEF Processes
      <4> QED BY <3>2, <4>1 DEF Inside
    <3> QED BY <1>2, <2>0, <3>1, <3>3, <3>4, OwnStepKeepsApart
  <2>8. CASE Flip BY <1>2, <2>8 DEF Flip, LockKeepsApart, Owner, Inside
  <2> QED BY <1>2, <2>1, <2>3, <2>4, <2>5, <2>6, <2>7, <2>8 DEF Next
<1> QED BY <1>1, <1>2, NarrationTypes, PTL DEF Spec

\* While the file is sound, what a process writes back is made from what the file
\* says: no mark and no pending line of another is overwritten (admit_pending
\* works on the state read at the start; "overlapping writers drop the spoken
\* line").
THEOREM NothingOverwritten == Spec => [](sound => CopyIsFile)
<1>1. IInv => (sound => CopyIsFile) BY DEF IInv, SoundInv, Inv
<1> QED BY <1>1, IInvHolds, PTL
==============================================================================
