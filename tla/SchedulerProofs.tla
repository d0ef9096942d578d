-------------------------- MODULE SchedulerProofs --------------------------
(***************************************************************************)
(* Theorems about the service order, for any number of items and terminals *)
(* and any burst.                                                          *)
(*                                                                         *)
(* Overtaking is paid for.  A preferred item is passed by a background     *)
(* turn only, and a turn comes after a burst of claims in front of it; a   *)
(* background item is passed by the claims of a burst, after which an item *)
(* not behind it has its turn.  Credit says so at each position: what an   *)
(* item has suffered, and what still waits in front of it, is bounded by   *)
(* what was ahead of it and the state of the burst.                        *)
(***************************************************************************)
EXTENDS Scheduler, QueueOrderProofs, FiniteSetTheorems

USE QueueOrderAssumption, SchedulerAssumption

QueueOK == items \in Seq(Items) /\ Distinct(items)

\* Numbers that count.
Counts ==
  /\ active \in [explicit : Tags \cup {NoSession}, recent : Tags \cup {NoSession}]
  /\ preferredRun \in 0..ActiveSessionBurst
  /\ ahead \in [Items -> Nat] /\ passed \in [Items -> Nat]

CreditAt(p) ==
  LET i == items[p] IN
    IF Preferred(i, Effective)
    THEN passed[i] + (p - 1)
           <= ahead[i] + (IF preferredRun = ActiveSessionBurst THEN 0 ELSE 1)
    ELSE passed[i] + ActiveSessionBurst * (p - 1)
           <= ActiveSessionBurst * ahead[i] + preferredRun

Credit == \A p \in DOMAIN items : CreditAt(p)

Inv == QueueOK /\ Counts /\ Credit

-----------------------------------------------------------------------------

\* The products of the burst are all of this form.
LEMMA Times ==
  /\ ActiveSessionBurst \in Nat /\ ActiveSessionBurst >= 1
  /\ \A x \in Nat :
       /\ ActiveSessionBurst * x \in Nat /\ ActiveSessionBurst * x >= x
       /\ ActiveSessionBurst * (x + 1) = ActiveSessionBurst * x + ActiveSessionBurst
<1>1. ActiveSessionBurst \in Nat /\ ActiveSessionBurst >= 1 OBVIOUS
<1>2. ASSUME NEW x \in Nat
      PROVE  /\ ActiveSessionBurst * x \in Nat
             /\ ActiveSessionBurst * (x + 1) = ActiveSessionBurst * x + ActiveSessionBurst
  BY <1>1
<1>3. ASSUME NEW x \in Nat PROVE ActiveSessionBurst * x >= x
  <2>1. PICK b \in Nat : ActiveSessionBurst = b + 1 BY <1>1
  <2>2. (b + 1) * x = b * x + x /\ b * x \in Nat BY <2>1
  <2> QED BY <2>1, <2>2
<1> QED BY <1>1, <1>2, <1>3

LEMMA Positions ==
  ASSUME QueueOK
  PROVE  /\ Len(items) \in Nat /\ DOMAIN items = 1..Len(items)
         /\ \A p \in DOMAIN items : items[p] \in Items
BY LenProperties, ElementOfSeq DEF QueueOK

\* The item served is the first of its kind, the preferred or the others; without
\* an active terminal, the first of all.
LEMMA FirstOfItsKind ==
  ASSUME QueueOK, Counts, Effective # NoSession, NEW n \in DOMAIN items,
         NextInLine(items, Effective, preferredRun, n)
  PROVE  LET turn == BackgroundTurn(items, Effective, preferredRun)
         IN  /\ Preferred(items[n], Effective) <=> ~turn
             /\ \A m \in 1..(n - 1) : Preferred(items[m], Effective) <=> turn
             /\ turn => preferredRun = ActiveSessionBurst
                        \/ \A m \in DOMAIN items : ~Preferred(items[m], Effective)
             /\ ~turn => preferredRun < ActiveSessionBurst
                         \/ \A m \in DOMAIN items : Preferred(items[m], Effective)
<1> DEFINE preferred == {m \in DOMAIN items : Preferred(items[m], Effective)}
<1>2. IF BackgroundTurn(items, Effective, preferredRun)
        THEN n \notin preferred /\ \A m \in DOMAIN items \ preferred : n <= m
        ELSE n \in preferred /\ \A m \in preferred : n <= m
  BY DEF NextInLine, FirstOf
<1>3. \A m \in 1..(n - 1) : m \in DOMAIN items /\ ~(n <= m)
  BY Positions
<1>4. BackgroundTurn(items, Effective, preferredRun)
        <=> preferred # DOMAIN items
            /\ (preferred = {} \/ preferredRun >= ActiveSessionBurst)
  BY DEF BackgroundTurn
<1>5. preferredRun \in Nat /\ preferredRun <= ActiveSessionBurst
  BY DEF Counts
<1> QED BY <1>2, <1>3, <1>4, <1>5

-----------------------------------------------------------------------------
(* Each operation keeps the invariant.                                     *)

\* What is counted afresh is in credit, whoever is active then.
LEMMA AfreshKeeps ==
  ASSUME NEW q \in Seq(Items), Distinct(q), CountAfresh(q),
         items' = q, preferredRun' \in 0..ActiveSessionBurst
  PROVE  /\ ahead' \in [Items -> Nat] /\ passed' \in [Items -> Nat]
         /\ Credit'
<1> DEFINE before(i) == {n \in DOMAIN q : \E m \in DOMAIN q : n < m /\ q[m] = i}
<1>1. /\ ahead' = [i \in Items |-> Cardinality(before(i))]
      /\ passed' = [i \in Items |-> 0]
  BY DEF CountAfresh
<1>2. /\ Len(q) \in Nat /\ DOMAIN q = 1..Len(q)
      /\ \A p \in DOMAIN q : q[p] \in Items
  BY LenProperties, ElementOfSeq
<1>3. ASSUME NEW i \in Items PROVE Cardinality(before(i)) \in Nat
  <2>1. before(i) \subseteq 1..Len(q) /\ Len(q) \in Int BY <1>2
  <2>2. IsFiniteSet(1..Len(q)) BY <2>1, FS_Interval
  <2> QED BY <2>1, <2>2, FS_Subset, FS_CardinalityType
<1>4. ASSUME NEW p \in DOMAIN q PROVE Cardinality(before(q[p])) = p - 1
  <2>1. p \in Nat /\ p >= 1 /\ p <= Len(q) BY <1>2
  <2>2. before(q[p]) = 1..(p - 1) BY <1>2, <2>1 DEF Distinct
  <2>3. Cardinality(1..(p - 1)) = IF 1 > p - 1 THEN 0 ELSE (p - 1) - 1 + 1
    BY <2>1, FS_Interval, 1 \in Int, p - 1 \in Int
  <2> HIDE DEF before
  <2> QED BY <2>1, <2>2, <2>3
<1> HIDE DEF before
<1>5. ahead' \in [Items -> Nat] /\ passed' \in [Items -> Nat] BY <1>1, <1>3
<1>6. ASSUME NEW p \in DOMAIN q PROVE CreditAt(p)'
  <2>1. p - 1 \in Nat /\ q[p] \in Items BY <1>2
  <2>2. ahead'[q[p]] = p - 1 /\ passed'[q[p]] = 0 BY <1>1, <1>4, <2>1
  <2>3. ActiveSessionBurst * (p - 1) \in Nat /\ preferredRun' \in Nat
    BY <2>1, Times
  <2>4. /\ passed'[q[p]] + (p - 1)
             <= ahead'[q[p]] + (IF preferredRun' = ActiveSessionBurst THEN 0 ELSE 1)
        /\ passed'[q[p]] + ActiveSessionBurst * (p - 1)
             <= ActiveSessionBurst * ahead'[q[p]] + preferredRun'
    BY <2>1, <2>2, <2>3
  <2> QED BY <2>4 DEF CreditAt
<1> QED BY <1>5, <1>6 DEF Credit

LEMMA EnqueueKeeps ==
  ASSUME Inv, NEW i \in Items, Enqueue(i)
  PROVE  Inv'
<1>1. /\ i \notin Queued(items) /\ items' = Append(items, i)
      /\ active' = [active EXCEPT !.recent = SessionOf[i]]
      /\ preferredRun' = preferredRun
  BY DEF Enqueue
<1>2. QueueOK' BY <1>1, QueuedAppend DEF Inv, QueueOK
<1>3. /\ preferredRun' \in 0..ActiveSessionBurst
      /\ active' \in [explicit : Tags \cup {NoSession}, recent : Tags \cup {NoSession}]
  BY <1>1 DEF Inv, Counts
<1>4. CASE Effective' # Effective
  <2>1. CountAfresh(items') BY <1>4 DEF Enqueue
  <2>2. ahead' \in [Items -> Nat] /\ passed' \in [Items -> Nat] /\ Credit'
    BY <1>2, <1>3, <2>1, AfreshKeeps DEF QueueOK
  <2> QED BY <1>2, <1>3, <2>2 DEF Inv, Counts
<1>5. CASE Effective' = Effective
  <2>1. /\ ahead' = [ahead EXCEPT ![i] = Len(items)]
        /\ passed' = [passed EXCEPT ![i] = 0]
    BY <1>5 DEF Enqueue
  <2>2. Counts' BY <1>3, <2>1, Positions DEF Inv, Counts
  <2>3. /\ DOMAIN items' = 1..(Len(items) + 1) /\ items'[Len(items) + 1] = i
        /\ \A p \in DOMAIN items : items'[p] = items[p] /\ items[p] # i
    BY <1>1, Positions, AppendProperties DEF Inv, QueueOK, Queued
  <2>4. ASSUME NEW p \in DOMAIN items PROVE CreditAt(p)'
    <3>1. items'[p] = items[p] /\ ahead'[items[p]] = ahead[items[p]]
          /\ passed'[items[p]] = passed[items[p]]
      BY <2>1, <2>3, Positions DEF Inv, Counts
    <3>2. CreditAt(p) BY DEF Inv, Credit
    <3> QED BY <1>1, <1>5, <3>1, <3>2 DEF CreditAt
  <2>5. ASSUME NEW p \in {Len(items) + 1} PROVE CreditAt(p)'
    <3>1. ahead'[i] = p - 1 /\ passed'[i] = 0 /\ items'[p] = i /\ p - 1 \in Nat
      BY <2>1, <2>3, Positions DEF Inv, Counts
    <3>2. ActiveSessionBurst * (p - 1) \in Nat BY <3>1, Times
    <3>3. preferredRun' \in Nat BY <1>3
    <3>4. /\ passed'[i] + (p - 1)
               <= ahead'[i] + (IF preferredRun' = ActiveSessionBurst THEN 0 ELSE 1)
          /\ passed'[i] + ActiveSessionBurst * (p - 1)
               <= ActiveSessionBurst * ahead'[i] + preferredRun'
      BY <3>1, <3>2, <3>3
    <3>5. items'[p] = i BY <3>1
    <3> QED BY <3>4, <3>5 DEF CreditAt
  <2>6. Credit'
    <3> SUFFICES ASSUME NEW p \in DOMAIN items' PROVE CreditAt(p)' BY DEF Credit
    <3>1. p \in DOMAIN items \/ p \in {Len(items) + 1} BY <2>3, Positions DEF Inv
    <3> QED BY <2>4, <2>5, <3>1
  <2> QED BY <1>2, <2>2, <2>6 DEF Inv
<1> QED BY <1>4, <1>5

LEMMA MarkKeeps ==
  ASSUME Inv, NEW t \in Marks, MarkActive(t)
  PROVE  Inv'
<1>1. /\ active' = [active EXCEPT !.explicit = t] /\ UNCHANGED <<items, preferredRun>>
  BY DEF MarkActive
<1>2. QueueOK' BY <1>1 DEF Inv, QueueOK
<1>3. /\ preferredRun' \in 0..ActiveSessionBurst
      /\ active' \in [explicit : Tags \cup {NoSession}, recent : Tags \cup {NoSession}]
  BY <1>1 DEF Inv, Counts
<1>4. CASE Effective' # Effective
  <2>1. CountAfresh(items) BY <1>4 DEF MarkActive
  <2>2. ahead' \in [Items -> Nat] /\ passed' \in [Items -> Nat] /\ Credit'
    BY <1>1, <1>3, <2>1, AfreshKeeps DEF Inv, QueueOK
  <2> QED BY <1>2, <1>3, <2>2 DEF Inv, Counts
<1>5. CASE Effective' = Effective
  <2>1. UNCHANGED <<ahead, passed>> BY <1>5 DEF MarkActive
  <2> QED BY <1>1, <1>2, <1>3, <1>5, <2>1 DEF Inv, Counts, Credit, CreditAt
<1> QED BY <1>4, <1>5

LEMMA ClaimKeeps ==
  ASSUME Inv, Claim
  PROVE  Inv'
<1>1. PICK n \in DOMAIN items :
        /\ NextInLine(items, Effective, preferredRun, n)
        /\ items' = RemoveAt(items, n)
        /\ preferredRun' = RunAfter(items, Effective, preferredRun)
        /\ passed' = [i \in Items |->
                        IF \E m \in 1..(n - 1) : items[m] = i THEN passed[i] + 1
                        ELSE IF i = items[n] THEN 0 ELSE passed[i]]
        /\ ahead' = [ahead EXCEPT ![items[n]] = 0]
        /\ UNCHANGED active
  BY DEF Claim
<1>0. UNCHANGED Effective BY <1>1 DEF Effective
<1> DEFINE none == Effective = NoSession
<1> DEFINE turn == BackgroundTurn(items, Effective, preferredRun)
<1>2. QueueOK' BY <1>1, RemoveAtProperties DEF Inv, QueueOK
<1>3. /\ n \in Nat /\ n >= 1 /\ Len(items) \in Nat /\ DOMAIN items = 1..Len(items)
      /\ DOMAIN items' = 1..(Len(items) - 1)
      /\ \A q \in DOMAIN items' : items'[q] = IF q < n THEN items[q] ELSE items[q + 1]
  <2>1. /\ items' \in Seq(Items) /\ Len(items') = Len(items) - 1
        /\ \A q \in 1..(Len(items) - 1) :
             items'[q] = IF q < n THEN items[q] ELSE items[q + 1]
    BY <1>1, RemoveAtIndexes DEF Inv, QueueOK
  <2>2. DOMAIN items' = 1..(Len(items) - 1) BY <2>1, LenProperties
  <2> QED BY <2>1, <2>2, Positions DEF Inv
<1>4. preferredRun' = IF none \/ turn THEN 0
                      ELSE IF preferredRun < ActiveSessionBurst THEN preferredRun + 1
                      ELSE preferredRun
  <2>1. items # <<>> BY <1>3
  <2> QED BY <1>1, <2>1 DEF RunAfter
<1>10. none => n = 1 BY <1>1 DEF NextInLine
<1> HIDE DEF none, turn
<1>5. preferredRun \in Nat /\ preferredRun <= ActiveSessionBurst BY DEF Inv, Counts
<1>6. Counts'
  <2>1. /\ preferredRun' \in 0..ActiveSessionBurst
        /\ active' \in [explicit : Tags \cup {NoSession}, recent : Tags \cup {NoSession}]
    BY <1>1, <1>4, <1>5, Times DEF Inv, Counts
  <2>2. ahead' \in [Items -> Nat] BY <1>1 DEF Inv, Counts
  <2>3. passed' \in [Items -> Nat]
    <3>1. \A i \in Items : passed[i] \in Nat /\ passed[i] + 1 \in Nat
      BY DEF Inv, Counts
    <3> QED BY <1>1, <3>1
  <2> QED BY <2>1, <2>2, <2>3 DEF Counts
<1>7. ASSUME ~none
      PROVE  /\ Preferred(items[n], Effective) <=> ~turn
             /\ \A m \in 1..(n - 1) : Preferred(items[m], Effective) <=> turn
             /\ turn => preferredRun = ActiveSessionBurst
                        \/ \A m \in DOMAIN items : ~Preferred(items[m], Effective)
             /\ ~turn => preferredRun < ActiveSessionBurst
                         \/ \A m \in DOMAIN items : Preferred(items[m], Effective)
  BY <1>1, <1>7, FirstOfItsKind DEF Inv, none, turn
<1>8. ASSUME NEW q \in DOMAIN items' PROVE CreditAt(q)'
  <2> DEFINE p == IF q < n THEN q ELSE q + 1
             i == items[p]
  <2>1. /\ p \in DOMAIN items /\ p # n /\ items'[q] = i /\ i \in Items
        /\ q \in Nat /\ q >= 1 /\ p - 1 \in Nat /\ q = IF p < n THEN p ELSE p - 1
    BY <1>3, Positions DEF Inv
  <2>2. CreditAt(p) BY <2>1 DEF Inv, Credit
  <2> HIDE DEF p
  <2>3. /\ i # items[n]
        /\ (\E m \in 1..(n - 1) : items[m] = i) <=> p < n
    <3>1. \A m \in DOMAIN items : items[m] = i => m = p
      BY <2>1 DEF Inv, QueueOK, Distinct
    <3>2. \A m \in 1..(n - 1) : m \in DOMAIN items /\ m < n BY <1>3
    <3>3. items[p] = i /\ (p < n => p \in 1..(n - 1)) BY <1>3, <2>1
    <3> HIDE DEF i
    <3> QED BY <2>1, <3>1, <3>2, <3>3
  <2>4. /\ ahead'[i] = ahead[i] /\ ahead[i] \in Nat /\ passed[i] \in Nat
        /\ passed'[i] = IF p < n THEN passed[i] + 1 ELSE passed[i]
    BY <1>1, <2>1, <2>3 DEF Inv, Counts
  <2>5. p < n => ~none /\ (Preferred(i, Effective) <=> turn) BY <1>3, <1>7, <1>10, <2>1
  <2> HIDE DEF i
  <2>6. CASE Preferred(i, Effective)
    <3>1. passed[i] + (p - 1)
            <= ahead[i] + (IF preferredRun = ActiveSessionBurst THEN 0 ELSE 1)
      BY <2>2, <2>6 DEF CreditAt, i
    <3>2. turn /\ ~none => preferredRun = ActiveSessionBurst BY <1>7, <2>1, <2>6 DEF i
    <3>3. passed'[i] + (q - 1)
            <= ahead[i] + (IF preferredRun' = ActiveSessionBurst THEN 0 ELSE 1)
      <4>1. CASE turn /\ ~none
        BY <1>4, <2>1, <2>4, <3>1, <3>2, <4>1, Times
      <4>2. CASE ~turn \/ none
        <5>1. ~(p < n) BY <2>5, <2>6, <4>2
        <5>2. q = p - 1 /\ passed'[i] = passed[i] BY <2>1, <2>4, <5>1
        <5> QED BY <2>1, <2>4, <3>1, <5>2, <4>2, <1>4, <1>5, Times
      <4> QED BY <4>1, <4>2
    <3> QED BY <1>0, <1>1, <2>1, <2>4, <2>6, <3>3 DEF CreditAt
  <2>7. CASE ~Preferred(i, Effective)
    <3> DEFINE B == ActiveSessionBurst
    <3>1. passed[i] + B * (p - 1) <= B * ahead[i] + preferredRun
      BY <2>2, <2>7 DEF CreditAt, i
    <3>2. ~turn /\ ~none => preferredRun' = preferredRun + 1
      BY <1>4, <1>7, <2>1, <2>7 DEF i
    <3>3. B \in Nat /\ B * (p - 1) \in Nat /\ B * ahead[i] \in Nat
      BY <2>1, <2>4, Times
    <3>4. CASE p < n
      <4>1. ~turn /\ ~none /\ q = p /\ passed'[i] = passed[i] + 1
        BY <2>1, <2>4, <2>5, <2>7, <3>4
      <4>2. passed'[i] + B * (q - 1) <= B * ahead[i] + preferredRun'
        BY <1>5, <2>4, <3>1, <3>2, <3>3, <4>1
      <4> QED BY <1>0, <1>1, <2>1, <2>4, <2>7, <4>2 DEF CreditAt
    <3>5. CASE ~(p < n)
      <4>1. q = p - 1 /\ passed'[i] = passed[i] /\ q - 1 \in Nat BY <2>1, <2>4, <3>5
      <4>2. B * (p - 1) = B * (q - 1) + B /\ B * (q - 1) \in Nat
        BY <4>1, <2>1, Times
      <4>3. preferredRun' + B >= preferredRun /\ preferredRun' \in Nat
        BY <1>4, <1>5, <3>3
      <4>4. passed'[i] + B * (q - 1) <= B * ahead[i] + preferredRun'
        BY <1>5, <2>4, <3>1, <3>3, <4>1, <4>2, <4>3
      <4> QED BY <1>0, <1>1, <2>1, <2>4, <2>7, <4>4 DEF CreditAt
    <3> QED BY <3>4, <3>5
  <2> QED BY <2>6, <2>7
<1>9. Credit' BY <1>8 DEF Credit
<1> QED BY <1>2, <1>6, <1>9 DEF Inv

LEMMA InvHolds == Spec => []Inv
<1>1. Init => Inv
  <2> SUFFICES ASSUME Init PROVE Inv OBVIOUS
  <2>1. QueueOK BY DEF Init, QueueOK, Distinct
  <2>2. Counts BY DEF Init, Counts
  <2>3. Credit BY DEF Init, Credit
  <2> QED BY <2>1, <2>2, <2>3 DEF Inv
<1>2. Inv /\ [Next]_vars => Inv'
  <2> SUFFICES ASSUME Inv, [Next]_vars PROVE Inv' OBVIOUS
  <2>1. CASE UNCHANGED vars
    BY <2>1 DEF vars, Inv, QueueOK, Counts, Credit, CreditAt, Effective
  <2> QED BY <2>1, EnqueueKeeps, ClaimKeeps, MarkKeeps DEF Next
<1> QED BY <1>1, <1>2, PTL DEF Spec

-----------------------------------------------------------------------------

\* Nobody starves while the active terminal stays the same: an item is passed over
\* at most a burst of times for each item ahead of it, and once more, whatever
\* the other terminals produce (select_pos, ACTIVE_SESSION_BURST).
THEOREM OvertakingIsBounded == Spec => []BoundedOvertaking
<1>1. Inv => BoundedOvertaking
  <2> SUFFICES ASSUME Inv, NEW p \in DOMAIN items
               PROVE  passed[items[p]] <= ActiveSessionBurst * (ahead[items[p]] + 1)
    BY DEF BoundedOvertaking, Queued
  <2> DEFINE i == items[p]
  <2>1. p - 1 \in Nat /\ passed[i] \in Nat /\ ahead[i] \in Nat
        /\ preferredRun \in Nat /\ preferredRun <= ActiveSessionBurst
    BY Positions DEF Inv, Counts
  <2>2. CreditAt(p) BY DEF Inv, Credit
  <2> HIDE DEF i
  <2>3. ActiveSessionBurst * (ahead[i] + 1) >= ahead[i] + 1
        /\ ActiveSessionBurst * (ahead[i] + 1)
             = ActiveSessionBurst * ahead[i] + ActiveSessionBurst
        /\ ActiveSessionBurst * (p - 1) \in Nat
        /\ ActiveSessionBurst * ahead[i] \in Nat /\ ActiveSessionBurst \in Nat
    BY <2>1, Times
  <2>4. \/ passed[i] + (p - 1) <= ahead[i] + 1
        \/ passed[i] + ActiveSessionBurst * (p - 1)
             <= ActiveSessionBurst * ahead[i] + preferredRun
    BY <2>1, <2>2 DEF CreditAt, i
  <2> QED BY <2>1, <2>3, <2>4 DEF i
<1> QED BY <1>1, InvHolds, PTL

\* What a terminal said first is heard first, across bursts, background turns
\* and marks: preference tells sessions apart, not the items of one (select_pos).
THEOREM SessionsAreFifo == Spec => FifoWithinSession
<1> DEFINE InOrder ==
      \A m, n \in DOMAIN items :
        m < n /\ SessionOf[items[m]] = SessionOf[items[n]]
          /\ items[n] \notin Queued(items') => items[m] \notin Queued(items')
<1>1. ASSUME Inv, [Next]_vars PROVE InOrder
  <2> SUFFICES ASSUME NEW m \in DOMAIN items, NEW k \in DOMAIN items, m < k,
                      SessionOf[items[m]] = SessionOf[items[k]],
                      items[k] \notin Queued(items')
               PROVE  FALSE
    OBVIOUS
  <2>1. items[k] \in Queued(items) BY DEF Queued
  <2>2. CASE UNCHANGED items BY <2>1, <2>2
  <2>3. ASSUME NEW i \in Items, Enqueue(i) PROVE FALSE
    BY <1>1, <2>1, <2>3, QueuedAppend DEF Enqueue, Inv, QueueOK
  <2>4. CASE Claim
    <3>1. PICK n \in DOMAIN items : NextInLine(items, Effective, preferredRun, n)
                                    /\ items' = RemoveAt(items, n)
      BY <2>4 DEF Claim
    <3>2. Queued(items') = Queued(items) \ {items[n]}
      BY <1>1, <3>1, RemoveAtProperties DEF Inv, QueueOK
    <3>3. k = n BY <1>1, <2>1, <3>2 DEF Inv, QueueOK, Distinct
    <3>4. m \in 1..(n - 1) BY <1>1, <3>3, Positions DEF Inv
    <3>5. Preferred(items[m], Effective) <=> Preferred(items[n], Effective)
      BY <3>3 DEF Preferred
    <3>6. Effective # NoSession BY <3>1, <3>4 DEF NextInLine
    <3> QED BY <1>1, <3>1, <3>4, <3>5, <3>6, FirstOfItsKind DEF Inv
  <2> QED BY <1>1, <2>2, <2>3, <2>4 DEF Next, MarkActive, vars
<1> QED BY <1>1, InvHolds, PTL DEF Spec, FifoWithinSession
=============================================================================
