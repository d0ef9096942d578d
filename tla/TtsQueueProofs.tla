--------------------------- MODULE TtsQueueProofs ---------------------------
(***************************************************************************)
(* Theorems about TtsQueue, for any items, sessions, threads and bounds.   *)
(***************************************************************************)
EXTENDS TtsQueue, QueueOrderProofs

\* The worker holds an item exactly from its claim to its requeue or end.
HandOK == wpc \in HandPcs <=> wItem # NoItem

-----------------------------------------------------------------------------
(* What the helpers of TtsQueue return.                                    *)

LEMMA EndedType ==
  ASSUME fates \in [Speech -> Seq(Outcomes)], NEW handles, NEW outcome \in Outcomes
  PROVE  Ended(handles, outcome) \in [Speech -> Seq(Outcomes)]
<1>1. \A u \in Speech : /\ fates[u] \in Seq(Outcomes)
                        /\ Append(fates[u], outcome) \in Seq(Outcomes)
  BY AppendProperties
<1> QED BY <1>1 DEF Ended

LEMMA WithKindType ==
  ASSUME NEW kinds, DOMAIN kinds \subseteq Nat,
         \A g \in DOMAIN kinds : kinds[g] \in BOOLEAN,
         NEW gen \in Nat, NEW requeue \in BOOLEAN
  PROVE  /\ DOMAIN WithKind(kinds, gen, requeue) \subseteq Nat
         /\ \A g \in DOMAIN WithKind(kinds, gen, requeue) :
              WithKind(kinds, gen, requeue)[g] \in BOOLEAN
<1> DEFINE all == [g \in DOMAIN kinds \cup {gen} |->
                     IF g = gen THEN requeue ELSE kinds[g]]
           kept == IF Cardinality(DOMAIN all) <= CancelKindCap THEN DOMAIN all
                   ELSE {g \in DOMAIN all : \E h \in DOMAIN all : h < g}
<1>1. /\ DOMAIN all \subseteq Nat
      /\ \A g \in DOMAIN all : all[g] \in BOOLEAN
  OBVIOUS
<1> HIDE DEF all
<1>2. kept \subseteq DOMAIN all
  OBVIOUS
<1> HIDE DEF kept
<1>3. WithKind(kinds, gen, requeue) = [g \in kept |-> all[g]]
  BY DEF WithKind, kept, all
<1> QED BY <1>1, <1>2, <1>3

LEMMA Without1Type ==
  ASSUME NEW kinds, DOMAIN kinds \subseteq Nat,
         \A g \in DOMAIN kinds : kinds[g] \in BOOLEAN, NEW gen
  PROVE  /\ DOMAIN Without1(kinds, gen) \subseteq Nat
         /\ \A g \in DOMAIN Without1(kinds, gen) :
              Without1(kinds, gen)[g] \in BOOLEAN
BY DEF Without1

LEMMA RunAfterType ==
  ASSUME NEW q, NEW a, NEW run \in 0..ActiveSessionBurst
  PROVE  RunAfter(q, a, run) \in 0..ActiveSessionBurst
BY QueueOrderAssumption DEF QueueOrderAssumption, RunAfter

-----------------------------------------------------------------------------
(* Types.                                                                  *)

LEMMA TypeInit == Init => TypeOK /\ HandOK
<1> SUFFICES ASSUME Init PROVE TypeOK /\ HandOK
  OBVIOUS
<1>1. QueueTypes
  BY QueueOrderAssumption DEF Init, QueueTypes
<1>2. CancelTypes
  BY DEF Init, CancelTypes
<1>3. StatusTypes
  <2>1. fates \in [Speech -> Seq(Outcomes)]
    BY DEF Init
  <2> QED BY <2>1 DEF Init, StatusTypes
<1>4. WorkerTypes /\ HandOK
  BY DEF Init, WorkerTypes, HandOK, HandPcs, WorkerPcs, Outcomes
<1>5. CallerTypes
  BY DEF Init, CallerTypes, CallerPcs
<1> QED
  BY <1>1, <1>2, <1>3, <1>4, <1>5 DEF TypeOK

\* A sweep's and a submit's effect on the types, whatever its scope.
LEMMA SweepType ==
  ASSUME TypeOK, HandOK, NEW c \in Callers, NEW dropped, NEW hit,
         NEW other \in Tags \cup {NoSession}, Sweep(c, dropped, hit, other)
  PROVE  TypeOK' /\ HandOK'
<1> USE DEF Sweep, TypeOK
<1>1. QueueTypes'
  <2>1. Without(items, dropped) \in Seq(Items)
    BY WithoutProperties DEF QueueTypes
  <2> QED BY <2>1 DEF QueueTypes, queueVars
<1>2. CancelTypes' /\ StatusTypes'
  BY DEF CancelTypes, StatusTypes, cancelVars, statusVars
<1>3. WorkerTypes' /\ HandOK'
  BY DEF WorkerTypes, HandOK, workerVars
<1>4. CallerTypes'
  BY DEF CallerTypes, CallerPcs, Goto
<1> QED BY <1>1, <1>2, <1>3, <1>4

LEMMA WorkerTypeStep ==
  ASSUME TypeOK, HandOK, WorkerNext
  PROVE  TypeOK' /\ HandOK'
<1> USE DEF TypeOK, QueueTypes, CancelTypes, StatusTypes, WorkerTypes, CallerTypes,
            HandOK, HandPcs, WorkerPcs, Outcomes, queueVars, cancelVars, statusVars,
            workerVars, callerVars, callersIdle
<1>1. CASE WorkerSnapshot
  BY <1>1 DEF WorkerSnapshot
<1>2. CASE WorkerCheck
  <2>1. RunAfter(items, Effective, preferredRun) \in 0..ActiveSessionBurst
    BY RunAfterType
  <2> QED BY <2>1, <1>2 DEF WorkerCheck
<1>3. CASE WorkerTake
  <2>1. RunAfter(items, Effective, preferredRun) \in 0..ActiveSessionBurst
    BY RunAfterType
  <2>2. PICK n \in DOMAIN items :
          /\ wItem' = items[n] /\ playing' = items[n]
          /\ items' = RemoveAt(items, n)
          /\ wpc' = IF items[n] \in Cues THEN "gateCue" ELSE "gate"
    BY <1>3 DEF WorkerTake
  <2>3. items[n] \in Items /\ items' \in Seq(Items)
    BY <2>2, RemoveAtProperties, ElementOfSeq
  <2>4. wItem' # NoItem /\ wpc' \in HandPcs
    BY <2>2, <2>3, TtsQueueAssumption DEF TtsQueueAssumption
  <2> QED BY <2>1, <2>2, <2>3, <2>4, <1>3 DEF WorkerTake
<1>4. CASE WorkerSleep
  BY <1>4 DEF WorkerSleep
<1>5. CASE WorkerHold
  BY <1>5 DEF WorkerHold
<1>6. CASE WorkerPassGate
  BY <1>6 DEF WorkerPassGate
<1>7. CASE WorkerResolve
  BY <1>7 DEF WorkerResolve
<1>8. CASE WorkerAwait
  BY <1>8 DEF WorkerAwait
<1>9. CASE WorkerActivate
  BY <1>9 DEF WorkerActivate
<1>10. CASE WorkerSpeak
  BY <1>10 DEF WorkerSpeak
<1>11. CASE WorkerSpoken
  BY <1>11 DEF WorkerSpoken
<1>12. CASE WorkerSpeakFails
  <2>1. CASE wRetries > 0 /\ wRetries' = wRetries - 1 /\ wpc' = "gate"
    <3>1. wRetries' \in {0, 1}
      BY <2>1
    <3>2. QueueTypes' /\ CancelTypes' /\ StatusTypes' /\ CallerTypes'
      BY <2>1, <1>12 DEF WorkerSpeakFails
    <3>3. WorkerTypes' /\ HandOK'
      BY <3>1, <2>1, <1>12 DEF WorkerSpeakFails
    <3> QED BY <3>2, <3>3
  <2>2. CASE wOutcome' = "failed" /\ wpc' = "trailer" /\ wRetries' = wRetries
    BY <2>2, <1>12 DEF WorkerSpeakFails
  <2> QED BY <2>1, <2>2, <1>12 DEF WorkerSpeakFails
<1>13. CASE WorkerCue
  <2>1. CASE Cancelled
    BY <2>1, <1>13 DEF WorkerCue
  <2>2. CASE ~Cancelled
    <3>1. QueueTypes' /\ CancelTypes' /\ StatusTypes' /\ CallerTypes'
      BY <2>2, <1>13 DEF WorkerCue
    <3>2. WorkerTypes' /\ HandOK'
      BY <2>2, <1>13 DEF WorkerCue
    <3> QED BY <3>1, <3>2
  <2> QED BY <2>1, <2>2
<1>14. CASE WorkerCueEnds
  <2>1. QueueTypes' /\ CancelTypes' /\ StatusTypes' /\ CallerTypes'
    BY <1>14 DEF WorkerCueEnds
  <2>2. WorkerTypes' /\ HandOK'
    BY <1>14 DEF WorkerCueEnds
  <2> QED BY <2>1, <2>2
<1>15. CASE WorkerTrailer
  <2>1. Ended({wItem} \cap Speech, wOutcome) \in [Speech -> Seq(Outcomes)]
    BY EndedType
  <2>2. CASE Cancelled
    <3>1. QueueTypes' /\ CancelTypes' /\ StatusTypes' /\ CallerTypes'
      BY <2>2, <1>15 DEF WorkerTrailer
    <3>2. WorkerTypes' /\ HandOK'
      BY <2>2, <1>15 DEF WorkerTrailer
    <3> QED BY <3>1, <3>2
  <2>3. CASE ~Cancelled
    <3>1. QueueTypes' /\ CancelTypes' /\ CallerTypes'
      BY <2>1, <2>3, <1>15 DEF WorkerTrailer
    <3>2. StatusTypes'
      BY <2>1, <2>3, <1>15 DEF WorkerTrailer
    <3>3. WorkerTypes' /\ HandOK'
      BY <2>1, <2>3, <1>15 DEF WorkerTrailer
    <3> QED BY <3>1, <3>2, <3>3
  <2> QED BY <2>2, <2>3
<1>16. CASE WorkerSettle
  <2>1. Ended({wItem} \cap Speech, "cancelled") \in [Speech -> Seq(Outcomes)]
    BY EndedType
  <2>2. CancelTypes'
    BY Without1Type, <1>16 DEF WorkerSettle
  <2>3. CASE Requeues
    <3>1. QueueTypes' /\ CancelTypes' /\ StatusTypes' /\ CallerTypes'
      BY <2>2, <2>3, <1>16 DEF WorkerSettle
    <3>2. WorkerTypes' /\ HandOK'
      BY <2>2, <2>3, <1>16 DEF WorkerSettle
    <3> QED BY <3>1, <3>2
  <2>4. CASE ~Requeues
    <3>1. QueueTypes' /\ CancelTypes' /\ CallerTypes'
      BY <2>1, <2>2, <2>4, <1>16 DEF WorkerSettle
    <3>2. StatusTypes'
      BY <2>1, <2>2, <2>4, <1>16 DEF WorkerSettle
    <3>3. WorkerTypes' /\ HandOK'
      BY <2>1, <2>2, <2>4, <1>16 DEF WorkerSettle
    <3> QED BY <3>1, <3>2, <3>3
  <2> QED BY <2>3, <2>4
<1>17. CASE WorkerRequeue
  BY <1>17 DEF WorkerRequeue
<1>18. CASE WorkerRelease
  BY <1>18 DEF WorkerRelease
<1> QED BY <1>1, <1>2, <1>3, <1>4, <1>5, <1>6, <1>7, <1>8, <1>9, <1>10, <1>11, <1>12, <1>13, <1>14, <1>15, <1>16, <1>17, <1>18 DEF WorkerNext

\* A notify does not touch a worker that has a claim.
LEMMA NotifiedType ==
  ASSUME wpc \in WorkerPcs
  PROVE  Notified \in WorkerPcs /\ (Notified \in HandPcs <=> wpc \in HandPcs)
BY DEF Notified, WorkerPcs, HandPcs

LEMMA CallerTypeStep ==
  ASSUME TypeOK, HandOK, NEW c \in Callers,
         \/ CallerStarts(c) \/ CallerContinues(c)
         \/ \E t \in Targets : SubmitOther(c, t)
  PROVE  TypeOK' /\ HandOK'
<1> USE DEF TypeOK, QueueTypes, CancelTypes, StatusTypes, WorkerTypes, CallerTypes,
            HandOK, HandPcs, WorkerPcs, CallerPcs, Outcomes, queueVars, cancelVars,
            statusVars, workerVars, callerVars, Goto
<1>1. ASSUME NEW cause \in {"dictation", "barge"}, Pause(c, cause)
      PROVE  TypeOK' /\ HandOK'
  BY <1>1 DEF Pause, PausedBy
<1>2. ASSUME NEW op, Resume(c, op)
      PROVE  TypeOK' /\ HandOK'
  BY <1>2 DEF Resume
<1>3. CASE Skip(c)
  BY <1>3 DEF Skip
<1>4. CASE Clear(c)
  BY <1>4 DEF Clear
<1>5. ASSUME NEW t \in Targets, ClearSession(c, t)
      PROVE  TypeOK' /\ HandOK'
  BY <1>5, SweepType DEF ClearSession
<1>6. ASSUME NEW t \in Targets, SetActive(c, t)
      PROVE  TypeOK' /\ HandOK'
  <2>1. t \in Tags \cup {NoSession}
    BY TtsQueueAssumption DEF TtsQueueAssumption
  <2>2. QueueTypes'
    BY <2>1, <1>6 DEF SetActive
  <2>3. WorkerTypes' /\ HandOK'
    BY <1>6, NotifiedType DEF SetActive
  <2> QED BY <2>2, <2>3, <1>6 DEF SetActive
<1>7. ASSUME NEW t \in Targets, NEW o \in Targets \cup {NoSession},
             SubmitCurrent(c, t, o)
      PROVE  TypeOK' /\ HandOK'
  BY <1>7, SweepType, TtsQueueAssumption DEF SubmitCurrent, TtsQueueAssumption
<1>8. CASE Bump(c)
  BY <1>8 DEF Bump, HitBy
<1>9. CASE RecordKind(c)
  <2>1. CancelTypes'
    BY <1>9, WithKindType DEF RecordKind
  <2> QED BY <2>1, <1>9 DEF RecordKind
<1>10. CASE Fade(c)
  BY <1>10 DEF Fade, Notified
<1>11. CASE ClearUnpause(c)
  <2>1. Ended(cDropped[c], "cancelled") \in [Speech -> Seq(Outcomes)]
    BY EndedType
  <2> QED BY <2>1, <1>11 DEF ClearUnpause
<1>12. CASE RecordDiscarded(c)
  <2>1. Ended(cDropped[c], "cancelled") \in [Speech -> Seq(Outcomes)]
    BY EndedType
  <2>2. WorkerTypes' /\ HandOK'
    BY <1>12, NotifiedType DEF RecordDiscarded
  <2>3. StatusTypes' /\ CallerTypes'
    BY <2>1, <1>12 DEF RecordDiscarded
  <2> QED BY <2>2, <2>3, <1>12 DEF RecordDiscarded
<1>13. CASE Wake(c)
  BY <1>13 DEF Wake, Notified
<1>14. ASSUME NEW t \in Targets, SubmitOther(c, t)
       PROVE  TypeOK' /\ HandOK'
  BY <1>14, SweepType DEF SubmitOther, SweepOthers
<1> QED
  BY <1>1, <1>2, <1>3, <1>4, <1>5, <1>6, <1>7, <1>8, <1>9, <1>10, <1>11, <1>12,
     <1>13, <1>14 DEF CallerStarts, CallerContinues

LEMMA TypeStep == TypeOK /\ HandOK /\ [Next]_vars => TypeOK' /\ HandOK'
<1> SUFFICES ASSUME TypeOK, HandOK, [Next]_vars PROVE TypeOK' /\ HandOK'
  OBVIOUS
<1> USE DEF TypeOK, QueueTypes, CancelTypes, StatusTypes, WorkerTypes, CallerTypes,
            HandOK, HandPcs, WorkerPcs, queueVars, cancelVars, statusVars,
            workerVars, callerVars
<1>1. CASE UNCHANGED vars
  BY <1>1 DEF vars
<1>2. ASSUME NEW i \in Items, Enqueue(i)
      PROVE  TypeOK' /\ HandOK'
  <2>1. SessionOf[i] \in Tags \cup {NoSession}
    BY QueueOrderAssumption DEF QueueOrderAssumption
  <2>2. Append(items, i) \in Seq(Items)
    BY AppendProperties
  <2>3. WorkerTypes' /\ HandOK'
    BY <1>2, NotifiedType DEF Enqueue
  <2> QED BY <2>1, <2>2, <2>3, <1>2 DEF Enqueue
<1>3. ASSUME NEW gate \in Gates, ToggleHold(gate)
      PROVE  TypeOK' /\ HandOK'
  BY <1>3 DEF ToggleHold
<1> QED
  BY <1>1, <1>2, <1>3, WorkerTypeStep, CallerTypeStep DEF Next, Environment

\* Every variable of the queue, its worker and its callers keeps its type, and
\* the worker holds an item exactly while it has a claim to settle (ttsq.rs,
\* run and play_speech).
THEOREM TypeCorrect == Spec => [](TypeOK /\ HandOK)
BY TypeInit, TypeStep, PTL DEF Spec

-----------------------------------------------------------------------------
(* A pause and the claim it must reach.                                    *)

\* What PauseCoversClaim needs to be inductive: the claim's generation is never
\* ahead, and the claim is covered from the pause check on, not only once the
\* item is in the worker's hand.
PauseSeen ==
  /\ wGen <= generation
  /\ paused # "no" /\ wpc \in HandPcs \cup {"take"}
       => Cancelled \/ \E c \in Callers : Pausing(c)

\* The worker takes an item only when it saw the queue not paused, after it
\* had read the generation.
LEMMA WorkerPauseStep ==
  ASSUME TypeOK, PauseSeen, WorkerNext
  PROVE  PauseSeen'
<1> generation \in Nat /\ wGen \in Nat
  BY DEF TypeOK, CancelTypes, WorkerTypes
<1> USE DEF PauseSeen, HandPcs, Pausing, Cancelled, queueVars, cancelVars,
            statusVars, workerVars, callerVars, callersIdle
<1>1. CASE WorkerSnapshot
  BY <1>1 DEF WorkerSnapshot
<1>2. CASE WorkerCheck
  BY <1>2 DEF WorkerCheck
<1>3. CASE WorkerTake
  BY <1>3 DEF WorkerTake
<1>4. CASE WorkerSleep
  BY <1>4 DEF WorkerSleep
<1>5. CASE WorkerHold
  BY <1>5 DEF WorkerHold
<1>6. CASE WorkerPassGate
  BY <1>6 DEF WorkerPassGate
<1>7. CASE WorkerResolve
  BY <1>7 DEF WorkerResolve
<1>8. CASE WorkerAwait
  BY <1>8 DEF WorkerAwait
<1>9. CASE WorkerActivate
  BY <1>9 DEF WorkerActivate
<1>10. CASE WorkerSpeak
  BY <1>10 DEF WorkerSpeak
<1>11. CASE WorkerSpoken
  BY <1>11 DEF WorkerSpoken
<1>12. CASE WorkerSpeakFails
  BY <1>12 DEF WorkerSpeakFails
<1>13. CASE WorkerCue
  BY <1>13 DEF WorkerCue
<1>14. CASE WorkerCueEnds
  BY <1>14 DEF WorkerCueEnds
<1>15. CASE WorkerTrailer
  BY <1>15 DEF WorkerTrailer
<1>16. CASE WorkerSettle
  BY <1>16 DEF WorkerSettle
<1>17. CASE WorkerRequeue
  BY <1>17 DEF WorkerRequeue
<1>18. CASE WorkerRelease
  BY <1>18 DEF WorkerRelease
<1> QED BY <1>1, <1>2, <1>3, <1>4, <1>5, <1>6, <1>7, <1>8, <1>9, <1>10, <1>11, <1>12, <1>13, <1>14, <1>15, <1>16, <1>17, <1>18 DEF WorkerNext

\* A thread that pauses is Pausing until it has advanced the generation; no
\* other thread's step makes that unnoticed.
LEMMA CallerPauseStep ==
  ASSUME TypeOK, PauseSeen, NEW c \in Callers,
         \/ CallerStarts(c) \/ CallerContinues(c)
         \/ \E t \in Targets : SubmitOther(c, t)
  PROVE  PauseSeen'
<1>0. /\ generation \in Nat /\ wGen \in Nat
      /\ cpc \in [Callers -> CallerPcs] /\ cRequeue \in [Callers -> BOOLEAN]
  BY DEF TypeOK, CancelTypes, WorkerTypes, CallerTypes
<1>a. ASSUME ~Pausing(c), cpc'[c] # "bump" \/ ~cRequeue'[c],
             UNCHANGED <<generation, wGen>>, paused' \in {paused, "no"},
             \A d \in Callers \ {c} : cpc'[d] = cpc[d] /\ cRequeue'[d] = cRequeue[d],
             wpc' \in {wpc, Notified}
      PROVE  PauseSeen'
  <2>1. wpc' \in HandPcs \cup {"take"} => wpc \in HandPcs \cup {"take"}
    BY <1>a DEF Notified, HandPcs
  <2>2. \A d \in Callers : Pausing(d)' <=> Pausing(d)
    BY <1>a DEF Pausing
  <2> QED BY <1>a, <2>1, <2>2 DEF PauseSeen, Cancelled
<1>b. ASSUME NEW dropped, NEW hit, NEW other, Sweep(c, dropped, hit, other),
             cpc[c] # "bump"
      PROVE  PauseSeen'
  BY <1>0, <1>a, <1>b DEF Sweep, Goto, Pausing, cancelVars, workerVars
<1>1. ASSUME NEW cause \in {"dictation", "barge"}, Pause(c, cause)
      PROVE  PauseSeen'
  <2>1. Pausing(c)'
    BY <1>0, <1>1 DEF Pause, Pausing, Goto
  <2> QED BY <2>1, <1>1 DEF Pause, PauseSeen, workerVars
<1>2. ASSUME NEW op, Resume(c, op)
      PROVE  PauseSeen'
  BY <1>2 DEF Resume, PauseSeen, workerVars
<1>3. CASE Skip(c)
  BY <1>0, <1>a, <1>3 DEF Skip, CanStart, Goto, Pausing, cancelVars, workerVars
<1>4. CASE Clear(c)
  BY <1>0, <1>a, <1>4 DEF Clear, CanStart, Goto, Pausing, cancelVars, workerVars
<1>5. ASSUME NEW t \in Targets, ClearSession(c, t)
      PROVE  PauseSeen'
  BY <1>5, <1>b DEF ClearSession, CanStart
<1>6. ASSUME NEW t \in Targets, SetActive(c, t)
      PROVE  PauseSeen'
  BY <1>0, <1>a, <1>6 DEF SetActive, Pausing, cancelVars, callerVars
<1>7. ASSUME NEW t \in Targets, NEW o \in Targets \cup {NoSession},
             SubmitCurrent(c, t, o)
      PROVE  PauseSeen'
  BY <1>7, <1>b DEF SubmitCurrent, CanStart
<1>8. CASE Bump(c)
  BY <1>0, <1>8 DEF Bump, PauseSeen, Cancelled, workerVars
<1>9. CASE RecordKind(c)
  BY <1>0, <1>a, <1>9 DEF RecordKind, Goto, Pausing, workerVars
<1>10. CASE Fade(c)
  BY <1>0, <1>a, <1>10 DEF Fade, Goto, Pausing, cancelVars
<1>11. CASE ClearUnpause(c)
  BY <1>0, <1>11 DEF ClearUnpause, PauseSeen, workerVars
<1>12. CASE RecordDiscarded(c)
  BY <1>0, <1>a, <1>12 DEF RecordDiscarded, Goto, Pausing, cancelVars
<1>13. CASE Wake(c)
  BY <1>0, <1>a, <1>13 DEF Wake, Goto, Pausing, cancelVars
<1>14. ASSUME NEW t \in Targets, SubmitOther(c, t)
       PROVE  PauseSeen'
  BY <1>14, <1>b DEF SubmitOther, SweepOthers, CanStart
<1> QED
  BY <1>1, <1>2, <1>3, <1>4, <1>5, <1>6, <1>7, <1>8, <1>9, <1>10, <1>11, <1>12,
     <1>13, <1>14 DEF CallerStarts, CallerContinues

LEMMA PauseStep == TypeOK /\ PauseSeen /\ [Next]_vars => PauseSeen'
<1> SUFFICES ASSUME TypeOK, PauseSeen, [Next]_vars PROVE PauseSeen'
  OBVIOUS
<1> USE DEF PauseSeen, Pausing, Cancelled, cancelVars, workerVars, callerVars
<1>1. CASE UNCHANGED vars
  BY <1>1 DEF vars
<1>2. ASSUME NEW i \in Items, Enqueue(i)
      PROVE  PauseSeen'
  BY <1>2 DEF Enqueue, Notified, HandPcs
<1>3. ASSUME NEW gate \in Gates, ToggleHold(gate)
      PROVE  PauseSeen'
  BY <1>3 DEF ToggleHold
<1> QED
  BY <1>1, <1>2, <1>3, WorkerPauseStep, CallerPauseStep DEF Next, Environment

\* Once a pause is complete, any claim still in the worker's hand is older than
\* it and will come back: no interleaving of the worker's loop with any number
\* of pausing, resuming and clearing threads plays an item through the pause
\* (ttsq.rs: run reads the generation before `paused`).
THEOREM PauseCovers == Spec => []PauseCoversClaim
<1>1. Init => PauseSeen
  BY DEF Init, PauseSeen, HandPcs
<1>2. PauseSeen => PauseCoversClaim
  BY DEF PauseSeen, PauseCoversClaim
<1> QED
  BY <1>1, <1>2, PauseStep, TypeCorrect, PTL DEF Spec

-----------------------------------------------------------------------------
(* Who holds the items lock, and which thread still has items to record.   *)

LockOK ==
  /\ lock = Worker <=> wpc \in {"check", "take", "park"}
  /\ \A c \in Callers : lock = c => cpc[c] \in {"bump", "kind", "fade"}

\* A thread with discarded items has not recorded them yet: it is on its way
\* there, with the lock in hand while it still cancels the claimed item.
DropOK ==
  \A c \in Callers : cDropped[c] # {} =>
    \/ cpc[c] \in {"unpause", "record"}
    \/ cpc[c] \in {"bump", "kind", "fade"} /\ lock = c

LEMMA WorkerLockStep ==
  ASSUME TypeOK, LockOK, DropOK, WorkerNext
  PROVE  LockOK' /\ DropOK'
<1>0. Worker \notin Callers /\ Free \notin Callers /\ Free # Worker
  BY TtsQueueAssumption DEF TtsQueueAssumption
<1> USE DEF LockOK, DropOK, queueVars, cancelVars, statusVars, workerVars,
            callerVars, callersIdle
<1>1. CASE WorkerSnapshot
  BY <1>0, <1>1 DEF WorkerSnapshot
<1>2. CASE WorkerCheck
  BY <1>0, <1>2 DEF WorkerCheck
<1>3. CASE WorkerTake
  BY <1>0, <1>3 DEF WorkerTake
<1>4. CASE WorkerSleep
  BY <1>0, <1>4 DEF WorkerSleep
<1>5. CASE WorkerHold
  BY <1>0, <1>5 DEF WorkerHold
<1>6. CASE WorkerPassGate
  BY <1>0, <1>6 DEF WorkerPassGate
<1>7. CASE WorkerResolve
  BY <1>0, <1>7 DEF WorkerResolve
<1>8. CASE WorkerAwait
  BY <1>0, <1>8 DEF WorkerAwait
<1>9. CASE WorkerActivate
  BY <1>0, <1>9 DEF WorkerActivate
<1>10. CASE WorkerSpeak
  BY <1>0, <1>10 DEF WorkerSpeak
<1>11. CASE WorkerSpoken
  BY <1>0, <1>11 DEF WorkerSpoken
<1>12. CASE WorkerSpeakFails
  BY <1>0, <1>12 DEF WorkerSpeakFails
<1>13. CASE WorkerCue
  BY <1>0, <1>13 DEF WorkerCue
<1>14. CASE WorkerCueEnds
  BY <1>0, <1>14 DEF WorkerCueEnds
<1>15. CASE WorkerTrailer
  BY <1>0, <1>15 DEF WorkerTrailer
<1>16. CASE WorkerSettle
  BY <1>0, <1>16 DEF WorkerSettle
<1>17. CASE WorkerRequeue
  BY <1>0, <1>17 DEF WorkerRequeue
<1>18. CASE WorkerRelease
  BY <1>0, <1>18 DEF WorkerRelease
<1> QED BY <1>1, <1>2, <1>3, <1>4, <1>5, <1>6, <1>7, <1>8, <1>9, <1>10, <1>11, <1>12, <1>13, <1>14, <1>15, <1>16, <1>17, <1>18 DEF WorkerNext

LEMMA CallerLockStep ==
  ASSUME TypeOK, LockOK, DropOK, NEW c \in Callers,
         \/ CallerStarts(c) \/ CallerContinues(c)
         \/ \E t \in Targets : SubmitOther(c, t)
  PROVE  LockOK' /\ DropOK'
<1>0. Worker \notin Callers /\ Free \notin Callers /\ Free # Worker
  BY TtsQueueAssumption DEF TtsQueueAssumption
<1>a. cpc \in [Callers -> CallerPcs] /\ cDropped \in [Callers -> SUBSET Speech]
  BY DEF TypeOK, CallerTypes
<1>b. ASSUME NEW dropped, NEW hit, NEW other, Sweep(c, dropped, hit, other)
      PROVE  LockOK' /\ DropOK'
  BY <1>0, <1>a, <1>b DEF Sweep, Goto, LockOK, DropOK, workerVars
<1> USE DEF LockOK, DropOK, Goto, queueVars, workerVars, callerVars
<1>1. ASSUME NEW cause \in {"dictation", "barge"}, Pause(c, cause)
      PROVE  LockOK' /\ DropOK'
  BY <1>0, <1>a, <1>1 DEF Pause, CanStart
<1>2. ASSUME NEW op, Resume(c, op)
      PROVE  LockOK' /\ DropOK'
  BY <1>0, <1>a, <1>2 DEF Resume
<1>3. CASE Skip(c)
  BY <1>0, <1>a, <1>3 DEF Skip, CanStart
<1>4. CASE Clear(c)
  BY <1>0, <1>a, <1>4 DEF Clear, CanStart
<1>5. ASSUME NEW t \in Targets, ClearSession(c, t)
      PROVE  LockOK' /\ DropOK'
  BY <1>5, <1>b DEF ClearSession
<1>6. ASSUME NEW t \in Targets, SetActive(c, t)
      PROVE  LockOK' /\ DropOK'
  BY <1>0, <1>a, <1>6 DEF SetActive, Notified
<1>7. ASSUME NEW t \in Targets, NEW o \in Targets \cup {NoSession},
             SubmitCurrent(c, t, o)
      PROVE  LockOK' /\ DropOK'
  BY <1>7, <1>b DEF SubmitCurrent
<1>8. CASE Bump(c)
  BY <1>0, <1>a, <1>8 DEF Bump
<1>9. CASE RecordKind(c)
  BY <1>0, <1>a, <1>9 DEF RecordKind
<1>10. CASE Fade(c)
  BY <1>0, <1>a, <1>10 DEF Fade, Notified
<1>11. CASE ClearUnpause(c)
  BY <1>0, <1>a, <1>11 DEF ClearUnpause
<1>12. CASE RecordDiscarded(c)
  BY <1>0, <1>a, <1>12 DEF RecordDiscarded, Notified
<1>13. CASE Wake(c)
  BY <1>0, <1>a, <1>13 DEF Wake, Notified
<1>14. ASSUME NEW t \in Targets, SubmitOther(c, t)
       PROVE  LockOK' /\ DropOK'
  BY <1>14, <1>b DEF SubmitOther, SweepOthers
<1> QED
  BY <1>1, <1>2, <1>3, <1>4, <1>5, <1>6, <1>7, <1>8, <1>9, <1>10, <1>11, <1>12,
     <1>13, <1>14 DEF CallerStarts, CallerContinues

LEMMA LockStep == TypeOK /\ LockOK /\ DropOK /\ [Next]_vars => LockOK' /\ DropOK'
<1> SUFFICES ASSUME TypeOK, LockOK, DropOK, [Next]_vars PROVE LockOK' /\ DropOK'
  OBVIOUS
<1> USE DEF LockOK, DropOK, queueVars, workerVars, callerVars
<1>1. CASE UNCHANGED vars
  BY <1>1 DEF vars
<1>2. ASSUME NEW i \in Items, Enqueue(i)
      PROVE  LockOK' /\ DropOK'
  BY <1>2 DEF Enqueue, Notified
<1>3. ASSUME NEW gate \in Gates, ToggleHold(gate)
      PROVE  LockOK' /\ DropOK'
  BY <1>3 DEF ToggleHold
<1> QED
  BY <1>1, <1>2, <1>3, WorkerLockStep, CallerLockStep DEF Next, Environment

-----------------------------------------------------------------------------
(* Every item is in one place.                                             *)

placeVars == <<items, wItem, fates, cDropped, admitted>>

\* An admitted item waits, is in the worker's hand, is being discarded, or has
\* ended: no two of them, and an utterance no less than one.
Apart ==
  /\ Distinct(items)
  /\ Queued(items) \subseteq admitted
  /\ wItem # NoItem => wItem \in admitted \ Queued(items)
  /\ \A c \in Callers : /\ cDropped[c] \subseteq admitted \ Queued(items)
                         /\ wItem \notin cDropped[c]
  /\ \A c, d \in Callers : c # d => cDropped[c] \cap cDropped[d] = {}
  /\ \A u \in Speech : HasEnded(u) => /\ u \in admitted \ Queued(items)
                                       /\ u # wItem /\ ~BeingDropped(u)

Somewhere ==
  \A u \in Speech \cap admitted :
    InQueue(u) \/ InHand(u) \/ BeingDropped(u) \/ HasEnded(u)

OneRecord == \A u \in Speech : fates[u] = <<>> \/ Len(fates[u]) = 1

Places == Apart /\ Somewhere /\ OneRecord

LEMMA PlacesFrame == Places /\ UNCHANGED placeVars => Places'
BY DEF Places, Apart, Somewhere, OneRecord, placeVars, HasEnded, BeingDropped,
       InQueue, InHand

\* Ending utterances none of which had ended: they have one record then.
LEMMA EndedPlaces ==
  ASSUME OneRecord, fates \in [Speech -> Seq(Outcomes)],
         NEW handles \in SUBSET Speech, \A u \in handles : ~HasEnded(u),
         NEW outcome \in Outcomes, fates' = Ended(handles, outcome)
  PROVE  /\ OneRecord'
         /\ \A u \in Speech : HasEnded(u)' <=> HasEnded(u) \/ u \in handles
<1>1. \A u \in Speech : fates'[u] = IF u \in handles THEN Append(fates[u], outcome)
                                                    ELSE fates[u]
  BY DEF Ended
<1>2. \A u \in handles : /\ fates[u] = <<>>
                         /\ Len(Append(fates[u], outcome)) = 1
                         /\ Append(fates[u], outcome) # <<>>
  <2> SUFFICES ASSUME NEW u \in handles
               PROVE  /\ fates[u] = <<>>
                      /\ Len(Append(fates[u], outcome)) = 1
                      /\ Append(fates[u], outcome) # <<>>
    OBVIOUS
  <2>1. fates[u] = <<>>
    BY DEF HasEnded
  <2> QED BY <2>1, AppendProperties
<1>3. OneRecord'
  BY <1>1, <1>2 DEF OneRecord
<1>4. \A u \in Speech : HasEnded(u)' <=> HasEnded(u) \/ u \in handles
  BY <1>1, <1>2 DEF HasEnded
<1> QED BY <1>3, <1>4

\* A sweep moves waiting utterances to the thread that will record them.
LEMMA SweepPlaces ==
  ASSUME TypeOK, DropOK, Places, NEW c \in Callers, cpc[c] \in {"idle", "other"},
         NEW dropped, NEW hit, NEW other, Sweep(c, dropped, hit, other)
  PROVE  Places'
<1>1. items \in Seq(Items) /\ cDropped \in [Callers -> SUBSET Speech]
  BY DEF TypeOK, QueueTypes, CallerTypes
<1>2. /\ items' = Without(items, dropped)
      /\ cDropped' = [cDropped EXCEPT ![c] = dropped \cap Queued(items) \cap Speech]
      /\ UNCHANGED <<wItem, fates, admitted>>
  BY DEF Sweep, workerVars, statusVars
<1>3. /\ Queued(items') = Queued(items) \ dropped
      /\ Distinct(items) => Distinct(items')
  BY <1>1, <1>2, WithoutProperties
<1>4. cDropped[c] = {}
  BY DEF DropOK
<1>5. /\ cDropped'[c] = dropped \cap Queued(items) \cap Speech
      /\ \A d \in Callers \ {c} : cDropped'[d] = cDropped[d]
  BY <1>1, <1>2
<1>6. Apart'
  <2>1. \A d \in Callers : cDropped'[d] \subseteq cDropped[d] \cup Queued(items)
    BY <1>4, <1>5
  <2>2. \A d \in Callers : /\ cDropped'[d] \subseteq admitted' \ Queued(items')
                           /\ wItem' \notin cDropped'[d]
    BY <1>1, <1>2, <1>3, <1>4, <1>5, TtsQueueAssumption
    DEF Places, Apart, TtsQueueAssumption, Items
  <2>3. \A d, e \in Callers : d # e => cDropped'[d] \cap cDropped'[e] = {}
    BY <1>4, <1>5 DEF Places, Apart
  <2>4. \A u \in Speech : HasEnded(u)' => /\ u \in admitted' \ Queued(items')
                                         /\ u # wItem' /\ ~BeingDropped(u)'
    BY <1>2, <1>3, <2>1 DEF Places, Apart, HasEnded, BeingDropped
  <2> QED BY <1>2, <1>3, <2>2, <2>3, <2>4 DEF Places, Apart
<1>7. Somewhere'
  BY <1>2, <1>3, <1>4, <1>5
  DEF Places, Somewhere, HasEnded, BeingDropped, InQueue, InHand
<1>8. OneRecord'
  BY <1>2 DEF Places, OneRecord
<1> QED BY <1>6, <1>7, <1>8 DEF Places

\* Recording what a thread discarded ends it.
LEMMA RecordPlaces ==
  ASSUME TypeOK, Places, NEW c \in Callers,
         fates' = Ended(cDropped[c], "cancelled"),
         cDropped' = [cDropped EXCEPT ![c] = {}],
         UNCHANGED <<items, wItem, admitted>>
  PROVE  Places'
<1>1. /\ fates \in [Speech -> Seq(Outcomes)] /\ "cancelled" \in Outcomes
      /\ cDropped \in [Callers -> SUBSET Speech]
  BY DEF TypeOK, StatusTypes, CallerTypes, Outcomes
<1>2. \A u \in cDropped[c] : ~HasEnded(u)
  BY <1>1 DEF Places, Apart, BeingDropped
<1>3. /\ OneRecord'
      /\ \A u \in Speech : HasEnded(u)' <=> HasEnded(u) \/ u \in cDropped[c]
  BY <1>1, <1>2, EndedPlaces DEF Places
<1>4. cDropped'[c] = {} /\ \A d \in Callers \ {c} : cDropped'[d] = cDropped[d]
  BY <1>1
<1>5. Apart'
  BY <1>1, <1>3, <1>4 DEF Places, Apart, BeingDropped
<1>6. Somewhere'
  BY <1>1, <1>3, <1>4 DEF Places, Somewhere, BeingDropped, InQueue, InHand
<1> QED BY <1>3, <1>5, <1>6 DEF Places

\* The worker ends the item in its hand.
LEMMA HandEnds ==
  ASSUME TypeOK, Places, wItem # NoItem, NEW outcome \in Outcomes,
         fates' = Ended({wItem} \cap Speech, outcome), wItem' = NoItem,
         UNCHANGED <<items, cDropped, admitted>>
  PROVE  Places'
<1>1. /\ fates \in [Speech -> Seq(Outcomes)]
      /\ NoItem \notin Items /\ NoItem \notin Speech
      /\ cDropped \in [Callers -> SUBSET Speech]
  BY TtsQueueAssumption
  DEF TtsQueueAssumption, TypeOK, StatusTypes, CallerTypes, Items
<1>2. \A u \in {wItem} \cap Speech : ~HasEnded(u)
  BY DEF Places, Apart
<1>3. /\ OneRecord'
      /\ \A u \in Speech : HasEnded(u)' <=> HasEnded(u) \/ u \in {wItem} \cap Speech
  BY <1>1, <1>2, EndedPlaces DEF Places
<1>4. Apart'
  <2>1. \A u \in Speech : HasEnded(u)' =>
          /\ u \in admitted' \ Queued(items')
          /\ u # wItem' /\ ~BeingDropped(u)'
    BY <1>1, <1>3 DEF Places, Apart, BeingDropped
  <2>2. \A c \in Callers : wItem' \notin cDropped'[c]
    BY <1>1
  <2> QED BY <2>1, <2>2 DEF Places, Apart
<1>5. Somewhere'
  BY <1>1, <1>3 DEF Places, Somewhere, BeingDropped, InQueue, InHand
<1> QED BY <1>3, <1>4, <1>5 DEF Places

\* claim_item moves one waiting item into the worker's empty hand.
LEMMA TakePlaces ==
  ASSUME TypeOK, HandOK, Places, WorkerTake
  PROVE  Places'
<1>1. PICK n \in DOMAIN items : wItem' = items[n] /\ items' = RemoveAt(items, n)
  BY DEF WorkerTake
<1>2. /\ items[n] \in Queued(items)
      /\ Queued(items') = Queued(items) \ {items[n]} /\ Distinct(items')
  BY <1>1, RemoveAtProperties DEF TypeOK, QueueTypes, Places, Apart
<1>3. wItem = NoItem /\ UNCHANGED <<fates, cDropped, admitted>>
  BY DEF WorkerTake, HandOK, HandPcs, callersIdle, callerVars
<1>4. NoItem \notin Speech
  BY TtsQueueAssumption DEF TtsQueueAssumption, Items
<1>5. Apart'
  BY <1>1, <1>2, <1>3 DEF Places, Apart, HasEnded, BeingDropped
<1>6. Somewhere'
  BY <1>1, <1>2, <1>3, <1>4
  DEF Places, Somewhere, HasEnded, BeingDropped, InQueue, InHand
<1>7. OneRecord'
  BY <1>3 DEF Places, OneRecord
<1> QED BY <1>5, <1>6, <1>7 DEF Places

\* requeue_if_resuming moves it back.
LEMMA RequeuePlaces ==
  ASSUME TypeOK, HandOK, Places, WorkerRequeue
  PROVE  Places'
<1>1. wItem \in Items /\ wItem # NoItem /\ items \in Seq(Items)
  BY DEF WorkerRequeue, TypeOK, QueueTypes, WorkerTypes, HandOK, HandPcs
<1>2. /\ items' = <<wItem>> \o items /\ wItem' = NoItem
      /\ UNCHANGED <<fates, cDropped, admitted>>
  BY DEF WorkerRequeue, statusVars, callersIdle, callerVars
<1>3. Queued(items') = Queued(items) \cup {wItem} /\ Distinct(items')
  BY <1>1, <1>2, PushFrontProperties DEF Places, Apart
<1>4. NoItem \notin Items /\ cDropped \in [Callers -> SUBSET Speech]
  BY TtsQueueAssumption DEF TtsQueueAssumption, TypeOK, CallerTypes
<1>5. Apart'
  <2>1. \A c \in Callers : wItem' \notin cDropped'[c]
    BY <1>2, <1>4 DEF Items
  <2>2. \A u \in Speech : u # wItem'
    BY <1>2, <1>4 DEF Items
  <2> QED
    BY <1>1, <1>2, <1>3, <2>1, <2>2 DEF Places, Apart, HasEnded, BeingDropped
<1>6. Somewhere'
  BY <1>1, <1>2, <1>3
  DEF Places, Somewhere, HasEnded, BeingDropped, InQueue, InHand
<1>7. OneRecord'
  BY <1>2 DEF Places, OneRecord
<1> QED BY <1>5, <1>6, <1>7 DEF Places

LEMMA WorkerPlacesStep ==
  ASSUME TypeOK, HandOK, Places, WorkerNext
  PROVE  Places'
<1> USE DEF placeVars, queueVars, cancelVars, statusVars, workerVars, callerVars,
            callersIdle
<1>1. CASE WorkerSnapshot
  BY <1>1, PlacesFrame DEF WorkerSnapshot
<1>2. CASE WorkerCheck
  BY <1>2, PlacesFrame DEF WorkerCheck
<1>3. CASE WorkerTake
  BY <1>3, TakePlaces
<1>4. CASE WorkerSleep
  BY <1>4, PlacesFrame DEF WorkerSleep
<1>5. CASE WorkerHold
  BY <1>5, PlacesFrame DEF WorkerHold
<1>6. CASE WorkerPassGate
  BY <1>6, PlacesFrame DEF WorkerPassGate
<1>7. CASE WorkerResolve
  BY <1>7, PlacesFrame DEF WorkerResolve
<1>8. CASE WorkerAwait
  BY <1>8, PlacesFrame DEF WorkerAwait
<1>9. CASE WorkerActivate
  BY <1>9, PlacesFrame DEF WorkerActivate
<1>10. CASE WorkerSpeak
  BY <1>10, PlacesFrame DEF WorkerSpeak
<1>11. CASE WorkerSpoken
  BY <1>11, PlacesFrame DEF WorkerSpoken
<1>12. CASE WorkerSpeakFails
  BY <1>12, PlacesFrame DEF WorkerSpeakFails
<1>13. CASE WorkerCue
  BY <1>13, PlacesFrame DEF WorkerCue
<1>14. CASE WorkerCueEnds
  BY <1>14, PlacesFrame DEF WorkerCueEnds
<1>15. CASE WorkerTrailer
  <2>1. CASE Cancelled
    BY <1>15, <2>1, PlacesFrame DEF WorkerTrailer
  <2>2. CASE ~Cancelled
    <3>1. wItem # NoItem /\ wOutcome \in Outcomes
      BY <1>15 DEF WorkerTrailer, HandOK, HandPcs, TypeOK, WorkerTypes
    <3> QED BY <1>15, <2>2, <3>1, HandEnds DEF WorkerTrailer
  <2> QED BY <2>1, <2>2
<1>16. CASE WorkerSettle
  <2>1. CASE Requeues
    BY <1>16, <2>1, PlacesFrame DEF WorkerSettle
  <2>2. CASE ~Requeues
    <3>1. wItem # NoItem /\ "cancelled" \in Outcomes
      BY <1>16 DEF WorkerSettle, HandOK, HandPcs, Outcomes
    <3> QED BY <1>16, <2>2, <3>1, HandEnds DEF WorkerSettle
  <2> QED BY <2>1, <2>2
<1>17. CASE WorkerRequeue
  BY <1>17, RequeuePlaces
<1>18. CASE WorkerRelease
  BY <1>18, PlacesFrame DEF WorkerRelease
<1> QED
  BY <1>1, <1>2, <1>3, <1>4, <1>5, <1>6, <1>7, <1>8, <1>9, <1>10,
     <1>11, <1>12, <1>13, <1>14, <1>15, <1>16, <1>17, <1>18
  DEF WorkerNext

LEMMA CallerPlacesStep ==
  ASSUME TypeOK, DropOK, Places, NEW c \in Callers,
         \/ CallerStarts(c) \/ CallerContinues(c)
         \/ \E t \in Targets : SubmitOther(c, t)
  PROVE  Places'
<1> USE DEF placeVars, queueVars, cancelVars, statusVars, workerVars, callerVars
<1>1. ASSUME NEW cause \in {"dictation", "barge"}, Pause(c, cause)
      PROVE  Places'
  BY <1>1, PlacesFrame DEF Pause
<1>2. ASSUME NEW op, Resume(c, op)
      PROVE  Places'
  BY <1>2, PlacesFrame DEF Resume
<1>3. CASE Skip(c)
  BY <1>3, PlacesFrame DEF Skip
<1>4. CASE Clear(c)
  <2>1. /\ items' = <<>> /\ UNCHANGED <<wItem, fates, admitted>>
        /\ cDropped' = [cDropped EXCEPT ![c] = Queued(items) \cap Speech]
    BY <1>4 DEF Clear
  <2>2. cDropped \in [Callers -> SUBSET Speech] /\ cDropped[c] = {}
    BY <1>4 DEF TypeOK, CallerTypes, DropOK, Clear, CanStart
  <2>3. /\ cDropped'[c] = Queued(items) \cap Speech
        /\ \A d \in Callers \ {c} : cDropped'[d] = cDropped[d]
    BY <2>1, <2>2
  <2>4. Queued(items') = {} /\ Distinct(items')
    BY <2>1 DEF Queued, Distinct
  <2>5. Apart'
    <3>1. \A d \in Callers : /\ cDropped'[d] \subseteq admitted'
                             /\ wItem' \notin cDropped'[d]
      BY <2>1, <2>3, TtsQueueAssumption
      DEF Places, Apart, TtsQueueAssumption, Items
    <3>2. \A d, e \in Callers : d # e => cDropped'[d] \cap cDropped'[e] = {}
      BY <2>3 DEF Places, Apart
    <3>3. \A u \in Speech : HasEnded(u)' =>
            u \in admitted' /\ u # wItem' /\ ~BeingDropped(u)'
      BY <2>1, <2>3 DEF Places, Apart, HasEnded, BeingDropped
    <3> QED BY <2>1, <2>4, <3>1, <3>2, <3>3 DEF Places, Apart
  <2>6. Somewhere'
    BY <2>1, <2>2, <2>3 DEF Places, Somewhere, HasEnded, BeingDropped, InQueue, InHand
  <2>7. OneRecord'
    BY <2>1 DEF Places, OneRecord
  <2> QED BY <2>5, <2>6, <2>7 DEF Places
<1>5. ASSUME NEW t \in Targets, ClearSession(c, t)
      PROVE  Places'
  BY <1>5, SweepPlaces DEF ClearSession, CanStart
<1>6. ASSUME NEW t \in Targets, SetActive(c, t)
      PROVE  Places'
  BY <1>6, PlacesFrame DEF SetActive
<1>7. ASSUME NEW t \in Targets, NEW o \in Targets \cup {NoSession},
             SubmitCurrent(c, t, o)
      PROVE  Places'
  BY <1>7, SweepPlaces DEF SubmitCurrent, CanStart
<1>8. CASE Bump(c)
  BY <1>8, PlacesFrame DEF Bump
<1>9. CASE RecordKind(c)
  BY <1>9, PlacesFrame DEF RecordKind
<1>10. CASE Fade(c)
  BY <1>10, PlacesFrame DEF Fade
<1>11. CASE ClearUnpause(c)
  BY <1>11, RecordPlaces DEF ClearUnpause
<1>12. CASE RecordDiscarded(c)
  BY <1>12, RecordPlaces DEF RecordDiscarded
<1>13. CASE Wake(c)
  BY <1>13, PlacesFrame DEF Wake
<1>14. ASSUME NEW t \in Targets, SubmitOther(c, t)
       PROVE  Places'
  BY <1>14, SweepPlaces DEF SubmitOther, SweepOthers, CanStart
<1> QED
  BY <1>1, <1>2, <1>3, <1>4, <1>5, <1>6, <1>7, <1>8, <1>9, <1>10, <1>11, <1>12,
     <1>13, <1>14 DEF CallerStarts, CallerContinues

LEMMA PlacesStep ==
  TypeOK /\ HandOK /\ DropOK /\ Places /\ [Next]_vars => Places'
<1> SUFFICES ASSUME TypeOK, HandOK, DropOK, Places, [Next]_vars PROVE Places'
  OBVIOUS
<1> USE DEF placeVars, queueVars, cancelVars, statusVars, workerVars, callerVars
<1>1. CASE UNCHANGED vars
  BY <1>1, PlacesFrame DEF vars
<1>2. ASSUME NEW i \in Items, Enqueue(i)
      PROVE  Places'
  <2>1. /\ items' = Append(items, i) /\ admitted' = admitted \cup {i}
        /\ i \notin admitted /\ UNCHANGED <<wItem, fates, cDropped>>
    BY <1>2 DEF Enqueue
  <2>2. Queued(items') = Queued(items) \cup {i} /\ Distinct(items')
    BY <2>1, QueuedAppend DEF TypeOK, QueueTypes, Places, Apart
  <2>3. Apart'
    BY <2>1, <2>2 DEF Places, Apart, HasEnded, BeingDropped
  <2>4. Somewhere'
    BY <2>1, <2>2 DEF Places, Somewhere, HasEnded, BeingDropped, InQueue, InHand
  <2>5. OneRecord'
    BY <2>1 DEF Places, OneRecord
  <2> QED BY <2>3, <2>4, <2>5 DEF Places
<1>3. ASSUME NEW gate \in Gates, ToggleHold(gate)
      PROVE  Places'
  BY <1>3, PlacesFrame DEF ToggleHold
<1> QED
  BY <1>1, <1>2, <1>3, WorkerPlacesStep, CallerPlacesStep DEF Next, Environment

LEMMA PlacesInvariant == Spec => []Places
<1>1. Init => LockOK /\ DropOK
  BY TtsQueueAssumption DEF Init, LockOK, DropOK, TtsQueueAssumption
<1>2. Init => Places
  BY DEF Init, Places, Apart, Somewhere, OneRecord, Distinct, Queued, HasEnded,
         BeingDropped
<1> QED
  BY <1>1, <1>2, PlacesStep, LockStep, TypeCorrect, PTL DEF Spec

\* No interleaving of producers, cancellations and the worker loses an
\* utterance, keeps it in two places, or ends it twice (ttsq.rs).
THEOREM EachInOnePlace == Spec => []OnePlace
<1>1. TypeOK /\ Places => OnePlace
  <2> SUFFICES ASSUME TypeOK, Places PROVE OnePlace
    OBVIOUS
  <2>1. NoItem \notin Speech
    BY TtsQueueAssumption DEF TtsQueueAssumption, Items
  <2>2. ASSUME NEW u \in Speech PROVE Len(fates[u]) <= 1
    <3>1. CASE fates[u] = <<>>
      <4>1. Len(fates[u]) = 0
        BY <3>1
      <4> QED BY <4>1
    <3>2. CASE Len(fates[u]) = 1
      BY <3>2
    <3> QED BY <3>1, <3>2 DEF Places, OneRecord
  <2> QED
    BY <2>1, <2>2 DEF OnePlace, Places, Apart, Somewhere, Distinct, InQueue,
       InHand, BeingDropped, HasEnded
<1> QED
  BY <1>1, PlacesInvariant, TypeCorrect, PTL

-----------------------------------------------------------------------------
(* The queue implements the ledger its producers rely on.                  *)

\* Whatever leaves an utterance's record, owner and admission alone is nothing
\* to the ledger: a sweep is invisible until it is recorded.
LEMMA LedgerStutters ==
  UNCHANGED <<wItem, fates, admitted>> => UNCHANGED Ledger!vars
BY DEF Ledger!vars, LedgerPlace, LedgerFate, HasEnded, InHand

LEMMA LedgerAdmits ==
  ASSUME Places, NEW u \in Speech, u \notin admitted,
         admitted' = admitted \cup {u}, UNCHANGED <<wItem, fates>>
  PROVE  Ledger!Admit(u)
BY TtsQueueAssumption DEF TtsQueueAssumption, Items, Places, Apart, Ledger!Admit,
   LedgerPlace, LedgerFate, HasEnded, InHand

LEMMA LedgerClaims ==
  ASSUME Places, wItem = NoItem, NEW u \in Speech, u \in Queued(items), wItem' = u,
         UNCHANGED <<fates, admitted>>
  PROVE  Ledger!Claim(u)
BY TtsQueueAssumption DEF TtsQueueAssumption, Items, Places, Apart, Ledger!Claim,
   LedgerPlace, LedgerFate, HasEnded, InHand

LEMMA LedgerRequeues ==
  ASSUME Places, wItem \in Speech, wItem' = NoItem, UNCHANGED <<fates, admitted>>
  PROVE  Ledger!Requeue(wItem)
BY TtsQueueAssumption DEF TtsQueueAssumption, Items, Places, Apart, Ledger!Requeue,
   LedgerPlace, LedgerFate, HasEnded, InHand

\* The first record of each of a set of utterances, and no other change.
LEMMA FirstRecords ==
  ASSUME fates \in [Speech -> Seq(Outcomes)], NEW handles \in SUBSET Speech,
         NEW outcome \in Outcomes, fates' = Ended(handles, outcome),
         \A u \in handles : fates[u] = <<>>
  PROVE  /\ \A u \in handles : fates'[u] # <<>> /\ fates'[u][1] = outcome
         /\ \A u \in Speech \ handles : fates'[u] = fates[u]
<1>1. ASSUME NEW u \in handles PROVE fates'[u] # <<>> /\ fates'[u][1] = outcome
  <2>1. fates'[u] = Append(fates[u], outcome) /\ fates[u] \in Seq(Outcomes)
    BY DEF Ended
  <2>2. Len(fates[u]) = 0
    BY <1>1
  <2> QED BY <2>1, <2>2, AppendProperties
<1>2. \A u \in Speech \ handles : fates'[u] = fates[u]
  BY DEF Ended
<1> QED BY <1>1, <1>2

LEMMA LedgerEnds ==
  ASSUME TypeOK, Places, wItem \in Speech, NEW outcome \in Outcomes,
         fates' = Ended({wItem}, outcome), wItem' = NoItem, UNCHANGED admitted
  PROVE  Ledger!End(wItem, outcome)
<1>1. fates[wItem] = <<>> /\ NoItem \notin Speech
  BY TtsQueueAssumption DEF TtsQueueAssumption, Items, Places, Apart, HasEnded
<1>2. /\ fates'[wItem] # <<>> /\ fates'[wItem][1] = outcome
      /\ \A u \in Speech \ {wItem} : fates'[u] = fates[u]
  BY <1>1, FirstRecords DEF TypeOK, StatusTypes
<1>3. LedgerPlace[wItem] = "claimed"
  BY <1>1 DEF LedgerPlace, HasEnded, InHand
<1>4. LedgerPlace' = [LedgerPlace EXCEPT ![wItem] = "ended"]
  BY <1>1, <1>2 DEF LedgerPlace, HasEnded, InHand
<1>5. LedgerFate' = [LedgerFate EXCEPT ![wItem] = outcome]
  BY <1>1, <1>2 DEF LedgerFate, HasEnded
<1> QED BY <1>3, <1>4, <1>5 DEF Ledger!End

LEMMA LedgerDiscards ==
  ASSUME TypeOK, Places, NEW c \in Callers, cDropped[c] # {},
         fates' = Ended(cDropped[c], "cancelled"), UNCHANGED <<wItem, admitted>>
  PROVE  Ledger!Discard(cDropped[c])
<1> DEFINE us == cDropped[c]
<1>1. us \in SUBSET Speech /\ us # {}
  BY DEF TypeOK, CallerTypes
<1>2. \A u \in us : fates[u] = <<>> /\ u \in admitted /\ u # wItem
  BY <1>1 DEF Places, Apart, HasEnded, BeingDropped
<1>3. /\ \A u \in us : fates'[u] # <<>> /\ fates'[u][1] = "cancelled"
      /\ \A u \in Speech \ us : fates'[u] = fates[u]
  BY <1>1, <1>2, FirstRecords DEF TypeOK, StatusTypes, Outcomes
<1> HIDE DEF us
<1>4. \A u \in us : LedgerPlace[u] = "waiting"
  BY <1>1, <1>2 DEF LedgerPlace, HasEnded, InHand
<1>5. LedgerPlace' = [u \in Speech |-> IF u \in us THEN "ended" ELSE LedgerPlace[u]]
  BY <1>1, <1>3 DEF LedgerPlace, HasEnded, InHand
<1>6. LedgerFate' = [u \in Speech |-> IF u \in us THEN "cancelled" ELSE LedgerFate[u]]
  BY <1>1, <1>3 DEF LedgerFate, HasEnded
<1>7. Ledger!Discard(us)
  BY <1>1, <1>4, <1>5, <1>6 DEF Ledger!Discard
<1> QED BY <1>7 DEF us

\* The worker's end of an item; a cue has no record, so the ledger stutters.
LEMMA HandEndsLedger ==
  ASSUME TypeOK, Places, wItem # NoItem, NEW outcome \in Outcomes,
         fates' = Ended({wItem} \cap Speech, outcome), wItem' = NoItem,
         UNCHANGED admitted
  PROVE  [Ledger!Next]_(Ledger!vars)
<1>1. CASE wItem \in Speech
  <2>1. {wItem} \cap Speech = {wItem}
    BY <1>1
  <2>2. Ledger!End(wItem, outcome)
    BY <1>1, <2>1, LedgerEnds
  <2> QED BY <1>1, <2>2 DEF Ledger!Next, Outcomes
<1>2. CASE wItem \notin Speech
  <2>1. fates' = fates
    BY <1>2 DEF TypeOK, StatusTypes, Ended
  <2>2. \A u \in Speech : InHand(u)' = InHand(u)
    BY <1>2, TtsQueueAssumption DEF InHand, TtsQueueAssumption, Items
  <2> QED BY <2>1, <2>2 DEF Ledger!vars, LedgerPlace, LedgerFate, HasEnded
<1> QED BY <1>1, <1>2

LEMMA RecordLedger ==
  ASSUME TypeOK, Places, NEW c \in Callers,
         fates' = Ended(cDropped[c], "cancelled"), UNCHANGED <<wItem, admitted>>
  PROVE  [Ledger!Next]_(Ledger!vars)
<1>1. CASE cDropped[c] = {}
  <2>1. fates' = fates
    BY <1>1 DEF TypeOK, StatusTypes, Ended
  <2> QED BY <2>1, LedgerStutters
<1>2. CASE cDropped[c] # {}
  <2>1. Ledger!Discard(cDropped[c]) /\ cDropped[c] \in SUBSET Speech
    BY <1>2, LedgerDiscards DEF TypeOK, CallerTypes
  <2> QED BY <2>1 DEF Ledger!Next
<1> QED BY <1>1, <1>2

LEMMA WorkerLedgerStep ==
  ASSUME TypeOK, HandOK, Places, WorkerNext
  PROVE  [Ledger!Next]_(Ledger!vars)
<1> USE DEF queueVars, cancelVars, statusVars, workerVars, callersIdle
<1>1. CASE WorkerSnapshot
  BY <1>1, LedgerStutters DEF WorkerSnapshot
<1>2. CASE WorkerCheck
  BY <1>2, LedgerStutters DEF WorkerCheck
<1>3. CASE WorkerTake
  <2>1. PICK k \in DOMAIN items : wItem' = items[k]
    BY <1>3 DEF WorkerTake
  <2>2. /\ wItem = NoItem /\ items[k] \in Queued(items) /\ NoItem \notin Speech
        /\ UNCHANGED <<fates, admitted>>
    BY <1>3, TtsQueueAssumption
    DEF WorkerTake, HandOK, HandPcs, Queued, TtsQueueAssumption, Items
  <2>3. CASE items[k] \in Speech
    <3>1. Ledger!Claim(items[k])
      BY <2>1, <2>2, <2>3, LedgerClaims
    <3> QED BY <2>3, <3>1 DEF Ledger!Next
  <2>4. CASE items[k] \notin Speech
    BY <2>1, <2>2, <2>4 DEF Ledger!vars, LedgerPlace, LedgerFate, HasEnded, InHand
  <2> QED BY <2>3, <2>4
<1>4. CASE WorkerSleep
  BY <1>4, LedgerStutters DEF WorkerSleep
<1>5. CASE WorkerHold
  BY <1>5, LedgerStutters DEF WorkerHold
<1>6. CASE WorkerPassGate
  BY <1>6, LedgerStutters DEF WorkerPassGate
<1>7. CASE WorkerResolve
  BY <1>7, LedgerStutters DEF WorkerResolve
<1>8. CASE WorkerAwait
  BY <1>8, LedgerStutters DEF WorkerAwait
<1>9. CASE WorkerActivate
  BY <1>9, LedgerStutters DEF WorkerActivate
<1>10. CASE WorkerSpeak
  BY <1>10, LedgerStutters DEF WorkerSpeak
<1>11. CASE WorkerSpoken
  BY <1>11, LedgerStutters DEF WorkerSpoken
<1>12. CASE WorkerSpeakFails
  BY <1>12, LedgerStutters DEF WorkerSpeakFails
<1>13. CASE WorkerCue
  BY <1>13, LedgerStutters DEF WorkerCue
<1>14. CASE WorkerCueEnds
  BY <1>14, LedgerStutters DEF WorkerCueEnds
<1>15. CASE WorkerTrailer
  <2>1. CASE Cancelled
    BY <1>15, <2>1, LedgerStutters DEF WorkerTrailer
  <2>2. CASE ~Cancelled
    <3>1. wItem # NoItem /\ wOutcome \in Outcomes
      BY <1>15 DEF WorkerTrailer, HandOK, HandPcs, TypeOK, WorkerTypes
    <3> QED BY <1>15, <2>2, <3>1, HandEndsLedger DEF WorkerTrailer
  <2> QED BY <2>1, <2>2
<1>16. CASE WorkerSettle
  <2>1. CASE Requeues
    BY <1>16, <2>1, LedgerStutters DEF WorkerSettle
  <2>2. CASE ~Requeues
    <3>1. wItem # NoItem /\ "cancelled" \in Outcomes
      BY <1>16 DEF WorkerSettle, HandOK, HandPcs, Outcomes
    <3> QED BY <1>16, <2>2, <3>1, HandEndsLedger DEF WorkerSettle
  <2> QED BY <2>1, <2>2
<1>17. CASE WorkerRequeue
  <2>1. wItem' = NoItem /\ NoItem \notin Speech /\ UNCHANGED <<fates, admitted>>
    BY <1>17, TtsQueueAssumption DEF WorkerRequeue, TtsQueueAssumption, Items
  <2>2. CASE wItem \in Speech
    <3>1. Ledger!Requeue(wItem)
      BY <2>1, <2>2, LedgerRequeues
    <3> QED BY <2>2, <3>1 DEF Ledger!Next
  <2>3. CASE wItem \notin Speech
    BY <2>1, <2>3 DEF Ledger!vars, LedgerPlace, LedgerFate, HasEnded, InHand
  <2> QED BY <2>2, <2>3
<1>18. CASE WorkerRelease
  BY <1>18, LedgerStutters DEF WorkerRelease
<1> QED
  BY <1>1, <1>2, <1>3, <1>4, <1>5, <1>6, <1>7, <1>8, <1>9, <1>10,
     <1>11, <1>12, <1>13, <1>14, <1>15, <1>16, <1>17, <1>18
  DEF WorkerNext

LEMMA CallerLedgerStep ==
  ASSUME TypeOK, Places, NEW c \in Callers,
         \/ CallerStarts(c) \/ CallerContinues(c)
         \/ \E t \in Targets : SubmitOther(c, t)
  PROVE  [Ledger!Next]_(Ledger!vars)
<1> USE DEF queueVars, cancelVars, statusVars, workerVars, callerVars
<1>1. ASSUME NEW cause \in {"dictation", "barge"}, Pause(c, cause)
      PROVE  [Ledger!Next]_(Ledger!vars)
  BY <1>1, LedgerStutters DEF Pause
<1>2. ASSUME NEW op, Resume(c, op)
      PROVE  [Ledger!Next]_(Ledger!vars)
  BY <1>2, LedgerStutters DEF Resume
<1>3. CASE Skip(c)
  BY <1>3, LedgerStutters DEF Skip
<1>4. CASE Clear(c)
  BY <1>4, LedgerStutters DEF Clear
<1>5. ASSUME NEW t \in Targets, ClearSession(c, t)
      PROVE  [Ledger!Next]_(Ledger!vars)
  BY <1>5, LedgerStutters DEF ClearSession, Sweep
<1>6. ASSUME NEW t \in Targets, SetActive(c, t)
      PROVE  [Ledger!Next]_(Ledger!vars)
  BY <1>6, LedgerStutters DEF SetActive
<1>7. ASSUME NEW t \in Targets, NEW o \in Targets \cup {NoSession},
             SubmitCurrent(c, t, o)
      PROVE  [Ledger!Next]_(Ledger!vars)
  BY <1>7, LedgerStutters DEF SubmitCurrent, Sweep
<1>8. CASE Bump(c)
  BY <1>8, LedgerStutters DEF Bump
<1>9. CASE RecordKind(c)
  BY <1>9, LedgerStutters DEF RecordKind
<1>10. CASE Fade(c)
  BY <1>10, LedgerStutters DEF Fade
<1>11. CASE ClearUnpause(c)
  BY <1>11, RecordLedger DEF ClearUnpause
<1>12. CASE RecordDiscarded(c)
  BY <1>12, RecordLedger DEF RecordDiscarded
<1>13. CASE Wake(c)
  BY <1>13, LedgerStutters DEF Wake
<1>14. ASSUME NEW t \in Targets, SubmitOther(c, t)
       PROVE  [Ledger!Next]_(Ledger!vars)
  BY <1>14, LedgerStutters DEF SubmitOther, SweepOthers, Sweep
<1> QED
  BY <1>1, <1>2, <1>3, <1>4, <1>5, <1>6, <1>7, <1>8, <1>9, <1>10, <1>11, <1>12,
     <1>13, <1>14 DEF CallerStarts, CallerContinues

LEMMA LedgerStep ==
  TypeOK /\ HandOK /\ Places /\ [Next]_vars => [Ledger!Next]_(Ledger!vars)
<1> SUFFICES ASSUME TypeOK, HandOK, Places, [Next]_vars PROVE [Ledger!Next]_(Ledger!vars)
  OBVIOUS
<1> USE DEF queueVars, cancelVars, statusVars, workerVars, callerVars
<1>1. CASE UNCHANGED vars
  BY <1>1, LedgerStutters DEF vars
<1>2. ASSUME NEW i \in Items, Enqueue(i)
      PROVE  [Ledger!Next]_(Ledger!vars)
  <2>1. /\ i \notin admitted /\ admitted' = admitted \cup {i}
        /\ UNCHANGED <<wItem, fates>>
    BY <1>2 DEF Enqueue
  <2>2. CASE i \in Speech
    <3>1. Ledger!Admit(i)
      BY <2>1, <2>2, LedgerAdmits
    <3> QED BY <2>2, <3>1 DEF Ledger!Next
  <2>3. CASE i \notin Speech
    BY <2>1, <2>3 DEF Ledger!vars, LedgerPlace, LedgerFate, HasEnded, InHand
  <2> QED BY <2>2, <2>3
<1>3. ASSUME NEW gate \in Gates, ToggleHold(gate)
      PROVE  [Ledger!Next]_(Ledger!vars)
  BY <1>3, LedgerStutters DEF ToggleHold
<1> QED
  BY <1>1, <1>2, <1>3, WorkerLedgerStep, CallerLedgerStep DEF Next, Environment

\* The queue with its worker and callers implements the ledger: every utterance
\* waits, is claimed by the one worker, may go back, and ends once; only a
\* claimed one is spoken, fails or is dropped (ttsq.rs; the handles and
\* outcomes that model_status reports).
THEOREM ImplementsLedger == Spec => LedgerSpec
<1>1. Init => Ledger!Init
  BY TtsQueueAssumption
  DEF Init, Ledger!Init, LedgerPlace, LedgerFate, HasEnded, InHand,
      TtsQueueAssumption, Items
<1>2. Spec => [](TypeOK /\ HandOK /\ Places)
  BY PlacesInvariant, TypeCorrect, PTL
<1> QED
  BY <1>1, <1>2, LedgerStep, PTL DEF Spec, LedgerSpec, Ledger!Spec

-----------------------------------------------------------------------------
(* What is heard is reported.                                              *)

\* What BusyIsTrue needs to be inductive: the helper plays only while the worker
\* waits for it; an item that is past its gates is in flight although a hold may
\* have reported it idle before; tts_active is up while something is heard, unless
\* a cancellation of the claim has dropped it, and nowhere the trailer is not ahead.
HeardOK ==
  /\ audio # "silent" => wpc = "speaking"
  /\ wpc \in {"resolve", "await", "activate", "write", "speaking", "cueing"}
       => inFlight
  /\ wpc \in {"write", "speaking", "cueing"} => ttsActive \/ Cancelled
  /\ wpc = "trailer" => wOutcome # "cancelled"
  /\ ttsActive => \/ wpc \in {"write", "speaking", "cueing"}
                  \/ /\ wpc \in {"trailer", "settle", "requeue", "release"}
                     /\ wOutcome # "cancelled"
  /\ wpc \in {"lock", "check", "take", "park", "asleep"} => ~inFlight

LEMMA WorkerHeardStep ==
  ASSUME HeardOK, WorkerNext
  PROVE  HeardOK'
<1> USE DEF HeardOK, Cancelled, cancelVars, statusVars, workerVars
<1>1. CASE WorkerSnapshot
  BY <1>1 DEF WorkerSnapshot
<1>2. CASE WorkerCheck
  BY <1>2 DEF WorkerCheck
<1>3. CASE WorkerTake
  BY <1>3 DEF WorkerTake
<1>4. CASE WorkerSleep
  BY <1>4 DEF WorkerSleep
<1>5. CASE WorkerHold
  BY <1>5 DEF WorkerHold
<1>6. CASE WorkerPassGate
  BY <1>6 DEF WorkerPassGate
<1>7. CASE WorkerResolve
  BY <1>7 DEF WorkerResolve
<1>8. CASE WorkerAwait
  BY <1>8 DEF WorkerAwait
<1>9. CASE WorkerActivate
  BY <1>9 DEF WorkerActivate
<1>10. CASE WorkerSpeak
  BY <1>10 DEF WorkerSpeak
<1>11. CASE WorkerSpoken
  BY <1>11 DEF WorkerSpoken
<1>12. CASE WorkerSpeakFails
  BY <1>12 DEF WorkerSpeakFails
<1>13. CASE WorkerCue
  BY <1>13 DEF WorkerCue
<1>14. CASE WorkerCueEnds
  BY <1>14 DEF WorkerCueEnds
<1>15. CASE WorkerTrailer
  BY <1>15 DEF WorkerTrailer
<1>16. CASE WorkerSettle
  BY <1>16 DEF WorkerSettle
<1>17. CASE WorkerRequeue
  BY <1>17 DEF WorkerRequeue
<1>18. CASE WorkerRelease
  BY <1>18 DEF WorkerRelease
<1> QED
  BY <1>1, <1>2, <1>3, <1>4, <1>5, <1>6, <1>7, <1>8, <1>9, <1>10,
     <1>11, <1>12, <1>13, <1>14, <1>15, <1>16, <1>17, <1>18
  DEF WorkerNext

\* A caller fades what is heard, and starts nothing.
LEMMA CallerHeardStep ==
  ASSUME TypeOK, PauseSeen, HeardOK, NEW c \in Callers,
         \/ CallerStarts(c) \/ CallerContinues(c)
         \/ \E t \in Targets : SubmitOther(c, t)
  PROVE  HeardOK'
<1> USE DEF HeardOK, Cancelled, cancelVars, statusVars, workerVars, Notified
<1>1. ASSUME NEW cause \in {"dictation", "barge"}, Pause(c, cause)
      PROVE  HeardOK'
  BY <1>1 DEF Pause
<1>2. ASSUME NEW op, Resume(c, op)
      PROVE  HeardOK'
  BY <1>2 DEF Resume
<1>3. CASE Skip(c)
  BY <1>3 DEF Skip
<1>4. CASE Clear(c)
  BY <1>4 DEF Clear
<1>5. ASSUME NEW t \in Targets, ClearSession(c, t)
      PROVE  HeardOK'
  BY <1>5 DEF ClearSession, Sweep
<1>6. ASSUME NEW t \in Targets, SetActive(c, t)
      PROVE  HeardOK'
  BY <1>6 DEF SetActive
<1>7. ASSUME NEW t \in Targets, NEW o \in Targets \cup {NoSession},
             SubmitCurrent(c, t, o)
      PROVE  HeardOK'
  BY <1>7 DEF SubmitCurrent, Sweep
<1>8. CASE Bump(c)
  <2>1. generation' # wGen'
    BY <1>8 DEF Bump, TypeOK, CancelTypes, WorkerTypes, PauseSeen
  <2> QED BY <1>8, <2>1 DEF Bump
<1>9. CASE RecordKind(c)
  BY <1>9 DEF RecordKind
<1>10. CASE Fade(c)
  BY <1>10 DEF Fade
<1>11. CASE ClearUnpause(c)
  BY <1>11 DEF ClearUnpause
<1>12. CASE RecordDiscarded(c)
  BY <1>12 DEF RecordDiscarded
<1>13. CASE Wake(c)
  BY <1>13 DEF Wake
<1>14. ASSUME NEW t \in Targets, SubmitOther(c, t)
      PROVE  HeardOK'
  BY <1>14 DEF SubmitOther, SweepOthers, Sweep
<1> QED
  BY <1>1, <1>2, <1>3, <1>4, <1>5, <1>6, <1>7, <1>8, <1>9, <1>10, <1>11, <1>12,
     <1>13, <1>14 DEF CallerStarts, CallerContinues

LEMMA HeardStep ==
  TypeOK /\ PauseSeen /\ HeardOK /\ [Next]_vars => HeardOK'
<1> SUFFICES ASSUME TypeOK, PauseSeen, HeardOK, [Next]_vars PROVE HeardOK'
  OBVIOUS
<1> USE DEF HeardOK, Cancelled, cancelVars, statusVars, workerVars
<1>1. CASE UNCHANGED vars
  BY <1>1 DEF vars
<1>2. ASSUME NEW i \in Items, Enqueue(i)
      PROVE  HeardOK'
  BY <1>2 DEF Enqueue, Notified
<1>3. ASSUME NEW gate \in Gates, ToggleHold(gate)
      PROVE  HeardOK'
  BY <1>3 DEF ToggleHold
<1> QED
  BY <1>1, <1>2, <1>3, WorkerHeardStep, CallerHeardStep DEF Next, Environment

\* While a narration or a cue can be heard is_busy says so, so that always-
\* listening keeps its microphone closed, except for the tail of an item that is
\* being cancelled behind a focus hold; and a worker that sleeps beside an empty
\* queue is never reported busy (ttsq.rs, is_busy, gate_item, gate_earcon, the
\* retry of play_speech and the trailer of run).
THEOREM BusyIsReported == Spec => []BusyIsTrue
<1>1. Init => HeardOK
  BY DEF Init, HeardOK
<1>2. HeardOK => BusyIsTrue
  BY DEF HeardOK, BusyIsTrue, IsBusy, BeingCancelled
<1>3. Init => PauseSeen
  BY DEF Init, PauseSeen, HandPcs
<1> QED
  BY <1>1, <1>2, <1>3, PauseStep, HeardStep, TypeCorrect, PTL DEF Spec

-----------------------------------------------------------------------------
(* Who lifts a dictation pause.                                            *)

\* Only a clear reaches the step that lifts a pause without asking its cause.
UnpauseOK == \A c \in Callers : cpc[c] = "unpause" => "clear" \in OpsOf[c]

Lifts(c) ==
  \/ "resume" \in OpsOf[c] /\ cpc[c] = "idle" /\ cpc'[c] = "wake"
  \/ "clear" \in OpsOf[c] /\ cpc[c] = "unpause" /\ cpc'[c] = "bump"

KeepsDictation ==
  paused = "dictation" /\ paused' # "dictation" => \E c \in Callers : Lifts(c)

LEMMA WorkerUnpauseStep ==
  ASSUME UnpauseOK, WorkerNext
  PROVE  UnpauseOK' /\ KeepsDictation
<1> USE DEF UnpauseOK, KeepsDictation, callersIdle, callerVars, cancelVars
<1>1. CASE WorkerSnapshot
  BY <1>1 DEF WorkerSnapshot
<1>2. CASE WorkerCheck
  BY <1>2 DEF WorkerCheck
<1>3. CASE WorkerTake
  BY <1>3 DEF WorkerTake
<1>4. CASE WorkerSleep
  BY <1>4 DEF WorkerSleep
<1>5. CASE WorkerHold
  BY <1>5 DEF WorkerHold
<1>6. CASE WorkerPassGate
  BY <1>6 DEF WorkerPassGate
<1>7. CASE WorkerResolve
  BY <1>7 DEF WorkerResolve
<1>8. CASE WorkerAwait
  BY <1>8 DEF WorkerAwait
<1>9. CASE WorkerActivate
  BY <1>9 DEF WorkerActivate
<1>10. CASE WorkerSpeak
  BY <1>10 DEF WorkerSpeak
<1>11. CASE WorkerSpoken
  BY <1>11 DEF WorkerSpoken
<1>12. CASE WorkerSpeakFails
  BY <1>12 DEF WorkerSpeakFails
<1>13. CASE WorkerCue
  BY <1>13 DEF WorkerCue
<1>14. CASE WorkerCueEnds
  BY <1>14 DEF WorkerCueEnds
<1>15. CASE WorkerTrailer
  BY <1>15 DEF WorkerTrailer
<1>16. CASE WorkerSettle
  BY <1>16 DEF WorkerSettle
<1>17. CASE WorkerRequeue
  BY <1>17 DEF WorkerRequeue
<1>18. CASE WorkerRelease
  BY <1>18 DEF WorkerRelease
<1> QED
  BY <1>1, <1>2, <1>3, <1>4, <1>5, <1>6, <1>7, <1>8, <1>9, <1>10,
     <1>11, <1>12, <1>13, <1>14, <1>15, <1>16, <1>17, <1>18
  DEF WorkerNext

LEMMA CallerUnpauseStep ==
  ASSUME TypeOK, UnpauseOK, NEW c \in Callers,
         \/ CallerStarts(c) \/ CallerContinues(c)
         \/ \E t \in Targets : SubmitOther(c, t)
  PROVE  UnpauseOK' /\ KeepsDictation
<1>0. cpc \in [Callers -> CallerPcs]
  BY DEF TypeOK, CallerTypes
<1> USE DEF UnpauseOK, KeepsDictation, callerVars, cancelVars, Goto
<1>1. ASSUME NEW cause \in {"dictation", "barge"}, Pause(c, cause)
      PROVE  UnpauseOK' /\ KeepsDictation
  BY <1>1, <1>0 DEF Pause, PausedBy, CanStart
<1>2. ASSUME NEW op, Resume(c, op)
      PROVE  UnpauseOK' /\ KeepsDictation
  BY <1>2, <1>0 DEF Resume, Lifts
<1>3. CASE Skip(c)
  BY <1>3, <1>0 DEF Skip
<1>4. CASE Clear(c)
  BY <1>4, <1>0 DEF Clear, CanStart
<1>5. ASSUME NEW t \in Targets, ClearSession(c, t)
      PROVE  UnpauseOK' /\ KeepsDictation
  BY <1>5, <1>0 DEF ClearSession, Sweep
<1>6. ASSUME NEW t \in Targets, SetActive(c, t)
      PROVE  UnpauseOK' /\ KeepsDictation
  BY <1>6, <1>0 DEF SetActive
<1>7. ASSUME NEW t \in Targets, NEW o \in Targets \cup {NoSession},
             SubmitCurrent(c, t, o)
      PROVE  UnpauseOK' /\ KeepsDictation
  BY <1>7, <1>0 DEF SubmitCurrent, Sweep
<1>8. CASE Bump(c)
  BY <1>8, <1>0 DEF Bump
<1>9. CASE RecordKind(c)
  BY <1>9, <1>0 DEF RecordKind
<1>10. CASE Fade(c)
  BY <1>10, <1>0 DEF Fade
<1>11. CASE ClearUnpause(c)
  BY <1>11, <1>0 DEF ClearUnpause, Lifts
<1>12. CASE RecordDiscarded(c)
  BY <1>12, <1>0 DEF RecordDiscarded
<1>13. CASE Wake(c)
  BY <1>13, <1>0 DEF Wake
<1>14. ASSUME NEW t \in Targets, SubmitOther(c, t)
      PROVE  UnpauseOK' /\ KeepsDictation
  BY <1>14, <1>0 DEF SubmitOther, SweepOthers, Sweep
<1> QED
  BY <1>1, <1>2, <1>3, <1>4, <1>5, <1>6, <1>7, <1>8, <1>9, <1>10, <1>11, <1>12,
     <1>13, <1>14 DEF CallerStarts, CallerContinues

LEMMA UnpauseStep ==
  TypeOK /\ UnpauseOK /\ [Next]_vars => UnpauseOK' /\ KeepsDictation
<1> SUFFICES ASSUME TypeOK, UnpauseOK, [Next]_vars
             PROVE  UnpauseOK' /\ KeepsDictation
  OBVIOUS
<1> USE DEF UnpauseOK, KeepsDictation, callerVars, cancelVars
<1>1. CASE UNCHANGED vars
  BY <1>1 DEF vars
<1>2. ASSUME NEW i \in Items, Enqueue(i)
      PROVE  UnpauseOK' /\ KeepsDictation
  BY <1>2 DEF Enqueue
<1>3. ASSUME NEW gate \in Gates, ToggleHold(gate)
      PROVE  UnpauseOK' /\ KeepsDictation
  BY <1>3 DEF ToggleHold
<1> QED
  BY <1>1, <1>2, <1>3, WorkerUnpauseStep, CallerUnpauseStep DEF Next, Environment

\* Whatever the threads interleave, a dictation pause ends only by the step of
\* a thread that resumes or clears: a speculative barge neither takes it over
\* nor lifts it (ttsq.rs, PauseCause; pause_with_cause and
\* resume_if_barge_speculative).
THEOREM DictationIsHeld == Spec => DictationHolds
<1>1. Init => UnpauseOK
  BY DEF Init, UnpauseOK
<1>2. KeepsDictation =>
        (paused = "dictation" /\ paused' # "dictation" =>
           \E c \in Callers :
             \/ "resume" \in OpsOf[c] /\ cpc[c] = "idle" /\ cpc'[c] = "wake"
             \/ "clear" \in OpsOf[c] /\ cpc[c] = "unpause" /\ cpc'[c] = "bump")
  BY DEF KeepsDictation, Lifts
<1> QED
  BY <1>1, <1>2, UnpauseStep, TypeCorrect, PTL DEF Spec, DictationHolds

-----------------------------------------------------------------------------
(* The first cancellation decides.  A claim is hit first by the step that  *)
(* moves the generation on from its snapshot.  The intent of that step is  *)
(* on its way, with the thread that made it, or in the map under the       *)
(* claim's generation; either way it agrees with the history, and no later *)
(* cancellation has that number, whatever the map has dropped by then.     *)

\* The worker is past its snapshot and not yet past its claim.
Claiming == wpc \notin {"lock", "asleep", "release"}

Agrees(requeue) ==
  wHit \in (IF requeue THEN {"pause", "pauseThenHard"} ELSE {"hard"})

\* Generations are recorded after they have passed.
Passing ==
  /\ \A g \in DOMAIN cancelKind : g < generation
  /\ \A c \in Callers : cpc[c] = "kind" => cGen[c] < generation

FirstHit ==
  /\ wpc \in {"lock", "asleep"} => wHit = "none"
  /\ Claiming =>
       /\ wGen <= generation
       /\ wGen = generation => wHit = "none"
       /\ wGen \in DOMAIN cancelKind => Agrees(cancelKind[wGen])
       /\ \A c \in Callers : cpc[c] = "kind" /\ cGen[c] = wGen => Agrees(cRequeue[c])

IntentOK == Passing /\ FirstHit

\* What an unwinding worker finds on record is what it does.
Decides ==
  wpc = "settle" /\ wGen \in DOMAIN cancelKind
    => /\ wpc' = "release" => wHit # "pause"
       /\ wpc' = "requeue" => wHit # "hard"

\* A recording adds one intent to those in the map, or to some of them.
LEMMA WithKindEntries ==
  ASSUME NEW kinds, NEW gen, NEW requeue, NEW g \in DOMAIN WithKind(kinds, gen, requeue)
  PROVE  IF g = gen THEN WithKind(kinds, gen, requeue)[g] = requeue
         ELSE g \in DOMAIN kinds /\ WithKind(kinds, gen, requeue)[g] = kinds[g]
<1> DEFINE all == [h \in DOMAIN kinds \cup {gen} |->
                     IF h = gen THEN requeue ELSE kinds[h]]
           kept == IF Cardinality(DOMAIN all) <= CancelKindCap THEN DOMAIN all
                   ELSE {h \in DOMAIN all : \E k \in DOMAIN all : k < h}
<1>1. DOMAIN all = DOMAIN kinds \cup {gen}
      /\ \A h \in DOMAIN all : all[h] = IF h = gen THEN requeue ELSE kinds[h]
  OBVIOUS
<1> HIDE DEF all
<1>2. kept \subseteq DOMAIN all OBVIOUS
<1> HIDE DEF kept
<1>3. WithKind(kinds, gen, requeue) = [h \in kept |-> all[h]]
  BY DEF WithKind, kept, all
<1> QED BY <1>1, <1>2, <1>3

\* Steps that neither cancel nor begin or end a claim.
LEMMA QuietStep ==
  ASSUME IntentOK, UNCHANGED <<generation, wGen, wHit>>,
         cancelKind' = cancelKind \/ (Claiming /\ cancelKind' = Without1(cancelKind, wGen)),
         \A c \in Callers : cpc'[c] = "kind" =>
            cpc[c] = "kind" /\ cGen'[c] = cGen[c] /\ cRequeue'[c] = cRequeue[c],
         wpc' \in {"lock", "asleep"} => wpc \in {"lock", "asleep"},
         Claiming' => Claiming
  PROVE  IntentOK'
<1>1. \A g \in DOMAIN cancelKind' : g \in DOMAIN cancelKind /\ cancelKind'[g] = cancelKind[g]
  BY DEF Without1
<1>2. Passing' BY <1>1 DEF IntentOK, Passing
<1>3. FirstHit' BY <1>1 DEF IntentOK, FirstHit, Agrees
<1> QED BY <1>2, <1>3 DEF IntentOK

LEMMA WorkerIntentStep ==
  ASSUME TypeOK, IntentOK, WorkerNext
  PROVE  IntentOK' /\ Decides
<1> USE DEF Claiming, Decides, cancelVars, workerVars, callerVars, callersIdle
<1>1. CASE WorkerSnapshot
  <2>1. /\ wpc = "lock" /\ wpc' = "check" /\ wGen' = generation
        /\ UNCHANGED <<cancelVars, callerVars, wHit>>
    BY <1>1 DEF WorkerSnapshot
  <2>2. generation \in Nat BY DEF TypeOK, CancelTypes
  <2> QED BY <2>1, <2>2 DEF IntentOK, Passing, FirstHit
<1>2. CASE WorkerCheck BY <1>2, QuietStep DEF WorkerCheck
<1>3. CASE WorkerTake BY <1>3, QuietStep DEF WorkerTake
<1>4. CASE WorkerSleep
  BY <1>4 DEF WorkerSleep, IntentOK, Passing, FirstHit
<1>5. CASE WorkerHold BY <1>5, QuietStep DEF WorkerHold
<1>6. CASE WorkerPassGate BY <1>6, QuietStep DEF WorkerPassGate
<1>7. CASE WorkerResolve BY <1>7, QuietStep DEF WorkerResolve
<1>8. CASE WorkerAwait BY <1>8, QuietStep DEF WorkerAwait
<1>9. CASE WorkerActivate BY <1>9, QuietStep DEF WorkerActivate
<1>10. CASE WorkerSpeak BY <1>10, QuietStep DEF WorkerSpeak
<1>11. CASE WorkerSpoken BY <1>11, QuietStep DEF WorkerSpoken
<1>12. CASE WorkerSpeakFails BY <1>12, QuietStep DEF WorkerSpeakFails
<1>13. CASE WorkerCue BY <1>13, QuietStep DEF WorkerCue
<1>14. CASE WorkerCueEnds BY <1>14, QuietStep DEF WorkerCueEnds
<1>15. CASE WorkerTrailer BY <1>15, QuietStep DEF WorkerTrailer
<1>16. CASE WorkerSettle
  <2>1. IntentOK' BY <1>16, QuietStep DEF WorkerSettle
  <2>2. Decides
    <3> SUFFICES ASSUME wGen \in DOMAIN cancelKind
                 PROVE  /\ wpc' = "release" => wHit # "pause"
                        /\ wpc' = "requeue" => wHit # "hard"
      OBVIOUS
    <3>1. wpc = "settle" /\ wpc' = IF Requeues THEN "requeue" ELSE "release"
      BY <1>16 DEF WorkerSettle
    <3>2. Requeues = cancelKind[wGen] BY DEF Requeues
    <3>3. Agrees(cancelKind[wGen]) BY <3>1 DEF IntentOK, FirstHit
    <3> QED BY <3>1, <3>2, <3>3 DEF Agrees
  <2> QED BY <2>1, <2>2
<1>17. CASE WorkerRequeue BY <1>17, QuietStep DEF WorkerRequeue
<1>18. CASE WorkerRelease
  BY <1>18 DEF WorkerRelease, IntentOK, Passing, FirstHit
<1> QED
  BY <1>1, <1>2, <1>3, <1>4, <1>5, <1>6, <1>7, <1>8, <1>9, <1>10, <1>11, <1>12,
     <1>13, <1>14, <1>15, <1>16, <1>17, <1>18 DEF WorkerNext

\* The bump that moves the generation on from the claim's is its first hit.
LEMMA BumpStep ==
  ASSUME TypeOK, IntentOK, NEW c \in Callers, Bump(c)
  PROVE  IntentOK'
<1>1. /\ generation' = generation + 1 /\ cGen' = [cGen EXCEPT ![c] = generation]
      /\ cpc' = [cpc EXCEPT ![c] = "kind"] /\ wHit' = HitBy(cRequeue[c])
      /\ UNCHANGED <<cancelKind, wpc, wGen, cRequeue>>
  BY DEF Bump, Goto, workerVars
<1>2. /\ generation \in Nat /\ wGen \in Nat /\ DOMAIN cancelKind \subseteq Nat
      /\ cpc \in [Callers -> CallerPcs] /\ cGen \in [Callers -> Nat]
      /\ cRequeue[c] \in BOOLEAN
  BY DEF TypeOK, CancelTypes, WorkerTypes, CallerTypes
<1>3. Passing'
  BY <1>1, <1>2 DEF IntentOK, Passing
<1>4. ASSUME Claiming, NEW requeue, Agrees(requeue) PROVE Agrees(requeue)'
  BY <1>1, <1>4 DEF Agrees, HitBy
<1>5. ASSUME Claiming, wGen = generation PROVE Agrees(cRequeue[c])'
  <2>1. wHit = "none" BY <1>5 DEF IntentOK, FirstHit
  <2> QED BY <1>1, <1>5, <2>1 DEF Agrees, HitBy, Claiming
<1>6. FirstHit'
  <2>1. wpc' \in {"lock", "asleep"} => wHit' = "none"
    BY <1>1 DEF IntentOK, FirstHit, HitBy
  <2>2. ASSUME Claiming'
        PROVE  /\ wGen' <= generation' /\ wGen' # generation'
               /\ wGen' \in DOMAIN cancelKind' => Agrees(cancelKind[wGen])'
    BY <1>1, <1>2, <1>4, <2>2 DEF IntentOK, FirstHit, Claiming
  <2>3. ASSUME Claiming', NEW d \in Callers, cpc'[d] = "kind", cGen'[d] = wGen'
        PROVE  Agrees(cRequeue[d])'
    <3>1. CASE d = c BY <1>1, <1>2, <1>5, <2>3, <3>1 DEF Claiming
    <3>2. CASE d # c
      <4>1. cpc[d] = "kind" /\ cGen[d] = wGen /\ Claiming
        BY <1>1, <1>2, <2>3, <3>2 DEF Claiming
      <4>2. Agrees(cRequeue[d]) BY <4>1 DEF IntentOK, FirstHit
      <4> QED BY <1>1, <1>4, <4>1, <4>2
    <3> QED BY <3>1, <3>2
  <2> QED BY <2>1, <2>2, <2>3 DEF FirstHit
<1> QED BY <1>3, <1>6 DEF IntentOK

LEMMA RecordStep ==
  ASSUME TypeOK, IntentOK, NEW c \in Callers, RecordKind(c)
  PROVE  IntentOK'
<1>1. /\ cpc[c] = "kind" /\ cpc' = [cpc EXCEPT ![c] = "fade"]
      /\ cancelKind' = WithKind(cancelKind, cGen[c], cRequeue[c])
      /\ UNCHANGED <<generation, wpc, wGen, wHit, cGen, cRequeue>>
  BY DEF RecordKind, Goto, workerVars
<1>2. cpc \in [Callers -> CallerPcs] BY DEF TypeOK, CallerTypes
<1>3. \A g \in DOMAIN cancelKind' :
         IF g = cGen[c] THEN cancelKind'[g] = cRequeue[c]
         ELSE g \in DOMAIN cancelKind /\ cancelKind'[g] = cancelKind[g]
  BY <1>1, WithKindEntries
<1>4. \A d \in Callers : cpc'[d] = "kind" => cpc[d] = "kind" BY <1>1, <1>2
<1>5. Passing' BY <1>1, <1>3, <1>4 DEF IntentOK, Passing
<1>6. FirstHit' BY <1>1, <1>3, <1>4 DEF IntentOK, FirstHit, Agrees, Claiming
<1> QED BY <1>5, <1>6 DEF IntentOK

\* A thread's other steps; a notify wakes the worker, nothing more.
LEMMA CallerIntentStep ==
  ASSUME TypeOK, IntentOK, NEW c \in Callers,
         \/ CallerStarts(c) \/ CallerContinues(c)
         \/ \E t \in Targets : SubmitOther(c, t)
  PROVE  IntentOK'
<1>0. /\ cpc \in [Callers -> CallerPcs] /\ cGen \in [Callers -> Nat]
      /\ cRequeue \in [Callers -> BOOLEAN]
  BY DEF TypeOK, CallerTypes
<1>a. ASSUME UNCHANGED <<generation, cancelKind, wGen, wHit>>, cpc'[c] # "kind",
             \A d \in Callers \ {c} :
               cpc'[d] = cpc[d] /\ cGen'[d] = cGen[d] /\ cRequeue'[d] = cRequeue[d],
             wpc' \in {wpc, Notified}
      PROVE  IntentOK'
  <2>1. \A d \in Callers : cpc'[d] = "kind" =>
          cpc[d] = "kind" /\ cGen'[d] = cGen[d] /\ cRequeue'[d] = cRequeue[d]
    BY <1>a
  <2> QED BY <1>a, <2>1, QuietStep DEF Notified, Claiming
<1>b. ASSUME NEW dropped, NEW hit, NEW other, Sweep(c, dropped, hit, other)
      PROVE  IntentOK'
  BY <1>0, <1>a, <1>b DEF Sweep, Goto, cancelVars, workerVars
<1>1. ASSUME NEW cause \in {"dictation", "barge"}, Pause(c, cause)
      PROVE  IntentOK'
  BY <1>0, <1>1, <1>a DEF Pause, Goto, workerVars
<1>2. ASSUME NEW op, Resume(c, op)
      PROVE  IntentOK'
  BY <1>0, <1>2, <1>a DEF Resume, Goto, workerVars
<1>3. CASE Skip(c)
  BY <1>0, <1>a, <1>3 DEF Skip, Goto, cancelVars, workerVars
<1>4. CASE Clear(c)
  BY <1>0, <1>a, <1>4 DEF Clear, Goto, cancelVars, workerVars
<1>5. ASSUME NEW t \in Targets, ClearSession(c, t)
      PROVE  IntentOK'
  BY <1>5, <1>b DEF ClearSession
<1>6. ASSUME NEW t \in Targets, SetActive(c, t)
      PROVE  IntentOK'
  BY <1>0, <1>a, <1>6 DEF SetActive, cancelVars, callerVars
<1>7. ASSUME NEW t \in Targets, NEW o \in Targets \cup {NoSession},
             SubmitCurrent(c, t, o)
      PROVE  IntentOK'
  BY <1>7, <1>b DEF SubmitCurrent
<1>8. CASE Bump(c) BY <1>8, BumpStep
<1>9. CASE RecordKind(c) BY <1>9, RecordStep
<1>10. CASE Fade(c)
  BY <1>0, <1>a, <1>10 DEF Fade, Goto, cancelVars
<1>11. CASE ClearUnpause(c)
  BY <1>0, <1>a, <1>11 DEF ClearUnpause, Goto, workerVars
<1>12. CASE RecordDiscarded(c)
  BY <1>0, <1>a, <1>12 DEF RecordDiscarded, Goto, cancelVars
<1>13. CASE Wake(c)
  BY <1>0, <1>a, <1>13 DEF Wake, Goto, cancelVars
<1>14. ASSUME NEW t \in Targets, SubmitOther(c, t)
       PROVE  IntentOK'
  BY <1>14, <1>b DEF SubmitOther, SweepOthers
<1> QED
  BY <1>1, <1>2, <1>3, <1>4, <1>5, <1>6, <1>7, <1>8, <1>9, <1>10, <1>11, <1>12,
     <1>13, <1>14 DEF CallerStarts, CallerContinues

LEMMA IntentStep == TypeOK /\ IntentOK /\ [Next]_vars => IntentOK'
<1> SUFFICES ASSUME TypeOK, IntentOK, [Next]_vars PROVE IntentOK'
  OBVIOUS
<1> USE DEF cancelVars, workerVars, callerVars
<1>1. CASE UNCHANGED vars
  BY <1>1, QuietStep DEF vars, Claiming
<1>2. ASSUME NEW i \in Items, Enqueue(i)
      PROVE  IntentOK'
  BY <1>2, QuietStep DEF Enqueue, Notified, Claiming
<1>3. ASSUME NEW gate \in Gates, ToggleHold(gate)
      PROVE  IntentOK'
  BY <1>3, QuietStep DEF ToggleHold, Claiming
<1> QED
  BY <1>1, <1>2, <1>3, WorkerIntentStep, CallerIntentStep DEF Next, Environment

\* Only the worker settles.
LEMMA CallersDoNotSettle ==
  ASSUME wpc = "settle", NEW c \in Callers,
         \/ CallerStarts(c) \/ CallerContinues(c)
         \/ \E t \in Targets : SubmitOther(c, t)
  PROVE  wpc' = "settle"
<1>0. Notified = "settle" BY DEF Notified
<1> USE <1>0 DEF workerVars
<1>b. ASSUME NEW dropped, NEW hit, NEW other, Sweep(c, dropped, hit, other)
      PROVE  wpc' = "settle"
  BY <1>b DEF Sweep
<1>1. ASSUME NEW cause \in {"dictation", "barge"}, Pause(c, cause)
      PROVE  wpc' = "settle"
  BY <1>1 DEF Pause
<1>2. ASSUME NEW op, Resume(c, op)
      PROVE  wpc' = "settle"
  BY <1>2 DEF Resume
<1>3. CASE Skip(c) BY <1>3 DEF Skip
<1>4. CASE Clear(c) BY <1>4 DEF Clear
<1>5. ASSUME NEW t \in Targets, ClearSession(c, t) \/ SetActive(c, t)
      PROVE  wpc' = "settle"
  BY <1>5, <1>b DEF ClearSession, SetActive
<1>6. ASSUME NEW t \in Targets, NEW o \in Targets \cup {NoSession},
             SubmitCurrent(c, t, o)
      PROVE  wpc' = "settle"
  BY <1>6, <1>b DEF SubmitCurrent
<1>7. CASE Bump(c) BY <1>7 DEF Bump
<1>8. CASE RecordKind(c) BY <1>8 DEF RecordKind
<1>9. CASE Fade(c) BY <1>9 DEF Fade
<1>10. CASE ClearUnpause(c) BY <1>10 DEF ClearUnpause
<1>11. CASE RecordDiscarded(c) BY <1>11 DEF RecordDiscarded
<1>12. CASE Wake(c) BY <1>12 DEF Wake
<1>13. ASSUME NEW t \in Targets, SubmitOther(c, t)
       PROVE  wpc' = "settle"
  BY <1>13, <1>b DEF SubmitOther, SweepOthers
<1> QED
  BY <1>1, <1>2, <1>3, <1>4, <1>5, <1>6, <1>7, <1>8, <1>9, <1>10, <1>11, <1>12,
     <1>13 DEF CallerStarts, CallerContinues

LEMMA OthersDoNotSettle ==
  ASSUME wpc = "settle", [Next]_vars, ~WorkerNext
  PROVE  wpc' = "settle"
<1>1. CASE UNCHANGED vars BY <1>1 DEF vars, workerVars
<1>2. CASE Environment
  BY <1>2 DEF Environment, Enqueue, ToggleHold, Notified, workerVars
<1> QED BY <1>1, <1>2, CallersDoNotSettle DEF Next

\* Once the intent of the cancellation that first hit a claim is on record, it
\* decides: hit by a pause the item is not thrown away, hit by a hard cancel it
\* does not return, whatever lands before the worker settles (record_cancel_kind,
\* requeue_if_resuming).
THEOREM RecordedDecides == Spec => RecordedIntentDecides
<1>1. Init => IntentOK
  BY DEF Init, IntentOK, Passing, FirstHit, Claiming
<1>2. ASSUME TypeOK, IntentOK, [Next]_vars PROVE Decides
  BY <1>2, WorkerIntentStep, OthersDoNotSettle DEF Decides
<1>3. Decides =>
        (wpc = "settle" /\ wGen \in DOMAIN cancelKind
           => /\ wpc' = "release" => wHit # "pause"
              /\ wpc' = "requeue" => wHit # "hard")
  BY DEF Decides
<1> QED
  BY <1>1, <1>2, <1>3, IntentStep, TypeCorrect, PTL DEF Spec, RecordedIntentDecides

-----------------------------------------------------------------------------
(* No wakeup is lost where nobody clears.                                  *)

\* A clear notifies without the items lock, and may do so between the worker's
\* check and its wait.
NobodyClears == \A c \in Callers : "clear" \notin OpsOf[c]

\* The worker has found nothing to claim; whoever has made that untrue since
\* will notify, and has to wait for the lock to do so.
Parked == wpc \in {"park", "asleep"} /\ items # <<>> /\ paused = "no"

WakeComes == /\ \A c \in Callers : cpc[c] # "unpause"
             /\ Parked => \E c \in Callers : cpc[c] = "wake"

\* A step that gives the worker nothing to claim and leaves the notifiers alone.
LEMMA NoNewWork ==
  ASSUME WakeComes, UNCHANGED paused, items' # <<>> => items # <<>>,
         wpc' \in {"park", "asleep"} => wpc \in {"park", "asleep"},
         \A c \in Callers : /\ cpc[c] = "wake" => cpc'[c] = "wake"
                            /\ cpc'[c] = "unpause" => cpc[c] = "unpause"
  PROVE  WakeComes'
BY DEF WakeComes, Parked

LEMMA SweepLeavesLess ==
  ASSUME items \in Seq(Items), NEW dropped, Without(items, dropped) # <<>>
  PROVE  items # <<>>
<1> SUFFICES ASSUME items = <<>> PROVE FALSE OBVIOUS
<1>1. Without(items, dropped) \in Seq(Items)
      /\ Queued(Without(items, dropped)) = Queued(items) \ dropped
  BY WithoutProperties
<1>2. Queued(items) = {} BY DEF Queued
<1>3. 1 \in DOMAIN Without(items, dropped) BY <1>1
<1> QED BY <1>1, <1>2, <1>3 DEF Queued

LEMMA WorkerWakeStep ==
  ASSUME LockOK, WakeComes, WorkerNext
  PROVE  WakeComes'
<1> USE DEF queueVars, cancelVars, workerVars, callerVars, callersIdle
<1>1. CASE WorkerSnapshot BY <1>1, NoNewWork DEF WorkerSnapshot
<1>2. CASE WorkerCheck BY <1>2 DEF WorkerCheck, WakeComes, Parked
<1>3. CASE WorkerTake BY <1>3 DEF WorkerTake, WakeComes, Parked
<1>4. CASE WorkerSleep BY <1>4, NoNewWork DEF WorkerSleep
<1>5. CASE WorkerHold BY <1>5, NoNewWork DEF WorkerHold
<1>6. CASE WorkerPassGate BY <1>6, NoNewWork DEF WorkerPassGate
<1>7. CASE WorkerResolve BY <1>7, NoNewWork DEF WorkerResolve
<1>8. CASE WorkerAwait BY <1>8, NoNewWork DEF WorkerAwait
<1>9. CASE WorkerActivate BY <1>9, NoNewWork DEF WorkerActivate
<1>10. CASE WorkerSpeak BY <1>10, NoNewWork DEF WorkerSpeak
<1>11. CASE WorkerSpoken BY <1>11, NoNewWork DEF WorkerSpoken
<1>12. CASE WorkerSpeakFails BY <1>12, NoNewWork DEF WorkerSpeakFails
<1>13. CASE WorkerCue BY <1>13, NoNewWork DEF WorkerCue
<1>14. CASE WorkerCueEnds BY <1>14, NoNewWork DEF WorkerCueEnds
<1>15. CASE WorkerTrailer BY <1>15, NoNewWork DEF WorkerTrailer
<1>16. CASE WorkerSettle BY <1>16, NoNewWork DEF WorkerSettle
<1>17. CASE WorkerRequeue BY <1>17 DEF WorkerRequeue, WakeComes, Parked
<1>18. CASE WorkerRelease BY <1>18, NoNewWork DEF WorkerRelease
<1> QED
  BY <1>1, <1>2, <1>3, <1>4, <1>5, <1>6, <1>7, <1>8, <1>9, <1>10, <1>11, <1>12,
     <1>13, <1>14, <1>15, <1>16, <1>17, <1>18 DEF WorkerNext

LEMMA CallerWakeStep ==
  ASSUME NobodyClears, TypeOK, LockOK, WakeComes, NEW c \in Callers,
         \/ CallerStarts(c) \/ CallerContinues(c)
         \/ \E t \in Targets : SubmitOther(c, t)
  PROVE  WakeComes'
<1>0. /\ cpc \in [Callers -> CallerPcs] /\ items \in Seq(Items)
      /\ "clear" \notin OpsOf[c] /\ Free # Worker
  BY TtsQueueAssumption DEF TypeOK, CallerTypes, QueueTypes, NobodyClears, TtsQueueAssumption
<1>a. Notified \in {"park", "asleep"} => wpc = "park"
  BY DEF Notified
<1>b. ASSUME NEW dropped, NEW hit, NEW other, Sweep(c, dropped, hit, other),
             cpc[c] # "wake"
      PROVE  WakeComes'
  BY <1>0, <1>b, SweepLeavesLess, NoNewWork DEF Sweep, Goto, cancelVars, workerVars
<1> USE DEF Goto, queueVars, cancelVars, workerVars, callerVars
<1>1. ASSUME NEW cause \in {"dictation", "barge"}, Pause(c, cause)
      PROVE  WakeComes'
  <2>1. paused' # "no" BY <1>1 DEF Pause, PausedBy
  <2> QED BY <1>0, <1>1, <2>1 DEF Pause, WakeComes, Parked
<1>2. ASSUME NEW op, Resume(c, op)
      PROVE  WakeComes'
  <2>1. cpc'[c] = "wake" /\ \A d \in Callers \ {c} : cpc'[d] = cpc[d]
    BY <1>0, <1>2 DEF Resume
  <2> QED BY <2>1 DEF WakeComes
<1>3. CASE Skip(c) BY <1>0, <1>3, NoNewWork DEF Skip, CanStart
<1>4. CASE Clear(c) BY <1>0, <1>4 DEF Clear, CanStart
<1>5. ASSUME NEW t \in Targets, ClearSession(c, t)
      PROVE  WakeComes'
  BY <1>5, <1>b DEF ClearSession, CanStart
<1>6. ASSUME NEW t \in Targets, SetActive(c, t)
      PROVE  WakeComes'
  BY <1>6, <1>a, NoNewWork DEF SetActive
<1>7. ASSUME NEW t \in Targets, NEW o \in Targets \cup {NoSession},
             SubmitCurrent(c, t, o)
      PROVE  WakeComes'
  BY <1>7, <1>b DEF SubmitCurrent, CanStart
<1>8. CASE Bump(c) BY <1>0, <1>8, NoNewWork DEF Bump
<1>9. CASE RecordKind(c) BY <1>0, <1>9, NoNewWork DEF RecordKind
<1>10. CASE Fade(c) BY <1>0, <1>10, <1>a, NoNewWork DEF Fade
<1>11. CASE ClearUnpause(c) BY <1>11 DEF ClearUnpause, WakeComes
<1>12. CASE RecordDiscarded(c)
  BY <1>0, <1>12, <1>a, NoNewWork DEF RecordDiscarded
<1>13. CASE Wake(c)
  <2>1. wpc' \notin {"park", "asleep"}
    BY <1>0, <1>13 DEF Wake, Notified, LockOK
  <2> QED BY <1>0, <1>13, <2>1 DEF Wake, WakeComes, Parked
<1>14. ASSUME NEW t \in Targets, SubmitOther(c, t)
       PROVE  WakeComes'
  BY <1>14, <1>b DEF SubmitOther, SweepOthers, CanStart
<1> QED
  BY <1>1, <1>2, <1>3, <1>4, <1>5, <1>6, <1>7, <1>8, <1>9, <1>10, <1>11, <1>12,
     <1>13, <1>14 DEF CallerStarts, CallerContinues

LEMMA WakeStep ==
  ASSUME NobodyClears
  PROVE  TypeOK /\ LockOK /\ WakeComes /\ [Next]_vars => WakeComes'
<1> SUFFICES ASSUME TypeOK, LockOK, WakeComes, [Next]_vars PROVE WakeComes'
  OBVIOUS
<1> USE DEF queueVars, cancelVars, workerVars, callerVars
<1>1. CASE UNCHANGED vars BY <1>1, NoNewWork DEF vars
<1>2. ASSUME NEW i \in Items, Enqueue(i)
      PROVE  WakeComes'
  <2>1. wpc' \notin {"park", "asleep"}
    BY <1>2, TtsQueueAssumption DEF Enqueue, Notified, LockOK, TtsQueueAssumption
  <2> QED BY <1>2, <2>1 DEF Enqueue, WakeComes, Parked
<1>3. ASSUME NEW gate \in Gates, ToggleHold(gate)
      PROVE  WakeComes'
  BY <1>3, NoNewWork DEF ToggleHold
<1> QED
  BY <1>1, <1>2, <1>3, WorkerWakeStep, CallerWakeStep DEF Next, Environment

\* No wakeup is lost as long as nobody clears: whatever pauses, resumes, skips,
\* submits and session ends race with the worker, it does not sleep beside work
\* that nobody is about to wake it for (Condvar under items; the lock around the
\* notify in resume).
THEOREM NothingStranded == ASSUME NobodyClears PROVE Spec => []NoStrandedWork
<1>1. Init => LockOK /\ DropOK
  BY TtsQueueAssumption DEF Init, LockOK, DropOK, TtsQueueAssumption
<1>2. Init => WakeComes
  BY DEF Init, WakeComes, Parked
<1>3. WakeComes => NoStrandedWork
  BY DEF WakeComes, Parked, NoStrandedWork
<1> QED
  BY <1>1, <1>2, <1>3, LockStep, WakeStep, TypeCorrect, PTL DEF Spec
-----------------------------------------------------------------------------
(* Which fades can truncate a stream that nobody has cancelled.            *)

\* A cancellation that holds the items lock from its look at the claim to its
\* fade keeps the worker from the next claim meanwhile.
LockedOK ==
  \A c \in Callers :
    lock = c /\ cpc[c] \in {"kind", "fade"} /\ wpc \in HandPcs => Cancelled

LEMMA WorkerLockedStep ==
  ASSUME TypeOK, LockOK, LockedOK, WorkerNext
  PROVE  LockedOK'
<1>0. Worker \notin Callers /\ Free \notin Callers /\ Free # Worker
  BY TtsQueueAssumption DEF TtsQueueAssumption
<1> USE <1>0 DEF LockedOK, LockOK, Cancelled, HandPcs, queueVars, cancelVars,
            statusVars, workerVars, callerVars, callersIdle
<1>1. CASE WorkerSnapshot BY <1>1 DEF WorkerSnapshot
<1>2. CASE WorkerCheck BY <1>2 DEF WorkerCheck
<1>3. CASE WorkerTake BY <1>3 DEF WorkerTake
<1>4. CASE WorkerSleep BY <1>4 DEF WorkerSleep
<1>5. CASE WorkerHold BY <1>5 DEF WorkerHold
<1>6. CASE WorkerPassGate BY <1>6 DEF WorkerPassGate
<1>7. CASE WorkerResolve BY <1>7 DEF WorkerResolve
<1>8. CASE WorkerAwait BY <1>8 DEF WorkerAwait
<1>9. CASE WorkerActivate BY <1>9 DEF WorkerActivate
<1>10. CASE WorkerSpeak BY <1>10 DEF WorkerSpeak
<1>11. CASE WorkerSpoken BY <1>11 DEF WorkerSpoken
<1>12. CASE WorkerSpeakFails BY <1>12 DEF WorkerSpeakFails
<1>13. CASE WorkerCue BY <1>13 DEF WorkerCue
<1>14. CASE WorkerCueEnds BY <1>14 DEF WorkerCueEnds
<1>15. CASE WorkerTrailer BY <1>15 DEF WorkerTrailer
<1>16. CASE WorkerSettle BY <1>16 DEF WorkerSettle
<1>17. CASE WorkerRequeue BY <1>17 DEF WorkerRequeue
<1>18. CASE WorkerRelease BY <1>18 DEF WorkerRelease
<1> QED
  BY <1>1, <1>2, <1>3, <1>4, <1>5, <1>6, <1>7, <1>8, <1>9, <1>10, <1>11, <1>12,
     <1>13, <1>14, <1>15, <1>16, <1>17, <1>18 DEF WorkerNext

\* A thread whose step advances no generation and is not on its way to a fade.
LEMMA OtherLockedStep ==
  ASSUME TypeOK, LockOK, LockedOK, NEW c \in Callers,
         UNCHANGED <<generation, wGen>>,
         wpc' \in {wpc, Notified},
         \A d \in Callers \ {c} : cpc'[d] = cpc[d] /\ (lock' = d => lock = d),
         cpc'[c] \in {"kind", "fade"} => cpc[c] \in {"kind", "fade"},
         lock' = c /\ cpc'[c] \in {"kind", "fade"} => lock = c
  PROVE  LockedOK'
<1>1. wpc' \in HandPcs => wpc \in HandPcs
  BY DEF Notified, HandPcs
<1> QED BY <1>1 DEF LockedOK, Cancelled

LEMMA CallerLockedStep ==
  ASSUME TypeOK, PauseSeen, LockOK, LockedOK, NEW c \in Callers,
         \/ CallerStarts(c) \/ CallerContinues(c)
         \/ \E t \in Targets : SubmitOther(c, t)
  PROVE  LockedOK'
<1>0. /\ cpc \in [Callers -> CallerPcs]
      /\ Worker \notin Callers /\ Free \notin Callers
  BY TtsQueueAssumption DEF TypeOK, CallerTypes, TtsQueueAssumption
<1>a. ASSUME NEW dropped, NEW hit, NEW other, Sweep(c, dropped, hit, other)
      PROVE  LockedOK'
  BY <1>0, <1>a, OtherLockedStep DEF Sweep, Goto, cancelVars, workerVars
<1> USE DEF Goto, queueVars, cancelVars, statusVars, workerVars, callerVars
<1>1. ASSUME NEW cause \in {"dictation", "barge"}, Pause(c, cause)
      PROVE  LockedOK'
  BY <1>0, <1>1, OtherLockedStep DEF Pause
<1>2. ASSUME NEW op, Resume(c, op)
      PROVE  LockedOK'
  BY <1>0, <1>2, OtherLockedStep DEF Resume
<1>3. CASE Skip(c) BY <1>0, <1>3, OtherLockedStep DEF Skip
<1>4. CASE Clear(c) BY <1>0, <1>4, OtherLockedStep DEF Clear
<1>5. ASSUME NEW t \in Targets, ClearSession(c, t)
      PROVE  LockedOK'
  BY <1>5, <1>a DEF ClearSession
<1>6. ASSUME NEW t \in Targets, SetActive(c, t)
      PROVE  LockedOK'
  BY <1>0, <1>6, OtherLockedStep DEF SetActive
<1>7. ASSUME NEW t \in Targets, NEW o \in Targets \cup {NoSession},
             SubmitCurrent(c, t, o)
      PROVE  LockedOK'
  BY <1>7, <1>a DEF SubmitCurrent
<1>8. CASE Bump(c)
  <2>1. generation' # wGen'
    BY <1>8 DEF Bump, TypeOK, CancelTypes, WorkerTypes, PauseSeen
  <2> QED BY <2>1 DEF LockedOK, Cancelled
<1>9. CASE RecordKind(c) BY <1>0, <1>9, OtherLockedStep DEF RecordKind
<1>10. CASE Fade(c) BY <1>0, <1>10, OtherLockedStep DEF Fade
<1>11. CASE ClearUnpause(c) BY <1>0, <1>11, OtherLockedStep DEF ClearUnpause
<1>12. CASE RecordDiscarded(c) BY <1>0, <1>12, OtherLockedStep DEF RecordDiscarded
<1>13. CASE Wake(c) BY <1>0, <1>13, OtherLockedStep DEF Wake
<1>14. ASSUME NEW t \in Targets, SubmitOther(c, t)
       PROVE  LockedOK'
  BY <1>14, <1>a DEF SubmitOther, SweepOthers
<1> QED
  BY <1>1, <1>2, <1>3, <1>4, <1>5, <1>6, <1>7, <1>8, <1>9, <1>10, <1>11, <1>12,
     <1>13, <1>14 DEF CallerStarts, CallerContinues

LEMMA LockedStep ==
  TypeOK /\ PauseSeen /\ LockOK /\ LockedOK /\ [Next]_vars => LockedOK'
<1> SUFFICES ASSUME TypeOK, PauseSeen, LockOK, LockedOK, [Next]_vars
             PROVE  LockedOK'
  OBVIOUS
<1> USE DEF LockedOK, Cancelled, queueVars, cancelVars, workerVars, callerVars
<1>1. CASE UNCHANGED vars BY <1>1 DEF vars
<1>2. ASSUME NEW i \in Items, Enqueue(i)
      PROVE  LockedOK'
  BY <1>2 DEF Enqueue, Notified, HandPcs
<1>3. ASSUME NEW gate \in Gates, ToggleHold(gate)
      PROVE  LockedOK'
  BY <1>3 DEF ToggleHold
<1> QED
  BY <1>1, <1>2, <1>3, WorkerLockedStep, CallerLockedStep DEF Next, Environment

\* A fade that reaches the helper while it plays an item nobody has cancelled.
CutsTheInnocent(c) == cpc[c] = "fade" /\ audio = "speaking" /\ ~Cancelled

\* Such a fade is the late one of a thread that does not hold the items lock, and
\* comes while the queue is not paused, or while another pause is under way: a
\* skip, a clear, or a pause that was lifted before its own fade.  A session end
\* and a submit never cut another item than the one they cancel, and no fade does
\* behind a complete pause (clear_session, cancel_for_submit, pause_with_cause).
FadesAreAimed ==
  \A c \in Callers : CutsTheInnocent(c) =>
    /\ lock # c
    /\ paused = "no" \/ \E d \in Callers : Pausing(d)

THEOREM LateFadesAreUnlocked == Spec => []FadesAreAimed
<1>1. Init => LockOK /\ DropOK /\ PauseSeen /\ HeardOK /\ LockedOK
  BY TtsQueueAssumption
     DEF Init, LockOK, DropOK, PauseSeen, HeardOK, LockedOK, HandPcs,
         TtsQueueAssumption
<1>2. PauseSeen /\ HeardOK /\ LockedOK => FadesAreAimed
  BY DEF PauseSeen, HeardOK, LockedOK, HandPcs, FadesAreAimed, CutsTheInnocent
<1> QED
  BY <1>1, <1>2, PauseStep, LockStep, HeardStep, LockedStep, TypeCorrect, PTL
     DEF Spec
=============================================================================
