------------------------- MODULE BargeWatcherProofs -------------------------
(***************************************************************************)
(* Theorems about BargeWatcher, for any tick bounds and with no assumption *)
(* about how long a dictation lasts or how late its capture closes: what   *)
(* the grace cannot cover is named in OurMicIsNotForeign itself.           *)
(***************************************************************************)
EXTENDS BargeWatcher, TLAPS

USE BargeWatcherAssumption

\* What a tick can be.
TickOK(tick) == tick.action \in {"none", "pause", "resume"} /\ tick.st \in BargeState

\* Every tick of the watcher is well typed: the counters stay under their
\* bounds (barge_step).
LEMMA StepTypes ==
  ASSUME NEW active \in BOOLEAN, NEW ours \in BOOLEAN, NEW duplex \in BOOLEAN,
         NEW s \in BargeState
  PROVE  TickOK(BargeStep(active, ours, duplex, s))
<1>1. TickOK(StandDown(ours, s))
  BY DEF TickOK, StandDown, Tick, BargeState
<1>2. TickOK(AfterOurs(active, s))
  BY DEF TickOK, AfterOurs, Tick, BargeState
<1>3. TickOK(OnEdge(active, ours, s))
  BY DEF TickOK, OnEdge, Tick, BargeState
<1> QED BY <1>1, <1>2, <1>3 DEF BargeStep

\* A tick forgets a barge only by resuming, and pauses only with a barge to
\* remember.
LEMMA StepOwns ==
  ASSUME NEW active \in BOOLEAN, NEW ours \in BOOLEAN, NEW duplex \in BOOLEAN,
         NEW s \in BargeState
  PROVE  LET tick == BargeStep(active, ours, duplex, s)
         IN  /\ s.barged => tick.st.barged \/ tick.action = "resume"
             /\ tick.action = "pause" => tick.st.barged
<1> DEFINE Owns(tick) == /\ s.barged => tick.st.barged \/ tick.action = "resume"
                         /\ tick.action = "pause" => tick.st.barged
<1>1. Owns(StandDown(ours, s)) BY DEF StandDown, Tick
<1>2. Owns(AfterOurs(active, s)) BY DEF AfterOurs, Tick
<1>3. Owns(OnEdge(active, ours, s)) BY DEF OnEdge, Tick
<1> QED BY <1>1, <1>2, <1>3 DEF BargeStep

-----------------------------------------------------------------------------
(* Types.                                                                  *)

\* The watcher's and the gesture's state is well typed in every behaviour, the
\* tick counters under BARGE_MAX_TICKS and TEARDOWN_GRACE_TICKS.
THEOREM WatcherTypes == Spec => []TypeOK
<1>1. Init => TypeOK
  <2> SUFFICES ASSUME Init PROVE TypeOK OBVIOUS
  <2>1. /\ sttActive \in BOOLEAN /\ foreign \in BOOLEAN
        /\ cleared \in BOOLEAN /\ seen \in BOOLEAN
    BY DEF Init
  <2>4. lag \in 0..(GraceTicks - 1) BY DEF Init
  <2>2. sample \in [active : BOOLEAN, duplex : BOOLEAN, foreign : BOOLEAN, own : BOOLEAN]
    BY DEF Init
  <2>3. st \in BargeState BY DEF Init, BargeState
  <2> QED BY <2>1, <2>2, <2>3, <2>4 DEF Init, TypeOK
<1>2. TypeOK /\ [Next]_vars => TypeOK'
  <2> SUFFICES ASSUME TypeOK, [Next]_vars PROVE TypeOK' OBVIOUS
  <2>1. CASE WatcherSample BY <2>1 DEF TypeOK, WatcherSample
  <2>2. CASE WatcherDecide
    <3>1. TickOK(BargeStep(sample.active, sttActive, sample.duplex, st))
      BY StepTypes DEF TypeOK
    <3> QED BY <2>2, <3>1 DEF TypeOK, WatcherDecide, TickOK
  <2>3. CASE WatcherAct BY <2>3 DEF TypeOK, WatcherAct, BargePause, BargeResume, world
  <2>4. CASE TakeFloor
    <3>1. cleared' \in BOOLEAN BY <2>4 DEF TakeFloor
    <3> QED BY <2>4, <3>1 DEF TypeOK, TakeFloor, world, watcher
  <2>5. CASE StartRecording
    <3>1. sttActive' \in BOOLEAN BY <2>5 DEF StartRecording
    <3>2. sample' \in [active : BOOLEAN, duplex : BOOLEAN, foreign : BOOLEAN, own : BOOLEAN]
      BY <2>5 DEF StartRecording, TypeOK
    <3>3. lag' \in 0..(GraceTicks - 1) BY <2>5 DEF StartRecording
    <3>5. seen' \in BOOLEAN BY <2>5 DEF StartRecording
    <3>4. capture' \in {"closed", "opening", "open"} /\ gesture' = "recording"
      BY <2>5 DEF StartRecording, TypeOK
    <3> QED BY <2>5, <3>1, <3>2, <3>3, <3>4, <3>5 DEF TypeOK, StartRecording
  <2>6. CASE StopRecording
    <3>1. sttActive' \in BOOLEAN BY <2>6 DEF StopRecording
    <3> QED BY <2>6, <3>1 DEF TypeOK, StopRecording, watcher
  <2>7. CASE GiveFloor BY <2>7 DEF TypeOK, GiveFloor, world, watcher
  <2>8. CASE LongPress BY <2>8 DEF TypeOK, LongPress, world, watcher
  <2>9. CASE ClearFloor
    <3>1. cleared' \in BOOLEAN BY <2>9 DEF ClearFloor
    <3> QED BY <3>1, <2>9 DEF TypeOK, ClearFloor, world, watcher
  <2>10. CASE EndAborted
    <3>1. sttActive' \in BOOLEAN BY <2>10 DEF EndAborted
    <3> QED BY <2>10, <3>1 DEF TypeOK, EndAborted, watcher
  <2>11. CASE CaptureOpens BY <2>11 DEF TypeOK, CaptureOpens, watcher
  <2>12. CASE CaptureCloses BY <2>12 DEF TypeOK, CaptureCloses, watcher
  <2>13. CASE ForeignToggles BY <2>13 DEF TypeOK, ForeignToggles, watcher
  <2>14. CASE DuplexToggles BY <2>14 DEF TypeOK, DuplexToggles, watcher
  <2>16. CASE ClearFromOutside
    <3>1. cleared' \in BOOLEAN BY <2>16 DEF ClearFromOutside
    <3> QED BY <2>16, <3>1 DEF TypeOK, ClearFromOutside, world, watcher
  <2>15. CASE UNCHANGED vars BY <2>15 DEF TypeOK, vars, world, watcher
  <2> QED BY <2>1, <2>2, <2>3, <2>4, <2>5, <2>6, <2>7, <2>8, <2>9, <2>10,
             <2>11, <2>12, <2>13, <2>14, <2>15, <2>16 DEF Next, Watch
<1> QED BY <1>1, <1>2, PTL DEF Spec

-----------------------------------------------------------------------------
(* Whose pause it is.                                                      *)

\* A pause that was decided is remembered before it is carried out.
PauseIsMarked == wpc = "act" /\ action = "pause" => st.barged

Floors == FloorIsKept /\ PauseIsOwned /\ PauseIsMarked

\* The steps of the gesture and of the world leave the watcher alone and do
\* not pause for a barge.
LEMMA GestureSteps ==
  ASSUME Floors, [Next]_vars, ~Watch
  PROVE  Floors'
<1> USE DEF Floors, FloorIsKept, PauseIsOwned, PauseIsMarked
<1>1. CASE TakeFloor BY <1>1 DEF TakeFloor, watcher
<1>2. CASE StartRecording BY <1>2 DEF StartRecording
<1>3. CASE StopRecording BY <1>3 DEF StopRecording, watcher
<1>4. CASE GiveFloor BY <1>4 DEF GiveFloor, watcher
<1>5. CASE LongPress BY <1>5 DEF LongPress, watcher
<1>6. CASE ClearFloor BY <1>6 DEF ClearFloor, watcher
<1>7. CASE EndAborted BY <1>7 DEF EndAborted, watcher
<1>8. CASE CaptureOpens BY <1>8 DEF CaptureOpens, watcher
<1>9. CASE CaptureCloses BY <1>9 DEF CaptureCloses, watcher
<1>10. CASE ForeignToggles BY <1>10 DEF ForeignToggles, watcher
<1>11. CASE DuplexToggles BY <1>11 DEF DuplexToggles, watcher
<1>12. CASE ClearFromOutside BY <1>12 DEF ClearFromOutside, watcher
<1>13. CASE UNCHANGED vars BY <1>13 DEF vars, watcher
<1> QED BY <1>1, <1>2, <1>3, <1>4, <1>5, <1>6, <1>7, <1>8, <1>9, <1>10,
           <1>11, <1>12, <1>13 DEF Next

LEMMA FloorsHold == Spec => []Floors
<1>1. Init => Floors
  BY DEF Init, Floors, FloorIsKept, PauseIsOwned, PauseIsMarked
<1>2. TypeOK /\ Floors /\ [Next]_vars => Floors'
  <2> SUFFICES ASSUME TypeOK, Floors, [Next]_vars PROVE Floors' OBVIOUS
  <2> USE DEF Floors, FloorIsKept, PauseIsOwned, PauseIsMarked
  <2>1. CASE WatcherSample BY <2>1 DEF WatcherSample
  <2>2. CASE WatcherDecide
    <3> DEFINE tick == BargeStep(sample.active, sttActive, sample.duplex, st)
    <3>1. /\ st.barged => tick.st.barged \/ tick.action = "resume"
          /\ tick.action = "pause" => tick.st.barged
      BY StepOwns DEF TypeOK
    <3> HIDE DEF tick
    <3>2. action' = tick.action /\ st' = tick.st /\ wpc' = "act" /\ wpc = "sampled"
          /\ UNCHANGED <<paused, gesture, cleared>>
      BY <2>2 DEF WatcherDecide, tick
    <3> QED BY <3>1, <3>2
  <2>3. CASE WatcherAct BY <2>3 DEF WatcherAct, BargePause, BargeResume, world, TypeOK
  <2>4. CASE ~Watch BY <2>4, GestureSteps
  <2> QED BY <2>1, <2>2, <2>3, <2>4 DEF Watch
<1> QED BY <1>1, <1>2, WatcherTypes, PTL DEF Spec

\* From the tap that takes the floor to the one that gives it back, or the long
\* press, the queue stays paused for dictation, whatever the watcher decides,
\* until a clear lifts the pause.
THEOREM FloorKept == Spec => []FloorIsKept
BY FloorsHold, PTL DEF Floors

\* The watcher remembers every speculative pause until it lifts it.
THEOREM PauseOwned == Spec => []PauseIsOwned
BY FloorsHold, PTL DEF Floors

-----------------------------------------------------------------------------
(* Whose microphone it is.                                                 *)

Recording == gesture \in {"recording", "aborting", "cleared"}

\* The watcher still takes the microphone for ours, after n samples at most
\* that were taken since the dictation ended; or it has had its edge.
Spared(n) ==
  IF st.prevOurs THEN st.grace = 0
  ELSE IF st.grace > 0 THEN st.grace <= n ELSE st.prev

Ours ==
  /\ sttActive <=> Recording
  /\ Recording /\ seen => st.prevOurs /\ st.grace = 0
  /\ Recording /\ (seen \/ sample.own) => capture # "opening"

After ==
  seen /\ Leftover =>
    capture = "open" /\ Spared(IF wpc = "sampled" THEN lag ELSE lag + 1)

\* What is known of a sample not yet used, though the world has moved on: it
\* saw our capture, and what it saw of ours alone does not pause.
Sampled ==
  wpc = "sampled" /\ ~sample.duplex /\ seen =>
    /\ capture = "open" => sample.active
    /\ sample.active /\ ~sample.foreign /\ ~sttActive /\ lag + 1 < GraceTicks =>
         IF st.prevOurs \/ st.grace > 0 THEN st.grace + 1 < GraceTicks ELSE st.prev

Mics == Ours /\ After /\ Sampled /\ OurMicIsNotForeign

\* The tick that decides, split by what the watcher thought before.
LEMMA DecideKeeps ==
  ASSUME TypeOK, Mics, WatcherDecide
  PROVE  Mics'
<1> DEFINE tick == BargeStep(sample.active, sttActive, sample.duplex, st)
<1>1. /\ action' = tick.action /\ st' = tick.st /\ wpc' = "act" /\ wpc = "sampled"
      /\ seen' <=> seen \/ (sttActive /\ sample.own)
      /\ UNCHANGED <<paused, gesture, sttActive, capture, foreign, lag, sample>>
  BY DEF WatcherDecide
<1> USE DEF BargeState
<1>2. CASE sttActive
  <2>1. tick.st.prevOurs /\ tick.st.grace = 0 /\ tick.action # "pause"
    BY <1>2 DEF BargeStep, StandDown, OnEdge, Tick, TypeOK
  <2> HIDE DEF tick
  <2>2. Ours' BY <1>1, <1>2, <2>1 DEF Mics, Ours, Recording, TypeOK
  <2> QED BY <1>1, <1>2, <2>1, <2>2 DEF Mics, After, Sampled, Leftover, OurMicIsNotForeign
<1>3. CASE ~sttActive
  <2>1. ~Recording /\ (seen' <=> seen)
    BY <1>1, <1>3 DEF Mics, Ours
  <2>2. tick.action = "pause" /\ seen /\ lag + 1 < GraceTicks => sample.foreign
    <3> SUFFICES ASSUME tick.action = "pause", seen, lag + 1 < GraceTicks, ~sample.foreign
                 PROVE  FALSE
      OBVIOUS
    <3>1. sample.active /\ ~sample.duplex
      BY <1>3 DEF BargeStep, StandDown, AfterOurs, OnEdge, Tick, TypeOK
    <3>2. IF st.prevOurs \/ st.grace > 0 THEN st.grace + 1 < GraceTicks ELSE st.prev
      BY <1>1, <1>3, <3>1 DEF Mics, Sampled
    <3> QED BY <1>3, <3>1, <3>2 DEF BargeStep, AfterOurs, OnEdge, Tick, TypeOK
  <2>3. ASSUME seen, Leftover
        PROVE  IF tick.st.prevOurs THEN tick.st.grace = 0
               ELSE IF tick.st.grace > 0 THEN tick.st.grace <= lag + 1 ELSE tick.st.prev
    <3>1. CASE sample.duplex
      BY <1>3, <3>1 DEF BargeStep, StandDown, Tick, TypeOK
    <3>2. CASE ~sample.duplex
      <4>1. sample.active /\ Spared(lag)
        BY <1>1, <2>3, <3>2 DEF Mics, Sampled, After
      <4> QED BY <1>3, <3>2, <4>1 DEF BargeStep, AfterOurs, OnEdge, Tick, Spared, TypeOK
    <3> QED BY <3>1, <3>2 DEF TypeOK
  <2> HIDE DEF tick
  <2>4. Ours' BY <1>1, <1>3, <2>1 DEF Mics, Ours, Recording
  <2>5. After' BY <1>1, <1>3, <2>1, <2>3 DEF Mics, After, Leftover, Spared
  <2> QED BY <1>1, <2>1, <2>2, <2>4, <2>5 DEF Mics, Sampled, OurMicIsNotForeign
<1> QED BY <1>2, <1>3 DEF TypeOK

LEMMA SampleKeeps ==
  ASSUME TypeOK, Mics, WatcherSample
  PROVE  Mics'
<1>1. /\ wpc = "asleep" /\ wpc' = "sampled" /\ gesture # "stopped"
      /\ lag' = IF Leftover /\ lag + 1 < GraceTicks THEN lag + 1 ELSE lag
      /\ sample'.active <=> ~fullDuplex /\ (foreign \/ capture = "open")
      /\ sample'.duplex <=> fullDuplex
      /\ sample'.foreign <=> foreign
      /\ sample'.own <=> capture = "open"
      /\ UNCHANGED <<gesture, sttActive, capture, seen, action, st>>
  BY DEF WatcherSample, TypeOK
<1>2. Ours' BY <1>1 DEF Mics, Ours, Recording
<1>3. After'
  <2> SUFFICES ASSUME seen, Leftover PROVE capture = "open" /\ Spared(lag)'
    BY <1>1 DEF After, Leftover, Spared
  <2>1. capture = "open" /\ Spared(lag + 1) BY <1>1 DEF Mics, After
  <2>2. st.grace \in 0..(GraceTicks - 1) /\ lag \in 0..(GraceTicks - 1)
    BY DEF TypeOK, BargeState
  <2> QED BY <1>1, <2>1, <2>2 DEF Spared
<1>4. Sampled'
  <2> SUFFICES ASSUME ~fullDuplex, seen
               PROVE  /\ capture = "open" => sample'.active
                      /\ sample'.active /\ ~foreign /\ ~sttActive /\ lag' + 1 < GraceTicks =>
                           IF st.prevOurs \/ st.grace > 0 THEN st.grace + 1 < GraceTicks
                                                          ELSE st.prev
    BY <1>1 DEF Sampled
  <2>1. capture = "open" => sample'.active
    BY <1>1
  <2>2. ASSUME sample'.active, ~foreign, ~sttActive, lag' + 1 < GraceTicks
        PROVE  IF st.prevOurs \/ st.grace > 0 THEN st.grace + 1 < GraceTicks ELSE st.prev
    <3>1. Leftover BY <1>1, <2>2 DEF Leftover
    <3>2. Spared(lag + 1) BY <1>1, <3>1 DEF Mics, After
    <3>3. lag \in Nat /\ GraceTicks \in Nat /\ st.grace \in Nat BY DEF TypeOK, BargeState
    <3>4. lag' = lag + 1 BY <1>1, <2>2, <3>1, <3>3
    <3> QED BY <2>2, <3>2, <3>3, <3>4 DEF Spared
  <2> QED BY <2>1, <2>2
<1> QED BY <1>1, <1>2, <1>3, <1>4 DEF Mics, OurMicIsNotForeign

\* The steps that are not the watcher's.
LEMMA OthersKeep ==
  ASSUME TypeOK, Mics, Next, ~Watch
  PROVE  Mics'
<1> USE DEF Mics, Ours, After, Sampled, Leftover, Recording, Spared,
            OurMicIsNotForeign, TypeOK
<1>1. CASE TakeFloor BY <1>1 DEF TakeFloor, world, watcher
<1>2. CASE StartRecording BY <1>2 DEF StartRecording
<1>3. CASE StopRecording BY <1>3 DEF StopRecording, watcher, BargeState
<1>4. CASE GiveFloor BY <1>4 DEF GiveFloor, world, watcher
<1>5. CASE LongPress BY <1>5 DEF LongPress, world, watcher
<1>6. CASE ClearFloor BY <1>6 DEF ClearFloor, world, watcher
<1>7. CASE EndAborted BY <1>7 DEF EndAborted, watcher, BargeState
<1>8. CASE CaptureOpens BY <1>8 DEF CaptureOpens, watcher
<1>9. CASE CaptureCloses BY <1>9 DEF CaptureCloses, watcher
<1>10. CASE ForeignToggles BY <1>10 DEF ForeignToggles, watcher
<1>11. CASE DuplexToggles BY <1>11 DEF DuplexToggles, watcher
<1>12. CASE ClearFromOutside BY <1>12 DEF ClearFromOutside, world, watcher
<1> QED BY <1>1, <1>2, <1>3, <1>4, <1>5, <1>6, <1>7, <1>8, <1>9, <1>10, <1>11, <1>12
        DEF Next

\* The watcher pauses only for a microphone another program had open, whatever
\* happens between a sample and its use: the grace covers a capture that
\* outlives a dictation some tick has seen (teardown_grace).
THEOREM OurMicSpared == Spec => []OurMicIsNotForeign
<1>1. Init => Mics
  BY DEF Init, Mics, Ours, After, Sampled, Leftover, Recording, OurMicIsNotForeign
<1>2. TypeOK /\ Mics /\ [Next]_vars => Mics'
  <2> SUFFICES ASSUME TypeOK, Mics, [Next]_vars PROVE Mics' OBVIOUS
  <2>1. CASE WatcherSample BY <2>1, SampleKeeps
  <2>2. CASE WatcherDecide BY <2>2, DecideKeeps
  <2>3. CASE WatcherAct
    BY <2>3 DEF WatcherAct, world, Mics, Ours, After, Sampled, Leftover,
                Recording, Spared, OurMicIsNotForeign
  <2>4. CASE Next /\ ~Watch BY <2>4, OthersKeep
  <2>5. CASE UNCHANGED vars
    BY <2>5 DEF vars, world, watcher, Mics, Ours, After, Sampled, Leftover,
                Recording, Spared, OurMicIsNotForeign
  <2> QED BY <2>1, <2>2, <2>3, <2>4, <2>5 DEF Watch
<1>3. Mics => OurMicIsNotForeign BY DEF Mics
<1> QED BY <1>1, <1>2, <1>3, WatcherTypes, PTL DEF Spec
=============================================================================
