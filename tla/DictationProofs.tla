--------------------------- MODULE DictationProofs ---------------------------
(***************************************************************************)
(* Theorems about Dictation, for any number of recordings and windows.     *)
(*                                                                         *)
(* Turn follows one recording through the gesture: what the buffer holds   *)
(* or awaits is the text of the recording stopped last, and its joiner is  *)
(* out only as long as it does (the epoch in PasteBuf).  Listens follows a *)
(* generation from its lease through the pipe to the microphone: it always *)
(* is some recording's.  The two meet in the recording's stop flag, which  *)
(* is up on every recording but the one the engine shows.                  *)
(***************************************************************************)
EXTENDS Dictation, TLAPS, SequenceTheorems

Current == IsArmed \/ epc = "arming"

\* The gesture and where a stop or an abort stands.
Stages ==
  /\ recs \in Nat /\ recs <= MaxRecordings
  /\ DOMAIN gesture = {"state", "stopTap", "double", "submit"}
  /\ DOMAIN stopFlag = Recordings /\ DOMAIN joiner = Recordings
  /\ DOMAIN fate = Recordings
  /\ gesture.state \in {"Idle", "Recording", "ConfirmArmed"}
  /\ epc \in {"idle", "stopping", "arming", "aborting", "joining"}
  /\ epc \in {"stopping", "arming"} =>
       gesture.state = "Idle" /\ recs # NoRec /\ fate[recs] = "stopped"
  /\ epc \in {"aborting", "joining"} => IsRecording /\ stopFlag[recs]
  /\ IsRecording => recs # NoRec /\ fate[recs] = "recording" /\ sttActive
  /\ IsArmed => recs # NoRec /\ fate[recs] = "stopped" /\ epc = "idle"
  /\ IsArmed /\ flipWindow => gesture.stopTap
  /\ flipWindow /\ recs # NoRec => fate[recs] # "pasted"
  /\ \A s \in 1..recs : stopFlag[s] \/ (s = recs /\ IsRecording)

\* The buffer, and the joiners that are out.
Texts ==
  /\ \A s \in Recordings : s > recs => fate[s] = "none" /\ ~joiner[s]
  /\ scope = NoRec \/ scope = recs
  /\ final.kind # "Idle" => final.of = recs /\ recs # NoRec /\ Current
                            /\ fate[recs] = "stopped"
  /\ final.kind \in {"Ready", "Empty"} => ~joiner[recs]
  /\ scope \in Recordings /\ joiner[scope] => Current
  /\ IsRecording \/ epc = "stopping" => ~joiner[recs] /\ final.kind = "Idle"

Turn == Stages /\ Texts

turnVars == <<gesture, flipWindow, epc, sttActive, final, scope, recs, stopFlag,
              joiner, fate>>

Someones(g) == g # 0 => \E s \in Recordings : genOf[s] = g

\* What may be in the pipe.
Ours == {m \in {"listen", "lstop"} \X Nat : m[1] = "listen" => Someones(m[2])}

Listens ==
  /\ generation \in Nat /\ activeGen \in Nat /\ genOf \in [Recordings -> Nat]
  /\ DOMAIN spc = Recordings
  /\ \A s \in Recordings : s > recs => genOf[s] = 0 /\ spc[s] = "off"
  /\ \A s \in Recordings : spc[s] = "spawned" => genOf[s] = 0
  /\ Someones(mic) /\ Someones(hListen)
  /\ pipe \in Seq(Ours)

listenVars == <<recs, spc, genOf, generation, activeGen, pipe, hListen, mic>>

Inv == Turn /\ Listens

-----------------------------------------------------------------------------

LEMMA TurnStays == ASSUME Turn, UNCHANGED turnVars PROVE Turn'
BY DEF Turn, Stages, Texts, Current, IsRecording, IsArmed, turnVars

LEMMA ListensStay == ASSUME Listens, UNCHANGED listenVars PROVE Listens'
BY DEF Listens, Someones, Ours, listenVars

\* A generation once leased stays its recording's.
LEMMA OursGrow ==
  ASSUME Listens, \A s \in Recordings : genOf[s] # 0 => genOf'[s] = genOf[s]
  PROVE  /\ Ours \subseteq Ours'
         /\ \A g : Someones(g) => Someones(g)'
<1>1. \A g : Someones(g) => Someones(g)' BY DEF Someones
<1> QED BY <1>1 DEF Ours

\* stop_listen sends at most a stop.
LEMMA StopListenKeeps ==
  ASSUME Listens, StopListen,
         UNCHANGED <<recs, spc, genOf, generation, activeGen, hListen, mic>>
  PROVE  Listens'
<1>1. <<"lstop", activeGen>> \in Ours BY DEF Ours, Listens
<1>2. pipe' \in Seq(Ours)
  BY <1>1, AppendProperties DEF StopListen, Listens
<1>3. Ours' = Ours BY DEF Ours, Someones
<1> QED BY <1>2, <1>3 DEF Listens, Someones

-----------------------------------------------------------------------------
(* What a tap does.                                                        *)

LEMMA StartKeepsInv ==
  ASSUME Inv, Free, ~IsRecording, StartRecording
  PROVE  Inv'
<1> DEFINE s == recs + 1
<1>1. /\ s \in Recordings /\ recs' = s /\ gesture' = Recording /\ final' = NoFinal
      /\ scope' = s /\ sttActive' = TRUE /\ spc' = [spc EXCEPT ![s] = "spawned"]
      /\ fate' = [Discarded EXCEPT ![s] = "recording"]
      /\ UNCHANGED <<flipWindow, epc, stopFlag, joiner>>
  BY DEF StartRecording, stepVars
<1>2. UNCHANGED <<genOf, generation, activeGen, pipe, hListen, mic>>
  BY DEF StartRecording, managerVars, leaseVars, helperVars
<1>3. recs \in Nat /\ s <= MaxRecordings /\ s \in Nat \ {0}
  BY <1>1, DictationAssumption DEF Recordings, Inv, Turn, Stages
<1>4. /\ DOMAIN fate' = Recordings /\ fate'[s] = "recording"
      /\ \A r \in Recordings : r > s => fate'[r] = "none"
  BY <1>1, <1>3 DEF Discarded, Inv, Turn, Stages, Texts, Recordings
<1>5. /\ gesture'.state = "Recording"
      /\ DOMAIN gesture' = {"state", "stopTap", "double", "submit"}
  BY <1>1 DEF Recording, Idle
<1>6. Stages'
  BY <1>1, <1>3, <1>4, <1>5 DEF Inv, Turn, Stages, IsRecording, IsArmed, Free, NoRec
<1>7. Texts'
  BY <1>1, <1>3, <1>4, <1>5
     DEF Inv, Turn, Stages, Texts, IsRecording, Free, NoFinal, Recordings
<1>8. Listens'
  <2>1. Ours' = Ours /\ Someones(mic)' = Someones(mic)
        /\ Someones(hListen)' = Someones(hListen)
    BY <1>2 DEF Ours, Someones
  <2>2. /\ DOMAIN spc' = Recordings
        /\ \A r \in Recordings : r > s => genOf[r] = 0 /\ spc'[r] = "off"
        /\ \A r \in Recordings : spc'[r] = "spawned" => genOf[r] = 0
    <3>1. DOMAIN spc = Recordings /\ \A r \in Recordings : spc[r] = "spawned" => genOf[r] = 0
      BY DEF Inv, Listens
    <3>2. \A r \in Recordings : r > recs => genOf[r] = 0 /\ spc[r] = "off"
      BY DEF Inv, Listens
    <3>3. \A r \in Recordings : r > s => r > recs BY <1>3 DEF Recordings
    <3> HIDE DEF s
    <3>4. \A r \in Recordings : spc'[r] = IF r = s THEN "spawned" ELSE spc[r]
      BY <1>1, <3>1
    <3>5. genOf[s] = 0 BY <1>1, <1>3, <3>2 DEF s
    <3>6. \A r \in Recordings : r > s => r # s BY <1>3 DEF Recordings
    <3> QED BY <1>1, <3>1, <3>2, <3>3, <3>4, <3>5, <3>6
  <2> QED BY <1>1, <1>2, <2>1, <2>2 DEF Inv, Listens
<1> QED BY <1>6, <1>7, <1>8 DEF Inv, Turn

LEMMA StopKeepsInv ==
  ASSUME Inv, Free, IsRecording, StopRecording
  PROVE  Inv'
<1>1. /\ gesture' = Idle /\ stopFlag' = [stopFlag EXCEPT ![recs] = TRUE]
      /\ epc' = "stopping" /\ fate' = [fate EXCEPT ![recs] = "stopped"]
      /\ UNCHANGED <<flipWindow, sttActive, final, scope, recs, joiner>>
  BY DEF StopRecording, bufVars
<1>2. UNCHANGED listenVars
  BY DEF StopRecording, listenVars, sessVars, managerVars, leaseVars, helperVars
<1>3. recs \in Recordings
  BY DictationAssumption DEF Inv, Turn, Stages, Recordings, NoRec
<1>4. /\ gesture'.state = "Idle"
      /\ DOMAIN gesture' = {"state", "stopTap", "double", "submit"}
  BY <1>1 DEF Idle
<1>5. Stages'
  BY <1>1, <1>3, <1>4 DEF Inv, Turn, Stages, IsRecording, IsArmed
<1>6. Texts'
  BY <1>1, <1>3, <1>4 DEF Inv, Turn, Stages, Texts, IsRecording, Current, IsArmed, Free
<1> QED BY <1>2, <1>5, <1>6, ListensStay DEF Inv, Turn

LEMMA ToggleKeepsInv == ASSUME Inv, Free, Toggle PROVE Inv'
<1>1. CASE IsRecording /\ StopRecording BY <1>1, StopKeepsInv
<1>2. CASE ~IsRecording /\ StartRecording BY <1>2, StartKeepsInv
<1>3. CASE ToggleVoice \/ Refuse
  <2>1. UNCHANGED turnVars /\ UNCHANGED listenVars
    BY <1>3 DEF ToggleVoice, Refuse, turnVars, listenVars, stepVars, bufVars,
                threadVars, sessVars, managerVars, leaseVars, helperVars
  <2> QED BY <2>1, TurnStays, ListensStay DEF Inv
<1> QED BY <1>1, <1>2, <1>3 DEF Toggle

-----------------------------------------------------------------------------
(* A stop, an abort and the other ends of a turn.                          *)

LEMMA StopSessionKeepsInv == ASSUME Inv, StopSession PROVE Inv'
<1>1. /\ epc = "stopping" /\ epc' = "arming" /\ StopListen
      /\ joiner' = [joiner EXCEPT ![recs] = TRUE]
      /\ UNCHANGED <<gesture, flipWindow, sttActive, final, scope, recs, stopFlag,
                     fate>>
  BY DEF StopSession, tapVars, bufVars
<1>2. Listens'
  BY <1>1, StopListenKeeps DEF Inv, StopSession, sessVars, leaseVars
<1>3. recs \in Recordings
  BY <1>1, DictationAssumption DEF Inv, Turn, Stages, Recordings, NoRec
<1>4. Stages' BY <1>1, <1>3 DEF Inv, Turn, Stages, IsRecording, IsArmed
<1>5. Texts'
  BY <1>1, <1>3 DEF Inv, Turn, Stages, Texts, IsRecording, Current, IsArmed
<1> QED BY <1>2, <1>4, <1>5 DEF Inv, Turn

LEMMA ArmKeepsInv == ASSUME Inv, ArmConfirm PROVE Inv'
<1>1. /\ epc = "arming" /\ epc' = "idle" /\ gesture' = Armed /\ flipWindow' = TRUE
      /\ final' = ArmedFinal /\ sttActive' = FALSE
      /\ UNCHANGED <<scope, recs, stopFlag, joiner, fate>>
  BY DEF ArmConfirm, threadVars
<1>2. UNCHANGED listenVars
  BY DEF ArmConfirm, listenVars, threadVars, sessVars, managerVars, leaseVars,
         helperVars
<1>3. /\ gesture'.state = "ConfirmArmed" /\ gesture'.stopTap = TRUE
      /\ DOMAIN gesture' = {"state", "stopTap", "double", "submit"}
  BY <1>1 DEF Armed
<1>4. Stages' BY <1>1, <1>3 DEF Inv, Turn, Stages, IsRecording, IsArmed
<1>5. Texts'
  BY <1>1, <1>3 DEF Inv, Turn, Stages, Texts, IsRecording, Current, IsArmed,
                    ArmedFinal, Final
<1> QED BY <1>2, <1>4, <1>5, ListensStay DEF Inv, Turn

\* The buffer is idle and its epoch nobody's, so the joiners do not matter.
LEMMA EndTurnKeepsInv ==
  ASSUME Inv, NEW why, EndTurn(why), epc' = "idle",
         IsRecording => stopFlag[recs], epc \notin {"stopping", "arming"},
         UNCHANGED <<flipWindow, threadVars, managerVars, helperVars>>
  PROVE  Inv'
<1>1. /\ gesture' = Idle /\ final' = NoFinal /\ scope' = NoRec /\ sttActive' = FALSE
      /\ fate' = Discarded /\ UNCHANGED <<flipWindow, recs, stopFlag, joiner>>
  BY DEF EndTurn, threadVars
<1>2. UNCHANGED listenVars
  BY DEF listenVars, threadVars, sessVars, managerVars, leaseVars, helperVars
<1>3. /\ gesture'.state = "Idle"
      /\ DOMAIN gesture' = {"state", "stopTap", "double", "submit"}
  BY <1>1 DEF Idle
<1>4. /\ DOMAIN fate' = Recordings
      /\ \A s \in Recordings : /\ fate[s] # "pasted" => fate'[s] # "pasted"
                               /\ fate[s] = "none" => fate'[s] = "none"
  BY <1>1 DEF Discarded, Inv, Turn, Stages
<1>5. recs # NoRec => recs \in Recordings
  BY DictationAssumption DEF Inv, Turn, Stages, Recordings, NoRec
<1>6. Stages' BY <1>1, <1>3, <1>4, <1>5 DEF Inv, Turn, Stages, IsRecording, IsArmed
<1>7. Texts'
  BY <1>1, <1>3, <1>4 DEF Inv, Turn, Stages, Texts, IsRecording, NoFinal, NoRec,
                          Recordings
<1> QED BY <1>2, <1>6, <1>7, ListensStay DEF Inv, Turn

LEMMA EndOrAbortKeepsInv ==
  ASSUME Inv, Free, NEW why, EndOrAbort(why)
  PROVE  Inv'
<1>1. CASE ~IsRecording
  BY <1>1, EndTurnKeepsInv DEF EndOrAbort, Free, stepVars
<1>2. CASE IsRecording
  <2>1. /\ stopFlag' = [stopFlag EXCEPT ![recs] = TRUE] /\ epc' = "aborting"
        /\ UNCHANGED <<gesture, flipWindow, sttActive, final, scope, recs, joiner,
                       fate>>
    BY <1>2 DEF EndOrAbort, BeginAbort, tapVars, bufVars
  <2>2. UNCHANGED listenVars
    BY <1>2 DEF EndOrAbort, BeginAbort, listenVars, sessVars, managerVars,
                leaseVars, helperVars
  <2>3. recs \in Recordings
    BY <1>2, DictationAssumption DEF Inv, Turn, Stages, Recordings, NoRec
  <2>4. Stages' BY <1>2, <2>1, <2>3 DEF Inv, Turn, Stages, IsRecording, IsArmed
  <2>5. Texts'
    BY <1>2, <2>1 DEF Inv, Turn, Stages, Texts, IsRecording, Current, IsArmed, Free
  <2> QED BY <2>2, <2>4, <2>5, ListensStay DEF Inv, Turn
<1> QED BY <1>1, <1>2

LEMMA InsideStepKeepsInv == ASSUME Inv, InsideStep PROVE Inv'
<1>1. CASE AbortSession
  <2>1. /\ epc = "aborting" /\ epc' = "joining" /\ StopListen
        /\ UNCHANGED <<gesture, flipWindow, sttActive, final, scope, recs, stopFlag,
                       joiner, fate>>
    BY <1>1 DEF AbortSession, tapVars, bufVars, threadVars
  <2>2. Listens'
    BY <1>1, <2>1, StopListenKeeps
       DEF Inv, AbortSession, threadVars, sessVars, leaseVars
  <2>3. Stages' BY <2>1 DEF Inv, Turn, Stages, IsRecording, IsArmed
  <2>4. Texts' BY <2>1 DEF Inv, Turn, Stages, Texts, IsRecording, Current, IsArmed
  <2> QED BY <2>2, <2>3, <2>4 DEF Inv, Turn
<1>2. CASE FinishAbort
  <2>1. epc = "joining" /\ IsRecording /\ stopFlag[recs]
    BY <1>2 DEF FinishAbort, Inv, Turn, Stages
  <2> QED BY <1>2, <2>1, EndTurnKeepsInv DEF FinishAbort
<1> QED BY <1>1, <1>2, StopSessionKeepsInv, ArmKeepsInv DEF InsideStep

-----------------------------------------------------------------------------
(* The poll thread's steps.                                                *)

\* A change of the gesture that keeps its state.
LEMMA SameStateKeepsInv ==
  ASSUME Inv, gesture'.state = gesture.state, DOMAIN gesture' = DOMAIN gesture,
         IsArmed /\ flipWindow' => gesture'.stopTap, flipWindow' => flipWindow,
         UNCHANGED <<epc, sttActive, final, scope, recs, stopFlag, joiner, fate>>,
         UNCHANGED listenVars
  PROVE  Inv'
<1>1. Stages' BY DEF Inv, Turn, Stages, IsRecording, IsArmed
<1>2. Texts' BY DEF Inv, Turn, Texts, IsRecording, IsArmed, Current
<1> QED BY <1>1, <1>2, ListensStay DEF Inv, Turn

\* The pasted or blank text leaves the buffer, and its joiner is back.
LEMMA DeferredSubmitKeepsInv == ASSUME Inv, DeferredSubmit PROVE Inv'
<1>1. /\ Free /\ IsArmed /\ ~Held /\ gesture' = Idle /\ final' = NoFinal
      /\ UNCHANGED <<flipWindow, epc, sttActive, scope, recs, stopFlag, joiner>>
  BY DEF DeferredSubmit, stepVars, threadVars
<1>2. UNCHANGED listenVars
  BY DEF DeferredSubmit, listenVars, threadVars, sessVars, managerVars, leaseVars,
         helperVars
<1>3. /\ final.kind \in {"Ready", "Empty"} /\ final.of = recs
      /\ \/ fate' = [fate EXCEPT ![recs] = "pasted"]
         \/ fate' = [fate EXCEPT ![recs] = "blank"]
  BY DEF DeferredSubmit, ConfirmPaste, ConfirmNothing, Inv, Turn, Texts
<1>4. recs \in Recordings /\ ~joiner[recs] /\ ~flipWindow
  BY <1>1, <1>3, DictationAssumption
     DEF Inv, Turn, Stages, Texts, Recordings, NoRec, Held
<1>5. /\ gesture'.state = "Idle"
      /\ DOMAIN gesture' = {"state", "stopTap", "double", "submit"}
  BY <1>1 DEF Idle
<1>6. Stages'
  BY <1>1, <1>3, <1>4, <1>5 DEF Inv, Turn, Stages, IsRecording, IsArmed, Free
<1>7. Texts'
  <2>1. \A s \in Recordings : s > recs => fate'[s] = fate[s]
    <3>1. \A s \in Recordings : s > recs => s # recs
      BY DEF Inv, Turn, Stages, Recordings
    <3> QED BY <1>3, <3>1 DEF Inv, Turn, Stages
  <2>2. final'.kind = "Idle" /\ ~IsRecording' /\ epc' = "idle"
    BY <1>1, <1>5 DEF NoFinal, IsRecording, Free
  <2>3. scope' \in Recordings => ~joiner'[scope']
    BY <1>1, <1>4 DEF Inv, Turn, Texts, NoRec, Recordings
  <2> QED BY <1>1, <2>1, <2>2, <2>3 DEF Inv, Turn, Texts
<1> QED BY <1>2, <1>6, <1>7, ListensStay DEF Inv, Turn

LEMMA EngineKeepsInv ==
  ASSUME Inv, Tick \/ UserTaps \/ WindowLapses \/ Modes
  PROVE  Inv'
<1> USE DEF turnVars, listenVars, tapVars, stepVars, modeVars, bufVars, sessVars,
            leaseVars, helperVars, worldVars, threadVars, managerVars
<1>1. CASE CapsOwnerClosed BY <1>1, EndOrAbortKeepsInv DEF CapsOwnerClosed
<1>2. CASE LongPress BY <1>2, EndOrAbortKeepsInv DEF LongPress
<1>3. CASE PendingTap BY <1>3, ToggleKeepsInv DEF PendingTap
<1>4. CASE DeferredSubmit BY <1>4, DeferredSubmitKeepsInv
<1>5. CASE PressDown
  <2>1. /\ gesture'.state = gesture.state /\ gesture'.stopTap = gesture.stopTap
        /\ DOMAIN gesture' = DOMAIN gesture
    BY <1>5 DEF PressDown, Inv, Turn, Stages
  <2>2. UNCHANGED <<flipWindow, epc, sttActive, final, scope, recs, stopFlag, joiner,
                    fate>> /\ UNCHANGED listenVars
    BY <1>5 DEF PressDown
  <2>3. IsArmed /\ flipWindow' => gesture'.stopTap
    BY <2>1, <2>2 DEF Inv, Turn, Stages
  <2> QED BY <2>1, <2>2, <2>3, SameStateKeepsInv
<1>6. CASE TapUp
  <2>1. CASE Flip
    <3>1. gesture'.state = gesture.state /\ DOMAIN gesture' = DOMAIN gesture
      BY <2>1 DEF Flip, Inv, Turn, Stages
    <3> QED BY <2>1, <3>1, SameStateKeepsInv DEF Flip
  <2>2. CASE TapWhileSpeaking
    BY <2>2, TurnStays, ListensStay DEF TapWhileSpeaking, Inv
  <2>3. CASE Toggle BY <1>6, <2>3, ToggleKeepsInv DEF TapUp
  <2> QED BY <1>6, <2>1, <2>2, <2>3 DEF TapUp
<1>7. CASE HoldUp BY <1>7, TurnStays, ListensStay DEF HoldUp, Inv
<1>8. CASE WindowLapses BY <1>8, SameStateKeepsInv DEF WindowLapses
<1>9. CASE Reload BY <1>9, EndOrAbortKeepsInv DEF Reload
<1>10. CASE GateOff
  <2>1. CASE EndOrAbort("gate") BY <1>10, <2>1, EndOrAbortKeepsInv DEF GateOff
  <2>2. CASE ~EndOrAbort("gate")
    BY <1>10, <2>2, TurnStays, ListensStay DEF GateOff, Inv
  <2> QED BY <2>1, <2>2
<1>11. CASE GateOn BY <1>11, TurnStays, ListensStay DEF GateOn, Inv
<1>12. CASE \E w \in Windows : CloseWindow(w)
  BY <1>12, TurnStays, ListensStay DEF CloseWindow, Inv
<1> QED BY <1>1, <1>2, <1>3, <1>4, <1>5, <1>6, <1>7, <1>8, <1>9, <1>10, <1>11, <1>12
        DEF Tick, UserTaps, Modes

-----------------------------------------------------------------------------
(* The listen threads and the helper.                                      *)

\* A joiner finds its own epoch only while its text is waited for.
LEMMA JoinKeepsInv == ASSUME Inv, NEW s \in Recordings, Join(s) PROVE Inv'
<1>1. /\ joiner[s] /\ joiner' = [joiner EXCEPT ![s] = FALSE] /\ final' = Deposited(s)
      /\ UNCHANGED <<gesture, flipWindow, epc, sttActive, scope, recs, stopFlag, fate>>
  BY DEF Join, engineVars, tapVars, stepVars
<1>2. UNCHANGED listenVars
  BY DEF Join, listenVars, managerVars, leaseVars, helperVars
<1>3. scope = s => s = recs /\ recs # NoRec /\ Current /\ fate[recs] = "stopped"
  BY <1>1 DEF Inv, Turn, Stages, Texts, Current, Recordings, NoRec
<1>4. Stages' BY <1>1 DEF Inv, Turn, Stages, IsRecording, IsArmed
<1>5. final' = final \/ (scope = s /\ final'.kind \in {"Ready", "Empty"}
                         /\ final'.of = recs)
  BY <1>1, <1>3 DEF Deposited, Final
<1>6. Texts'
  <2>1. DOMAIN joiner' = Recordings /\ ~joiner'[s]
        /\ \A r \in Recordings : joiner'[r] => joiner[r]
    BY <1>1 DEF Inv, Turn, Stages
  <2>2. Current' = Current /\ IsRecording' = IsRecording
    BY <1>1 DEF Current, IsArmed, IsRecording
  <2>3. recs # NoRec => recs \in Recordings
    BY DictationAssumption DEF Inv, Turn, Stages, Recordings, NoRec
  <2>4. IsRecording \/ epc = "stopping" => ~joiner[recs] /\ recs # NoRec
    BY DEF Inv, Turn, Stages, Texts
  <2> QED BY <1>1, <1>3, <1>5, <2>1, <2>2, <2>3, <2>4 DEF Inv, Turn, Texts
<1> QED BY <1>2, <1>4, <1>6, ListensStay DEF Inv, Turn

\* What is left of the pipe, of the slot and of the microphone when the helper
\* is gone.
LEMMA GoneIsOurs ==
  ASSUME HelperGone
  PROVE  Someones(mic)' /\ Someones(hListen)' /\ pipe' \in Seq(Ours')
BY EmptySeq DEF HelperGone, Someones

LEMMA SessionKeepsListens ==
  ASSUME Inv, NEW s \in Recordings, SessionStep(s)
  PROVE  Listens'
<1>1. CASE TakeLease(s)
  <2>1. /\ spc[s] = "spawned" /\ spc' = [spc EXCEPT ![s] = "leased"]
        /\ generation' = generation + 1 /\ activeGen' = generation + 1
        /\ genOf' = [genOf EXCEPT ![s] = generation + 1]
        /\ UNCHANGED <<recs, pipe, hListen, mic>>
    BY <1>1 DEF TakeLease, Sess, helperVars
  <2>2. \A r \in Recordings : genOf[r] # 0 => genOf'[r] = genOf[r]
    BY <2>1 DEF Inv, Listens
  <2>3. /\ Someones(mic)' /\ Someones(hListen)' /\ pipe' \in Seq(Ours')
    BY <2>1, <2>2, OursGrow, SeqMonotonic DEF Inv, Listens, Someones
  <2>4. /\ generation' \in Nat /\ activeGen' \in Nat /\ genOf' \in [Recordings -> Nat]
        /\ DOMAIN spc' = Recordings
    BY <2>1 DEF Inv, Listens
  <2>5. /\ \A r \in Recordings : r > recs => genOf'[r] = 0 /\ spc'[r] = "off"
        /\ \A r \in Recordings : spc'[r] = "spawned" => genOf'[r] = 0
    BY <2>1 DEF Inv, Listens
  <2> QED BY <2>1, <2>3, <2>4, <2>5 DEF Listens
<1>2. ASSUME NEW to, to \notin {"spawned", "off"}, spc[s] # "off",
             spc' = [spc EXCEPT ![s] = to], UNCHANGED <<recs, genOf, generation>>,
             activeGen' \in {0, activeGen},
             Someones(mic)' /\ Someones(hListen)' /\ pipe' \in Seq(Ours')
      PROVE  Listens'
  BY <1>2 DEF Inv, Listens
<1>4. CASE Requests(s)
  <2>1. Ours' = Ours BY <1>4 DEF Requests, managerVars, leaseVars, Ours, Someones
  <2>2. <<"listen", genOf[s]>> \in Ours BY DEF Ours, Someones, Inv, Listens
  <2>3. pipe' \in Seq(Ours')
    BY <1>4, <2>1, <2>2, AppendProperties DEF Requests, Inv, Listens
  <2>4. Someones(mic)' /\ Someones(hListen)'
    BY <1>4 DEF Requests, managerVars, leaseVars, Someones, Inv, Listens
  <2> QED BY <1>2, <1>4, <2>3, <2>4 DEF Requests, Sess, managerVars, leaseVars
<1>5. ASSUME UNCHANGED <<genOf, pipe, hListen, mic>>
      PROVE  Someones(mic)' /\ Someones(hListen)' /\ pipe' \in Seq(Ours')
  BY <1>5 DEF Someones, Ours, Inv, Listens
<1>6. CASE LeaseBusy(s) BY <1>2, <1>5, <1>6
  DEF LeaseBusy, Sess, managerVars, leaseVars, helperVars
<1>7. CASE StoppedEarly(s) BY <1>2, <1>5, <1>7
  DEF StoppedEarly, Sess, Released, helperVars
<1>8. CASE EnsureStarted(s) BY <1>2, <1>5, <1>8
  DEF EnsureStarted, Sess, managerVars, leaseVars
<1>9. CASE GivesUp(s) BY <1>2, <1>5, <1>9 DEF GivesUp, Sess, Released, helperVars
<1>10. CASE Checks(s) BY <1>2, <1>5, <1>10 DEF Checks, Sess, leaseVars, helperVars
<1>11. CASE RequestFails(s) BY <1>2, <1>5, <1>11
  DEF RequestFails, Sess, Released, helperVars
<1>12. CASE Answered(s)
  <2>1. Someones(mic)' /\ Someones(hListen)' /\ pipe' \in Seq(Ours')
    BY <1>12, <1>5, GoneIsOurs DEF Answered, Released
  <2> QED BY <1>2, <1>12, <2>1 DEF Answered, Sess, Released
<1>13. CASE FinalizeTimesOut(s)
  BY <1>2, <1>13, GoneIsOurs DEF FinalizeTimesOut, Sess, Released
<1> QED BY <1>1, <1>4, <1>6, <1>7, <1>8, <1>9, <1>10, <1>11, <1>12, <1>13
        DEF SessionStep

LEMMA SessionKeepsTurn ==
  ASSUME Inv, NEW s \in Recordings, SessionStep(s)
  PROVE  Turn'
<1>1. UNCHANGED turnVars
  BY DEF SessionStep, TakeLease, LeaseBusy, StoppedEarly, EnsureStarted, GivesUp,
         Checks, Requests, RequestFails, Answered, FinalizeTimesOut, turnVars,
         engineVars, tapVars, stepVars, bufVars
<1> QED BY <1>1, TurnStays DEF Inv

LEMMA HelperKeepsInv == ASSUME Inv, Helper PROVE Inv'
<1>1. UNCHANGED turnVars
  BY DEF Helper, ReadPipe, TakeListen, TrailError, EndCapture, Finalize, HelperDies,
         turnVars, engineVars, tapVars, stepVars, bufVars, threadVars
<1>2. UNCHANGED <<recs, spc, genOf, generation, activeGen>>
  BY DEF Helper, ReadPipe, TakeListen, TrailError, EndCapture, Finalize, HelperDies,
         threadVars, sessVars, managerVars, leaseVars
<1>3. Ours' = Ours /\ \A g : Someones(g) <=> (g # 0 => \E s \in Recordings : genOf'[s] = g)
  BY <1>2 DEF Ours, Someones
<1>4. Someones(mic)' /\ Someones(hListen)' /\ pipe' \in Seq(Ours')
  <2>1. CASE ReadPipe
    <3>1. Head(pipe) \in Ours /\ Tail(pipe) \in Seq(Ours)
      BY <2>1, HeadTailProperties DEF ReadPipe, Inv, Listens
    <3>2. mic' = mic /\ (hListen' = hListen \/ Someones(hListen'))
      BY <2>1, <3>1 DEF ReadPipe, Ours
    <3> QED BY <1>2, <1>3, <2>1, <3>1, <3>2 DEF ReadPipe, Someones, Inv, Listens
  <2>2. CASE TakeListen \/ TrailError \/ EndCapture \/ Finalize
    BY <1>2, <1>3, <2>2
       DEF TakeListen, TrailError, Says, EndCapture, Finalize, Someones, Inv, Listens
  <2>3. CASE HelperDies BY <2>3, GoneIsOurs DEF HelperDies
  <2> QED BY <2>1, <2>2, <2>3 DEF Helper
<1> QED BY <1>1, <1>2, <1>4, TurnStays DEF Inv, Listens

LEMMA InvHolds == Spec => []Inv
<1>1. Init => Inv
  <2> SUFFICES ASSUME Init PROVE Inv OBVIOUS
  <2>1. Stages
    BY DictationAssumption DEF Init, Stages, Idle, IsRecording, IsArmed, NoRec, Recordings
  <2>2. Texts
    BY <2>1 DEF Init, Texts, Idle, IsRecording, NoFinal, NoRec, Recordings
  <2>3. Listens BY EmptySeq DEF Init, Listens, Someones
  <2> QED BY <2>1, <2>2, <2>3 DEF Inv, Turn
<1>2. ASSUME Inv, Next PROVE Inv'
  BY <1>2, EngineKeepsInv, InsideStepKeepsInv, JoinKeepsInv, SessionKeepsListens,
     SessionKeepsTurn, HelperKeepsInv DEF Next, Sessions, Inv
<1>3. ASSUME Inv, UNCHANGED vars PROVE Inv'
  BY <1>3, TurnStays, ListensStay
     DEF Inv, vars, turnVars, listenVars, engineVars, tapVars, stepVars, bufVars,
         threadVars, sessVars, managerVars, leaseVars, helperVars
<1> QED BY <1>1, <1>2, <1>3, PTL DEF Spec

-----------------------------------------------------------------------------

\* Whatever the threads' order, the buffer awaits or holds the text of the
\* recording stopped last: a final that lands after a cancel, a reload or a new
\* start leaves no trace (the epoch of PasteBuf).
THEOREM BufferCurrent == Spec => []BufferIsCurrent
<1>1. Inv => BufferIsCurrent BY DEF Inv, Turn, Texts, Current, BufferIsCurrent
<1> QED BY <1>1, InvHolds, PTL

\* The helper's microphone is open for the recording the engine shows, or for
\* one whose stop flag is up, however late its listen came out of the pipe.
THEOREM MicOurs == Spec => []MicIsOurs
<1>1. Inv => MicIsOurs
  <2> SUFFICES ASSUME Inv, mic # 0
               PROVE  \E s \in Recordings :
                        /\ genOf[s] = mic
                        /\ stopFlag[s] \/ (s = recs /\ IsRecording /\ sttActive)
    BY DEF MicIsOurs
  <2>1. PICK s \in Recordings : genOf[s] = mic
    BY DEF Inv, Listens, Someones
  <2>2. s \in 1..recs
    BY <2>1 DEF Inv, Turn, Stages, Listens, Recordings
  <2> QED BY <2>1, <2>2 DEF Inv, Turn, Stages
<1> QED BY <1>1, InvHolds, PTL

\* Only the deferred submit pastes, once, and only the text of the recording
\* that was stopped last, neither cancelled nor superseded.
THEOREM PastesStopped == Spec => PastesTheStopped
<1> DEFINE Good == \A s \in Recordings : fate[s] # "pasted" /\ fate'[s] = "pasted" =>
                     /\ fate[s] = "stopped"
                     /\ \A r \in Recordings : r > s => fate[r] = "none"
<1>1. ASSUME Inv, Next PROVE Good
  <2>1. CASE DeferredSubmit
    <3>1. /\ final.of = recs /\ fate[recs] = "stopped"
          /\ \/ fate' = [fate EXCEPT ![recs] = "pasted"]
             \/ fate' = [fate EXCEPT ![recs] = "blank"]
      BY <1>1, <2>1 DEF DeferredSubmit, ConfirmPaste, ConfirmNothing, Inv, Turn, Texts
    <3> QED BY <1>1, <3>1 DEF Inv, Turn, Stages, Texts
  <2>2. ASSUME fate' = Discarded \/ fate' = fate
               \/ (\E s : fate' = [Discarded EXCEPT ![s] = "recording"])
               \/ (\E s : fate' = [fate EXCEPT ![s] = "stopped"])
        PROVE  Good
    BY <1>1, <2>2 DEF Discarded, Inv, Turn, Stages
  <2>3. CASE UserTaps \/ PendingTap
    <3>1. Toggle \/ fate' = fate
      BY <2>3 DEF UserTaps, PressDown, TapUp, HoldUp, Flip, TapWhileSpeaking, PendingTap
    <3> QED BY <2>2, <3>1 DEF Toggle, ToggleVoice, Refuse, StartRecording, StopRecording
  <2>4. CASE CapsOwnerClosed \/ LongPress \/ Modes
    <3>1. (\E why : EndOrAbort(why)) \/ fate' = fate
      BY <2>4 DEF CapsOwnerClosed, LongPress, Modes, Reload, GateOff, GateOn, CloseWindow
    <3> QED BY <2>2, <3>1 DEF EndOrAbort, BeginAbort, EndTurn
  <2>5. CASE InsideStep
    BY <2>2, <2>5 DEF InsideStep, StopSession, ArmConfirm, AbortSession, FinishAbort, EndTurn
  <2>6. CASE WindowLapses \/ Helper
    BY <2>2, <2>6 DEF WindowLapses, Helper, ReadPipe, TakeListen, TrailError,
                      EndCapture, Finalize, HelperDies
  <2>7. CASE Sessions
    BY <2>2, <2>7 DEF Sessions, Join, SessionStep, TakeLease, LeaseBusy, StoppedEarly,
                      EnsureStarted, GivesUp, Checks, Requests, RequestFails, Answered,
                      FinalizeTimesOut
  <2> QED BY <1>1, <2>1, <2>3, <2>4, <2>5, <2>6, <2>7 DEF Next, Tick
<1>2. Inv /\ [Next]_vars => [Good]_vars BY <1>1
<1> QED BY <1>2, InvHolds, PTL DEF Spec, PastesTheStopped

\* A second tap inside the stop tap's window still finds its text unpasted: the
\* submit is held as long as that window may decide it.
THEOREM SecondTapInTime == Spec => SecondTapIsInTime
<1> DEFINE Good == press = "Up" /\ press' = "Down" /\ flipWindow /\ recs # NoRec =>
                     fate[recs] # "pasted"
<1>1. Inv => Good BY DEF Inv, Turn, Stages
<1>2. Inv /\ [Next]_vars => [Good]_vars BY <1>1
<1> QED BY <1>2, InvHolds, PTL DEF Spec, SecondTapIsInTime

-----------------------------------------------------------------------------
\* The types of each part of the state, and what a step that leaves the part
\* alone leaves of them.
Gestures == [state : {"Idle", "Recording", "ConfirmArmed"},
             stopTap : BOOLEAN, double : BOOLEAN, submit : BOOLEAN]

EngineTypes ==
  /\ gesture \in Gestures
  /\ press \in {"Up", "Down", "Held"}
  /\ pendingTap \in BOOLEAN /\ flipWindow \in BOOLEAN
  /\ capsOwner \in Windows \cup {NoWindow}
  /\ epc \in {"idle", "stopping", "arming", "aborting", "joining"}
  /\ reason \in {"none", "cancel", "closed", "reload", "gate"}
  /\ dictationOn \in BOOLEAN /\ caps \in BOOLEAN /\ sttActive \in BOOLEAN
  /\ voice \in {"free", "held"} /\ closed \subseteq Windows
  /\ upsets \in Nat

BufferTypes ==
  /\ final \in [kind : {"Idle", "Armed", "Ready", "Empty"},
                of : Recordings \cup {NoRec}]
  /\ scope \in Recordings \cup {NoRec}
  /\ fate \in [Recordings -> {"none", "recording", "stopped", "pasted", "blank",
                              "discarded"}]

ThreadTypes ==
  /\ recs \in Recordings \cup {NoRec}
  /\ stopFlag \in [Recordings -> BOOLEAN] /\ joiner \in [Recordings -> BOOLEAN]
  /\ spc \in [Recordings -> {"off", "spawned", "leased", "started", "checked",
                             "waiting", "done"}]
  /\ text \in [Recordings -> {"speech", "blank"}]

ListenTypes ==
  /\ lease \in Recordings \cup {NoRec}
  /\ generation \in Nat /\ genOf \in [Recordings -> Nat]
  /\ activeGen \in Nat /\ stoppedThrough \in Nat /\ stopClock \in Nat

HelperTypes ==
  /\ slot \in {"clear", "speech", "blank", "error", "dead"}
  /\ alive \in BOOLEAN /\ pipe \in Seq({"listen", "lstop"} \X Nat)
  /\ hListen \in Nat /\ hStopped \in Nat /\ mic \in Nat
  /\ hpc \in {"idle", "failing", "capturing", "finalizing"}

Types == EngineTypes /\ BufferTypes /\ ThreadTypes /\ ListenTypes /\ HelperTypes

LEMMA TypeParts == TypeOK <=> Types
BY DEF Gestures, TypeOK, Types, EngineTypes, BufferTypes, ThreadTypes, ListenTypes, HelperTypes

LEMMA EngineTypesStay == ASSUME EngineTypes, UNCHANGED engineVars PROVE EngineTypes'
BY DEF EngineTypes, engineVars, tapVars, stepVars, modeVars, worldVars

LEMMA BufferTypesStay ==
  ASSUME BufferTypes, UNCHANGED <<bufVars, fate>> PROVE BufferTypes'
BY DEF BufferTypes, bufVars

LEMMA ThreadTypesStay == ASSUME ThreadTypes, UNCHANGED threadVars PROVE ThreadTypes'
BY DEF ThreadTypes, threadVars, sessVars

LEMMA ListenTypesStay ==
  ASSUME ListenTypes, UNCHANGED <<leaseVars, stopVars>> PROVE ListenTypes'
BY DEF ListenTypes, leaseVars, stopVars

LEMMA HelperTypesStay ==
  ASSUME HelperTypes, UNCHANGED <<helperVars, slot>> PROVE HelperTypes'
BY DEF HelperTypes, helperVars

LEMMA StopListenTypes ==
  ASSUME Types, StopListen,
         UNCHANGED <<leaseVars, slot, alive, hListen, hStopped, hpc, mic>>
  PROVE  ListenTypes' /\ HelperTypes'
<1>1. ListenTypes'
  BY DEF Types, ListenTypes, StopListen, leaseVars, stopVars
<1>2. <<"lstop", activeGen>> \in {"listen", "lstop"} \X Nat
  BY DEF Types, ListenTypes
<1>3. pipe' \in Seq({"listen", "lstop"} \X Nat)
  <2>1. pipe' = pipe \/ pipe' = Append(pipe, <<"lstop", activeGen>>) BY DEF StopListen
  <2>2. pipe \in Seq({"listen", "lstop"} \X Nat) BY DEF Types, HelperTypes
  <2> QED BY <1>2, <2>1, <2>2, AppendProperties
<1> QED BY <1>1, <1>3 DEF Types, HelperTypes

LEMMA HelperGoneTypes ==
  ASSUME HelperGone, slot' \in {"clear", "speech", "blank", "error", "dead"}
  PROVE  HelperTypes'
BY EmptySeq DEF HelperGone, HelperTypes

LEMMA DiscardedType ==
  ASSUME BufferTypes
  PROVE  Discarded \in [Recordings -> {"none", "recording", "stopped", "pasted", "blank",
                                       "discarded"}]
BY DEF BufferTypes, Discarded

LEMMA RecordsTyped ==
  LET Finals == [kind : {"Idle", "Armed", "Ready", "Empty"}, of : Recordings \cup {NoRec}]
  IN  /\ Idle \in Gestures /\ Recording \in Gestures /\ Armed \in Gestures
      /\ NoFinal \in Finals
      /\ \A s \in Recordings \cup {NoRec}, k \in {"Idle", "Armed", "Ready", "Empty"} :
           Final(k, s) \in Finals
BY DictationAssumption DEF Gestures, Idle, Recording, Armed, NoFinal, Final

LEMMA TapsTyped ==
  ASSUME NEW g \in Gestures, NEW d \in BOOLEAN, NEW t \in BOOLEAN, NEW u \in BOOLEAN
  PROVE  /\ [g EXCEPT !.double = d] \in Gestures
         /\ [g EXCEPT !.double = d, !.stopTap = t, !.submit = u] \in Gestures
BY DEF Gestures

LEMMA ToggleTypes ==
  ASSUME Types, Free, Toggle, press' \in {"Up", "Down", "Held"}, pendingTap' \in BOOLEAN
  PROVE  Types'
<1>1. CASE StopRecording
  <2>1. EngineTypes'
    BY <1>1, RecordsTyped
       DEF StopRecording, Types, EngineTypes, modeVars, worldVars
  <2>2. BufferTypes' BY <1>1 DEF StopRecording, Types, BufferTypes, bufVars
  <2>3. ThreadTypes' BY <1>1 DEF StopRecording, Types, ThreadTypes, sessVars
  <2> QED BY <1>1, <2>1, <2>2, <2>3, ListenTypesStay, HelperTypesStay
          DEF StopRecording, Types, managerVars
<1>2. CASE StartRecording
  <2>1. EngineTypes'
    BY <1>2, RecordsTyped
       DEF StartRecording, Types, EngineTypes, FrontWindow, modeVars, stepVars, worldVars
  <2>2. BufferTypes' BY <1>2, DiscardedType, RecordsTyped DEF StartRecording, Types, BufferTypes
  <2>3. ThreadTypes' BY <1>2 DEF StartRecording, Types, ThreadTypes
  <2> QED BY <1>2, <2>1, <2>2, <2>3, ListenTypesStay, HelperTypesStay
          DEF StartRecording, Types, managerVars
<1>3. CASE ToggleVoice \/ Refuse
  <2>1. EngineTypes'
    BY <1>3 DEF ToggleVoice, Refuse, Types, EngineTypes, stepVars, modeVars, worldVars
  <2> QED BY <1>3, <2>1, BufferTypesStay, ThreadTypesStay, ListenTypesStay, HelperTypesStay
          DEF ToggleVoice, Refuse, Types, managerVars
<1> QED BY <1>1, <1>2, <1>3 DEF Toggle

Reasons == {"cancel", "closed", "reload", "gate"}

LEMMA EndTurnTypes ==
  ASSUME Types, NEW why, EndTurn(why), upsets' \in Nat, UNCHANGED closed,
         epc' = "idle", reason' = reason \/ reason' = "none",
         UNCHANGED <<flipWindow, threadVars, managerVars, helperVars>>
  PROVE  Types'
<1>1. EngineTypes' BY RecordsTyped DEF EndTurn, Types, EngineTypes
<1>2. BufferTypes' BY RecordsTyped, DiscardedType DEF EndTurn, Types, BufferTypes
<1> QED BY <1>1, <1>2, ThreadTypesStay, ListenTypesStay, HelperTypesStay
        DEF Types, managerVars

LEMMA EndOrAbortTypes ==
  ASSUME Types, Free, NEW why \in Reasons, EndOrAbort(why), upsets' \in Nat
  PROVE  Types'
<1>1. CASE ~IsRecording
  BY <1>1, EndTurnTypes DEF EndOrAbort, stepVars, Free
<1>2. CASE IsRecording
  <2>1. EngineTypes'
    BY <1>2 DEF EndOrAbort, BeginAbort, Types, EngineTypes, Reasons, tapVars
  <2>2. ThreadTypes'
    BY <1>2 DEF EndOrAbort, BeginAbort, Types, ThreadTypes, sessVars
  <2> QED BY <1>2, <2>1, <2>2, BufferTypesStay, ListenTypesStay, HelperTypesStay
          DEF EndOrAbort, BeginAbort, Types, managerVars
<1> QED BY <1>1, <1>2

LEMMA InsideStepTypes == ASSUME Types, InsideStep PROVE Types'
<1>1. CASE StopSession
  <2>1. EngineTypes'
    BY <1>1 DEF StopSession, Types, EngineTypes, tapVars, modeVars, worldVars
  <2>2. ThreadTypes' BY <1>1 DEF StopSession, Types, ThreadTypes, sessVars
  <2> QED BY <1>1, <2>1, <2>2, BufferTypesStay, StopListenTypes DEF StopSession, Types
<1>2. CASE ArmConfirm
  <2>1. EngineTypes'
    <3>1. gesture' \in Gestures BY <1>2, RecordsTyped DEF ArmConfirm, Gestures
    <3> QED BY <1>2, <3>1 DEF ArmConfirm, Types, EngineTypes, modeVars, worldVars, Gestures
  <2>2. BufferTypes'
    BY <1>2, RecordsTyped DEF ArmConfirm, ArmedFinal, Types, BufferTypes, ThreadTypes
  <2> QED BY <1>2, <2>1, <2>2, ThreadTypesStay, ListenTypesStay, HelperTypesStay
          DEF ArmConfirm, Types, managerVars
<1>3. CASE AbortSession
  <2>1. EngineTypes'
    BY <1>3 DEF AbortSession, Types, EngineTypes, tapVars, modeVars, worldVars
  <2> QED BY <1>3, <2>1, BufferTypesStay, ThreadTypesStay, StopListenTypes
          DEF AbortSession, Types
<1>4. CASE FinishAbort
  BY <1>4, EndTurnTypes DEF FinishAbort, worldVars, Types, EngineTypes
<1> QED BY <1>1, <1>2, <1>3, <1>4 DEF InsideStep

LEMMA EngineStepTypes ==
  ASSUME Types, Tick \/ UserTaps \/ WindowLapses \/ Modes
  PROVE  Types'
<1>1. CASE CapsOwnerClosed \/ LongPress \/ Reload
  <2>1. upsets' \in Nat
    BY <1>1 DEF CapsOwnerClosed, LongPress, Reload, Types, EngineTypes
  <2>2. \E why \in Reasons : EndOrAbort(why) /\ Free
    BY <1>1 DEF CapsOwnerClosed, LongPress, Reload, Reasons
  <2> QED BY <2>1, <2>2, EndOrAbortTypes
<1>2. CASE GateOff
  <2>1. upsets' \in Nat BY <1>2 DEF GateOff, Types, EngineTypes
  <2>2. CASE gesture # Idle
    BY <1>2, <2>1, <2>2, EndOrAbortTypes DEF GateOff, Reasons
  <2>3. CASE gesture = Idle
    <3>1. EngineTypes' BY <1>2, <2>1, <2>3 DEF GateOff, Types, EngineTypes, stepVars
    <3> QED BY <1>2, <2>3, <3>1, BufferTypesStay, ThreadTypesStay, ListenTypesStay,
               HelperTypesStay
            DEF GateOff, Types, managerVars
  <2> QED BY <2>2, <2>3
<1>3. CASE PendingTap
  <2>1. press' \in {"Up", "Down", "Held"} /\ pendingTap' \in BOOLEAN
    BY <1>3 DEF PendingTap, Types, EngineTypes
  <2> QED BY <1>3, <2>1, ToggleTypes DEF PendingTap
<1>4. CASE DeferredSubmit
  <2>1. EngineTypes'
    BY <1>4, RecordsTyped
       DEF DeferredSubmit, Types, EngineTypes, stepVars, modeVars, worldVars
  <2>2. BufferTypes'
    BY <1>4, RecordsTyped
       DEF DeferredSubmit, ConfirmPaste, ConfirmNothing, Types, BufferTypes
  <2> QED BY <1>4, <2>1, <2>2, ThreadTypesStay, ListenTypesStay, HelperTypesStay
          DEF DeferredSubmit, Types, managerVars
<1>5. CASE TapUp
  <2>1. press' = "Up" BY <1>5 DEF TapUp
  <2>2. CASE pendingTap' = FALSE /\ Toggle
    BY <1>5, <2>1, <2>2, ToggleTypes DEF TapUp
  <2>3. CASE Flip \/ TapWhileSpeaking
    <3>1. EngineTypes'
      <4>1. gesture' \in Gestures
        <5>1. gesture \in Gestures /\ (~gesture.submit) \in BOOLEAN
          BY DEF Types, EngineTypes, Gestures
        <5> QED BY <2>3, <5>1, TapsTyped DEF Flip, TapWhileSpeaking
      <4>2. /\ UNCHANGED <<capsOwner, stepVars, modeVars, sttActive, voice, worldVars>>
            /\ flipWindow' \in {flipWindow, FALSE}
        BY <2>3 DEF Flip, TapWhileSpeaking
      <4>3. pendingTap' \in BOOLEAN
        <5>1. pendingTap \in BOOLEAN BY DEF Types, EngineTypes
        <5>2. pendingTap' = pendingTap \/ pendingTap' \in {TRUE, ~pendingTap}
          BY <2>3 DEF Flip, TapWhileSpeaking
        <5> QED BY <5>1, <5>2
      <4>4. flipWindow' \in BOOLEAN
        <5>1. flipWindow \in BOOLEAN BY DEF Types, EngineTypes
        <5> QED BY <4>2, <5>1
      <4> QED BY <2>1, <4>1, <4>2, <4>3, <4>4
         DEF Types, EngineTypes, stepVars, modeVars, worldVars, Gestures
    <3> QED BY <2>3, <3>1, BufferTypesStay, ThreadTypesStay, ListenTypesStay,
               HelperTypesStay
            DEF Flip, TapWhileSpeaking, Types, managerVars
  <2> QED BY <1>5, <2>2, <2>3 DEF TapUp
<1>6. CASE PressDown \/ HoldUp \/ WindowLapses \/ GateOn
            \/ (\E w \in Windows : CloseWindow(w))
  <2>1. gesture' \in Gestures
    <3>1. gesture \in Gestures /\ (gesture.stopTap /\ flipWindow) \in BOOLEAN
      BY DEF Types, EngineTypes, Gestures
    <3>2. CASE PressDown BY <3>1, <3>2, TapsTyped DEF PressDown
    <3> QED BY <1>6, <3>1, <3>2 DEF HoldUp, WindowLapses, GateOn, CloseWindow, tapVars
  <2>2. EngineTypes'
    <3>1. CASE PressDown
      BY <2>1, <3>1 DEF PressDown, Types, EngineTypes, Gestures, stepVars, modeVars, worldVars
    <3>2. CASE HoldUp \/ WindowLapses \/ GateOn
      <4>1. /\ flipWindow' = flipWindow \/ flipWindow' = FALSE
            /\ caps' = caps \/ caps' = TRUE
            /\ press' = press \/ press' = "Up"
            /\ UNCHANGED <<gesture, pendingTap, capsOwner, epc, reason, dictationOn,
                           sttActive, voice, closed, upsets>>
        BY <3>2 DEF HoldUp, WindowLapses, GateOn, tapVars, stepVars, modeVars, worldVars
      <4>2. EngineTypes BY DEF Types
      <4>3. flipWindow' \in BOOLEAN /\ caps' \in BOOLEAN
        BY <4>1, <4>2 DEF EngineTypes
      <4> QED BY <4>1, <4>2, <4>3 DEF EngineTypes
    <3>3. ASSUME NEW w \in Windows, CloseWindow(w) PROVE EngineTypes'
      BY <3>3 DEF CloseWindow, Types, EngineTypes, tapVars, stepVars, modeVars
    <3> QED BY <1>6, <3>1, <3>2, <3>3
  <2> QED BY <1>6, <2>2, BufferTypesStay, ThreadTypesStay, ListenTypesStay, HelperTypesStay
          DEF PressDown, HoldUp, WindowLapses, GateOn, CloseWindow, Types, managerVars
<1> QED BY <1>1, <1>2, <1>3, <1>4, <1>5, <1>6 DEF Tick, UserTaps, Modes

LEMMA SessionTypes ==
  ASSUME Types, NEW s \in Recordings, SessionStep(s) \/ Join(s)
  PROVE  Types'
<1>1. EngineTypes'
  BY EngineTypesStay
     DEF Types, SessionStep, TakeLease, LeaseBusy, StoppedEarly, EnsureStarted, GivesUp,
         Checks, Requests, RequestFails, Answered, FinalizeTimesOut, Join
<1>2. BufferTypes'
  <2>1. CASE Join(s)
    BY <2>1, RecordsTyped DEF Join, Deposited, Types, BufferTypes
  <2>2. CASE SessionStep(s)
    BY <2>2, BufferTypesStay
       DEF Types, SessionStep, TakeLease, LeaseBusy, StoppedEarly, EnsureStarted, GivesUp,
           Checks, Requests, RequestFails, Answered, FinalizeTimesOut
  <2> QED BY <2>1, <2>2
<1>3. ThreadTypes'
  BY DEF Types, ThreadTypes, SessionStep, TakeLease, LeaseBusy, StoppedEarly,
         EnsureStarted, GivesUp, Checks, Requests, RequestFails, Answered,
         FinalizeTimesOut, Join, Sess
<1>4. ListenTypes'
  <2>1. CASE TakeLease(s) BY <2>1 DEF TakeLease, Types, ListenTypes, stopVars
  <2>2. ASSUME Released(s) PROVE ListenTypes'
    BY <2>2 DEF Released, Types, ListenTypes
  <2>3. ASSUME UNCHANGED <<leaseVars, stopVars>> PROVE ListenTypes'
    BY <2>3, ListenTypesStay DEF Types
  <2> QED BY <2>1, <2>2, <2>3
          DEF SessionStep, LeaseBusy, StoppedEarly, EnsureStarted, GivesUp, Checks,
              Requests, RequestFails, Answered, FinalizeTimesOut, Join, managerVars
<1>5. HelperTypes'
  <2>1. CASE Requests(s)
    <3>1. <<"listen", genOf[s]>> \in {"listen", "lstop"} \X Nat
      BY DEF Types, ListenTypes
    <3>2. pipe' \in Seq({"listen", "lstop"} \X Nat)
      BY <2>1, <3>1, AppendProperties DEF Requests, Types, HelperTypes
    <3> QED BY <2>1, <3>2 DEF Requests, Types, HelperTypes, managerVars
  <2>2. CASE EnsureStarted(s) \/ Checks(s)
    BY <2>2 DEF EnsureStarted, Checks, Types, HelperTypes, helperVars, managerVars
  <2>3. CASE Answered(s) \/ FinalizeTimesOut(s)
    <3>1. slot' \in {"clear", "speech", "blank", "error", "dead"}
      BY <2>3 DEF Answered, FinalizeTimesOut, Types, HelperTypes
    <3>2. CASE HelperGone BY <3>1, <3>2, HelperGoneTypes
    <3>3. CASE UNCHANGED <<alive, pipe, hListen, hStopped, hpc, mic>>
      BY <3>1, <3>3 DEF Types, HelperTypes
    <3> QED BY <2>3, <3>2, <3>3 DEF Answered, FinalizeTimesOut
  <2>4. CASE UNCHANGED <<helperVars, slot>>
    BY <2>4, HelperTypesStay DEF Types
  <2> QED BY <2>1, <2>2, <2>3, <2>4
          DEF SessionStep, TakeLease, LeaseBusy, StoppedEarly, GivesUp, RequestFails,
              Join, managerVars
<1> QED BY <1>1, <1>2, <1>3, <1>4, <1>5 DEF Types

LEMMA HelperStepTypes == ASSUME Types, Helper PROVE Types'
<1>1. EngineTypes'
  <2>1. CASE HelperDies
    BY <2>1 DEF HelperDies, Types, EngineTypes, tapVars, stepVars, modeVars
  <2> QED BY <2>1, EngineTypesStay
          DEF Types, Helper, ReadPipe, TakeListen, TrailError, EndCapture, Finalize
<1>2. BufferTypes' /\ ThreadTypes' /\ ListenTypes'
  BY BufferTypesStay, ThreadTypesStay, ListenTypesStay
     DEF Types, Helper, ReadPipe, TakeListen, TrailError, EndCapture, Finalize,
         HelperDies, managerVars
<1>3. HelperTypes'
  <2>1. CASE ReadPipe
    <3>1. Head(pipe) \in {"listen", "lstop"} \X Nat
          /\ Tail(pipe) \in Seq({"listen", "lstop"} \X Nat)
      BY <2>1, HeadTailProperties DEF ReadPipe, Types, HelperTypes
    <3> QED BY <2>1, <3>1 DEF ReadPipe, Types, HelperTypes, managerVars
  <2>2. CASE TakeListen \/ TrailError \/ EndCapture \/ Finalize
    BY <2>2 DEF TakeListen, TrailError, Says, EndCapture, Finalize, Types, HelperTypes,
                managerVars
  <2>3. CASE HelperDies BY <2>3, HelperGoneTypes DEF HelperDies, Says, Types, HelperTypes
  <2> QED BY <2>1, <2>2, <2>3 DEF Helper
<1> QED BY <1>1, <1>2, <1>3 DEF Types

\* Types of every variable: the gesture, what the threads share, the lease, and
\* the helper's end of the pipe (Engine, PasteBuf, HelperStt, TtsManager).
THEOREM DictationTypes == Spec => []TypeOK
<1>1. Init => Types
  <2> SUFFICES ASSUME Init PROVE Types OBVIOUS
  <2>1. EngineTypes BY RecordsTyped DEF Init, EngineTypes
  <2>2. BufferTypes BY RecordsTyped DEF Init, BufferTypes
  <2>3. ThreadTypes BY DictationAssumption DEF Init, ThreadTypes, Recordings, NoRec
  <2>4. ListenTypes BY DEF Init, ListenTypes
  <2>5. HelperTypes BY EmptySeq DEF Init, HelperTypes
  <2> QED BY <2>1, <2>2, <2>3, <2>4, <2>5 DEF Types
<1>2. ASSUME Types, Next PROVE Types'
  BY <1>2, EngineStepTypes, InsideStepTypes, SessionTypes, HelperStepTypes
     DEF Next, Sessions
<1>3. ASSUME Types, UNCHANGED vars PROVE Types'
  BY <1>3, EngineTypesStay, BufferTypesStay, ThreadTypesStay, ListenTypesStay,
     HelperTypesStay
     DEF Types, vars, managerVars
<1>4. Types <=> TypeOK BY TypeParts
<1> QED BY <1>1, <1>2, <1>3, <1>4, PTL DEF Spec
==============================================================================
