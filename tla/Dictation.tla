----------------------------- MODULE Dictation -----------------------------
(***************************************************************************)
(* One Caps dictation after another (engine.rs, helper_stt.rs, the listen  *)
(* half of tts/mod.rs, and the helper's listen loop).                      *)
(*                                                                         *)
(* Four kinds of thread meet in a recording: the engine's poll thread runs *)
(* the tap gesture; each start spawns a listen thread that leases the      *)
(* helper's one listen slot; each stop spawns a joiner that deposits the   *)
(* final text in the shared preview buffer whenever the recognizer is done *)
(* with it; and the helper opens the microphone.  The poll thread never    *)
(* waits for a final: it arms a deferred submit and pastes on a later      *)
(* tick, unless a second tap, a long press, a closed window or a reload    *)
(* comes first.                                                            *)
(***************************************************************************)
EXTENDS Integers, Sequences, FiniteSets

CONSTANTS
  MaxRecordings,   (* bound on the recordings started                      *)
  MaxUpsets,       (* bound on reloads, gate flips, closed windows and
                      deaths of the helper, together                       *)
  Windows,         (* windows that can own a recording                     *)
  NoWindow,        (* the platform could not tell                          *)
  DoubleTapSubmit  (* the config option of that name                       *)

ASSUME DictationAssumption ==
  /\ MaxRecordings \in Nat \ {0}
  /\ MaxUpsets \in Nat
  /\ NoWindow \notin Windows
  /\ DoubleTapSubmit \in BOOLEAN

Recordings == 1 .. MaxRecordings
NoRec == 0

VARIABLES
  (* the poll thread: the gesture, the press, a tap that waits for another *)
  gesture, press, pendingTap, capsOwner,
  epc, reason,
  dictationOn, caps,
  flipWindow,      (* the clock: the stop tap's double-tap window is open,
                      and no second tap has used it                        *)
  (* shared with other threads                                             *)
  sttActive, voice, closed,
  final,           (* PasteBuf::final_state, with whose text it is         *)
  scope,           (* whose epoch PasteBuf::epoch still is, if anyone's    *)
  (* HelperStt and its threads, by recording                               *)
  recs, stopFlag, spc, joiner, text,
  (* TtsManager's listen half                                              *)
  lease, generation, genOf, activeGen, stoppedThrough, stopClock, slot,
  (* the helper                                                            *)
  alive, pipe, hListen, hStopped, hpc, mic,
  upsets,
  fate             (* history: what became of each recording               *)

tapVars == <<gesture, press, pendingTap, flipWindow>>
stepVars == <<epc, reason>>
modeVars == <<dictationOn, caps>>
bufVars == <<final, scope>>
sessVars == <<spc, text>>
leaseVars == <<lease, generation, genOf, activeGen>>
stopVars == <<stoppedThrough, stopClock>>
helperVars == <<alive, pipe, hListen, hStopped, hpc, mic>>

worldVars == <<closed, upsets>>

engineVars == <<tapVars, capsOwner, stepVars, modeVars, sttActive,
                voice, worldVars>>
threadVars == <<recs, stopFlag, joiner, sessVars>>
managerVars == <<leaseVars, stopVars, slot>>
vars == <<engineVars, bufVars, threadVars, managerVars, helperVars, fate>>

Idle == [state |-> "Idle", stopTap |-> FALSE, double |-> FALSE, submit |-> FALSE]
Recording == [Idle EXCEPT !.state = "Recording"]
Armed ==
  [state |-> "ConfirmArmed", stopTap |-> TRUE, double |-> FALSE,
   submit |-> ~DoubleTapSubmit]

NoFinal == [kind |-> "Idle", of |-> NoRec]
Final(kind, s) == [kind |-> kind, of |-> s]

Init ==
  /\ gesture = Idle /\ press = "Up" /\ pendingTap = FALSE
  /\ flipWindow = FALSE
  /\ capsOwner = NoWindow
  /\ epc = "idle" /\ reason = "none" /\ dictationOn = TRUE /\ caps = TRUE
  /\ sttActive = FALSE /\ voice = "free" /\ closed = {}
  /\ final = NoFinal /\ scope = NoRec
  /\ recs = 0 /\ stopFlag = [s \in Recordings |-> FALSE]
  /\ spc = [s \in Recordings |-> "off"]
  /\ joiner = [s \in Recordings |-> FALSE]
  /\ text = [s \in Recordings |-> "blank"]
  /\ lease = NoRec /\ generation = 0 /\ genOf = [s \in Recordings |-> 0]
  /\ activeGen = 0 /\ stoppedThrough = 0 /\ stopClock = 0 /\ slot = "clear"
  /\ alive = FALSE /\ pipe = <<>> /\ hListen = 0 /\ hStopped = 0
  /\ hpc = "idle" /\ mic = 0
  /\ upsets = 0
  /\ fate = [s \in Recordings |-> "none"]

-----------------------------------------------------------------------------
(* The poll thread.  A tick runs these steps one after another every 30 ms;  *)
(* here each may run whenever the thread is between steps.  Inside a step    *)
(* `epc` says where a stop or an abort stands.                               *)

Free == epc = "idle"
IsRecording == gesture.state = "Recording"
IsArmed == gesture.state = "ConfirmArmed"
Discarded == [s \in Recordings |->
                IF fate[s] \in {"recording", "stopped"} THEN "discarded"
                                                        ELSE fate[s]]

\* capture_frontmost_window.  A window the platform cannot name is to the
\* engine one that never closes.
FrontWindow == IF Windows \ closed = {} THEN {NoWindow} ELSE Windows \ closed

\* start_recording and HelperStt::start: the buffer is reset and stamped with
\* the new recording's epoch, the flag is published, a listen thread spawned.
StartRecording ==
  LET s == recs + 1 IN
  /\ s \in Recordings
  /\ recs' = s
  /\ capsOwner' \in FrontWindow
  /\ voice' = "held"
  /\ gesture' = Recording
  /\ final' = NoFinal /\ scope' = s
  /\ sttActive' = TRUE
  /\ spc' = [spc EXCEPT ![s] = "spawned"]
  /\ fate' = [Discarded EXCEPT ![s] = "recording"]
  /\ UNCHANGED <<flipWindow, stepVars, modeVars, worldVars,
                 stopFlag, joiner, text, managerVars, helperVars>>

\* stop_recording, up to HelperStt::stop raising the recording's flag.
StopRecording ==
  /\ gesture' = Idle
  /\ stopFlag' = [stopFlag EXCEPT ![recs] = TRUE]
  /\ epc' = "stopping"
  /\ fate' = [fate EXCEPT ![recs] = "stopped"]
  /\ UNCHANGED <<flipWindow, capsOwner, reason, modeVars,
                 sttActive, voice, worldVars, bufVars, recs, joiner, sessVars,
                 managerVars, helperVars>>

\* With dictation off a tap holds the voice, and the next one lets it go.
ToggleVoice ==
  /\ voice' = IF voice = "held" THEN "free" ELSE "held"
  /\ UNCHANGED <<gesture, flipWindow, capsOwner, stepVars,
                 modeVars, sttActive, worldVars, bufVars, threadVars, managerVars,
                 helperVars, fate>>

\* The engine is not ready: the tap only lights the refusal cue.
Refuse ==
  UNCHANGED <<gesture, flipWindow, capsOwner, stepVars,
              modeVars, sttActive, voice, worldVars, bufVars, threadVars,
              managerVars, helperVars, fate>>

\* toggle_dictation, caps_tap_action.  The caller says what becomes of the
\* press and of a pending tap.
Toggle ==
  IF ~dictationOn THEN ToggleVoice
  ELSE IF IsRecording THEN StopRecording
  ELSE StartRecording \/ Refuse

\* Wrong on purpose: the finalize clock is not started.
StopListenUnclocked ==
  IF activeGen = 0 THEN UNCHANGED <<stopVars, pipe>>
  ELSE /\ stoppedThrough' = activeGen
       /\ pipe' = IF alive THEN Append(pipe, <<"lstop", activeGen>>) ELSE pipe
       /\ UNCHANGED stopClock

\* TtsManager::stop_listen, for the generation that is published by now.
StopListen ==
  IF activeGen = 0 THEN UNCHANGED <<stopVars, pipe>>
  ELSE /\ stoppedThrough' = IF activeGen > stoppedThrough THEN activeGen
                                                          ELSE stoppedThrough
       /\ stopClock' = activeGen
       /\ pipe' = IF alive THEN Append(pipe, <<"lstop", activeGen>>) ELSE pipe

\* HelperStt::stop: the listen is told to end, a joiner takes its handle.
StopSession ==
  /\ epc = "stopping"
  /\ StopListen
  /\ joiner' = [joiner EXCEPT ![recs] = TRUE]
  /\ epc' = "arming"
  /\ UNCHANGED <<tapVars, capsOwner, reason, modeVars, sttActive,
                 voice, worldVars, bufVars, recs, stopFlag, sessVars, leaseVars,
                 slot, alive, hListen, hStopped, hpc, mic, fate>>

\* Wrong on purpose: arming forgets a final that came first.
ArmedFinalOverwriting == Final("Armed", recs)

\* PasteBuf::arm: a final the joiner has already deposited stays.
ArmedFinal == IF final.kind = "Idle" THEN Final("Armed", recs) ELSE final

\* The rest of stop_recording: the voice resumes, the submit is armed.
ArmConfirm ==
  /\ epc = "arming"
  /\ sttActive' = FALSE
  /\ voice' = "free"
  /\ gesture' = Armed
  /\ flipWindow' = TRUE
  /\ final' = ArmedFinal
  /\ epc' = "idle"
  /\ UNCHANGED <<press, pendingTap, capsOwner, reason, modeVars,
                 worldVars, scope, threadVars, managerVars, helperVars, fate>>

\* Wrong on purpose: the epoch stays where it was.
EndTurnSameEpoch(why) ==
  /\ gesture' = Idle /\ final' = NoFinal /\ UNCHANGED scope
  /\ sttActive' = FALSE /\ capsOwner' = NoWindow
  /\ press' = "Up" /\ pendingTap' = FALSE /\ voice' = "free"
  /\ UNCHANGED modeVars
  /\ fate' = Discarded

\* The end of a turn that is not a stop: what cancel_all, teardown_hold and
\* cancel_if_caps_owner_closed leave behind.  The epoch moves on, so that a
\* joiner still out comes back to a buffer that is no longer its own.
EndTurn(why) ==
  /\ gesture' = Idle
  /\ final' = NoFinal /\ scope' = NoRec
  /\ sttActive' = FALSE
  /\ capsOwner' = NoWindow
  /\ press' = IF why = "cancel" THEN "Held"
              ELSE IF why \in {"closed", "gate"} THEN "Up" ELSE press
  /\ pendingTap' = (pendingTap /\ why \notin {"cancel", "closed"})
  /\ voice' = IF why = "cancel" \/ (why = "closed" /\ reason = "closed")
              THEN "free" ELSE voice
  /\ dictationOn' = IF why = "reload" THEN ~dictationOn ELSE dictationOn
  /\ caps' = (caps /\ why # "gate")
  /\ fate' = Discarded

\* A recording is aborted first: HelperStt::abort raises the flag ...
BeginAbort(why) ==
  /\ stopFlag' = [stopFlag EXCEPT ![recs] = TRUE]
  /\ epc' = "aborting" /\ reason' = why
  /\ UNCHANGED <<tapVars, capsOwner, dictationOn, caps, sttActive,
                 voice, closed, bufVars, recs, joiner, sessVars, managerVars,
                 helperVars, fate>>

\* ... ends the listen ...
AbortSession ==
  /\ epc = "aborting"
  /\ StopListen
  /\ epc' = "joining"
  /\ UNCHANGED <<tapVars, capsOwner, reason, modeVars, sttActive,
                 voice, worldVars, bufVars, threadVars, leaseVars, slot, alive,
                 hListen, hStopped, hpc, mic, fate>>

\* ... and waits for its thread, for three seconds at most.
FinishAbort ==
  /\ epc = "joining"
  /\ EndTurn(reason)
  /\ epc' = "idle" /\ reason' = "none"
  /\ UNCHANGED <<flipWindow,  worldVars, threadVars, managerVars,
                 helperVars>>

\* Wrong on purpose: the turn ends and the recording is forgotten.
EndOrAbortForgetting(why) ==
  /\ EndTurn(why)
  /\ UNCHANGED <<flipWindow, stepVars, closed, threadVars, managerVars,
                 helperVars>>

\* End the turn, aborting a recording on the way.
EndOrAbort(why) ==
  IF IsRecording THEN BeginAbort(why)
  ELSE /\ EndTurn(why)
       /\ UNCHANGED <<flipWindow, stepVars, closed, threadVars, managerVars,
                      helperVars>>

\* cancel_if_caps_owner_closed: the window that owned the turn is gone.
CapsOwnerClosed ==
  /\ Free /\ capsOwner \in closed
  /\ EndOrAbort("closed")
  /\ UNCHANGED upsets

\* check_long_press, cancel_all: a held press cancels everything, once.
LongPress ==
  /\ Free /\ caps /\ press = "Down"
  /\ EndOrAbort("cancel")
  /\ UNCHANGED upsets

\* reload with another engine, which turns dictation on or off here.
Reload ==
  /\ Free /\ upsets < MaxUpsets
  /\ upsets' = upsets + 1
  /\ EndOrAbort("reload")

\* set_caps_gate: OFF tears a turn down and forgets the press.
GateOff ==
  /\ Free /\ caps /\ upsets < MaxUpsets
  /\ upsets' = upsets + 1
  /\ IF gesture # Idle THEN EndOrAbort("gate")
     ELSE /\ caps' = FALSE /\ press' = "Up"
          /\ UNCHANGED <<gesture, pendingTap, flipWindow, capsOwner,
                         stepVars, dictationOn, sttActive, voice, closed,
                         bufVars, threadVars, managerVars, helperVars, fate>>

GateOn ==
  /\ Free /\ ~caps
  /\ caps' = TRUE
  /\ UNCHANGED <<tapVars, capsOwner, stepVars, dictationOn,
                  sttActive, voice, worldVars, bufVars, threadVars,
                 managerVars, helperVars, fate>>

-----------------------------------------------------------------------------
(* The Caps key.                                                           *)

\* apply_caps_edge, down: inside the stop tap's window it is a second tap.
PressDown ==
  /\ Free /\ caps /\ press = "Up"
  /\ press' = "Down"
  /\ gesture' = IF IsArmed
                THEN [gesture EXCEPT !.double = gesture.stopTap /\ flipWindow]
                ELSE gesture
  /\ UNCHANGED <<pendingTap, flipWindow, capsOwner, stepVars,
                 modeVars, sttActive, voice, worldVars, bufVars, threadVars,
                 managerVars, helperVars, fate>>

\* The second tap of the stop double flips insert and submit, once.
Flip ==
  /\ gesture' = [gesture EXCEPT !.double = FALSE, !.stopTap = FALSE,
                                !.submit = ~gesture.submit]
  /\ flipWindow' = FALSE
  /\ UNCHANGED <<pendingTap, capsOwner, stepVars,
                 modeVars, sttActive, voice, worldVars, bufVars, threadVars,
                 managerVars, helperVars, fate>>

\* tap_decision while a voice is speaking: a lone tap waits to see, and a
\* second one inside the window skips the message instead.
TapWhileSpeaking ==
  /\ pendingTap' \in {TRUE, ~pendingTap}
  /\ UNCHANGED <<gesture, flipWindow, capsOwner, stepVars, modeVars,
                 sttActive, voice, worldVars, bufVars, threadVars, managerVars,
                 helperVars, fate>>

\* apply_caps_edge, up, and handle_tap.
TapUp ==
  /\ Free /\ caps /\ press = "Down"
  /\ press' = "Up"
  /\ IF gesture.double THEN Flip
     ELSE \/ TapWhileSpeaking
          \/ pendingTap' = FALSE /\ Toggle

\* The release of a press that a long press has used up.
HoldUp ==
  /\ Free /\ caps /\ press = "Held"
  /\ press' = "Up"
  /\ UNCHANGED <<gesture, pendingTap, flipWindow, capsOwner,
                 stepVars, modeVars, sttActive, voice, worldVars, bufVars,
                 threadVars, managerVars, helperVars, fate>>

\* check_pending_tap: a lone tap's window lapsed with no press in flight.
PendingTap ==
  /\ Free /\ caps /\ press = "Up" /\ pendingTap
  /\ pendingTap' = FALSE
  /\ Toggle
  /\ UNCHANGED press

\* DOUBLE_TAP_MS pass after a stop.
WindowLapses ==
  /\ flipWindow /\ flipWindow' = FALSE
  /\ UNCHANGED <<gesture, press, pendingTap, capsOwner, stepVars, modeVars,
                 sttActive, voice, worldVars, bufVars, threadVars, managerVars,
                 helperVars, fate>>

-----------------------------------------------------------------------------
(* The deferred submit, on a later tick.                                   *)

\* Wrong on purpose: only a press in flight holds the submit.
HeldByPress == press # "Up"

\* deferred_submit_held: a press in flight, or the flip window still open.
Held ==
  \/ press # "Up"
  \/ gesture.double
  \/ gesture.stopTap /\ flipWindow

\* The text is typed, and an Enter follows after a delay if the taps said so.
ConfirmPaste ==
  /\ final.kind = "Ready"
  /\ fate' = [fate EXCEPT ![final.of] = "pasted"]

\* The final came back empty: nothing to submit.
ConfirmNothing ==
  /\ final.kind = "Empty"
  /\ fate' = [fate EXCEPT ![final.of] = "blank"]

\* The tail of tick; confirm_paste looks at the owner's window once more.
DeferredSubmit ==
  /\ Free /\ caps /\ IsArmed /\ ~Held
  /\ \/ capsOwner \notin closed /\ ConfirmPaste
     \/ ConfirmNothing
  /\ gesture' = Idle
  /\ final' = NoFinal
  /\ capsOwner' = NoWindow
  /\ UNCHANGED <<press, pendingTap, flipWindow, stepVars, modeVars, sttActive,
                 voice, worldVars, scope, threadVars, managerVars, helperVars>>

CloseWindow(w) ==
  /\ w \notin closed /\ upsets < MaxUpsets
  /\ upsets' = upsets + 1
  /\ closed' = closed \cup {w}
  /\ UNCHANGED <<tapVars, capsOwner, stepVars, modeVars, sttActive,
                 voice, bufVars, threadVars, managerVars, helperVars, fate>>

-----------------------------------------------------------------------------
(* A recording's listen thread: TtsManager::listen_cancellable.            *)

Sess(s, from, to) == spc[s] = from /\ spc' = [spc EXCEPT ![s] = to]

\* What the thread's return leaves: ActiveGeneration's drop, then the lease's.
Released(s) ==
  /\ activeGen' = IF activeGen = genOf[s] THEN 0 ELSE activeGen
  /\ stopClock' = IF stopClock = genOf[s] THEN 0 ELSE stopClock
  /\ lease' = NoRec
  /\ UNCHANGED <<generation, genOf, stoppedThrough>>

\* mark_dead: the helper is killed and reaped.
HelperGone ==
  /\ alive' = FALSE
  /\ pipe' = <<>> /\ hListen' = 0 /\ hStopped' = 0 /\ hpc' = "idle" /\ mic' = 0

\* try_lock of the lease, and the generation published.
TakeLease(s) ==
  /\ lease = NoRec
  /\ Sess(s, "spawned", "leased")
  /\ lease' = s
  /\ generation' = generation + 1
  /\ genOf' = [genOf EXCEPT ![s] = generation + 1]
  /\ activeGen' = generation + 1
  /\ UNCHANGED <<engineVars, bufVars, recs, stopFlag, joiner, text, stopVars,
                 slot, helperVars, fate>>

\* WouldBlock: another session still has it.
LeaseBusy(s) ==
  /\ lease # NoRec
  /\ Sess(s, "spawned", "done")
  /\ UNCHANGED <<engineVars, bufVars, recs, stopFlag, joiner, text, managerVars,
                 helperVars, fate>>

\* A stop that came first ends the session before a helper is started.
StoppedEarly(s) ==
  /\ stopFlag[s]
  /\ Sess(s, "leased", "done")
  /\ Released(s)
  /\ UNCHANGED <<engineVars, bufVars, recs, stopFlag, joiner, text, slot,
                 helperVars, fate>>

\* ensure_started, which may fail.
EnsureStarted(s) ==
  /\ ~stopFlag[s]
  /\ Sess(s, "leased", "started")
  /\ alive' \in {TRUE, alive}
  /\ UNCHANGED <<engineVars, bufVars, recs, stopFlag, joiner, text, managerVars,
                 pipe, hListen, hStopped, hpc, mic, fate>>

StoppedNow(s) == stopFlag[s] \/ stoppedThrough >= genOf[s]

\* The helper is not running, or the stop has come meanwhile.
GivesUp(s) ==
  /\ ~alive \/ StoppedNow(s)
  /\ Sess(s, "started", "done")
  /\ Released(s)
  /\ UNCHANGED <<engineVars, bufVars, recs, stopFlag, joiner, text, slot,
                 helperVars, fate>>

\* The second look at the stop; then the slot is cleared for this session.
Checks(s) ==
  /\ alive /\ ~StoppedNow(s)
  /\ Sess(s, "started", "checked")
  /\ slot' = "clear"
  /\ UNCHANGED <<engineVars, bufVars, recs, stopFlag, joiner, text, leaseVars,
                 stopVars, helperVars, fate>>

\* write_request: the request reaches the pipe ...
Requests(s) ==
  /\ alive
  /\ Sess(s, "checked", "waiting")
  /\ pipe' = Append(pipe, <<"listen", genOf[s]>>)
  /\ UNCHANGED <<engineVars, bufVars, recs, stopFlag, joiner, text, managerVars,
                 alive, hListen, hStopped, hpc, mic, fate>>

\* ... or the child is gone, and marked so.
RequestFails(s) ==
  /\ ~alive
  /\ Sess(s, "checked", "done")
  /\ Released(s)
  /\ UNCHANGED <<engineVars, bufVars, recs, stopFlag, joiner, text, slot,
                 helperVars, fate>>

\* The answer: a final and LDONE, an error, or the child's end.
Answered(s) ==
  /\ slot # "clear"
  /\ Sess(s, "waiting", "done")
  /\ text' = [text EXCEPT ![s] = IF slot = "speech" THEN "speech" ELSE "blank"]
  /\ slot' = "clear"
  /\ Released(s)
  /\ IF slot = "dead" THEN HelperGone ELSE UNCHANGED <<alive, pipe, hListen,
                                                       hStopped, hpc, mic>>
  /\ UNCHANGED <<engineVars, bufVars, recs, stopFlag, joiner, fate>>

\* No final within the limit after the stop: the helper is killed.
FinalizeTimesOut(s) ==
  /\ slot = "clear" /\ stopClock = genOf[s]
  /\ Sess(s, "waiting", "done")
  /\ Released(s)
  /\ HelperGone
  /\ UNCHANGED <<engineVars, bufVars, recs, stopFlag, joiner, text, slot,
                 fate>>

SessionStep(s) ==
  \/ TakeLease(s) \/ LeaseBusy(s) \/ StoppedEarly(s) \/ EnsureStarted(s)
  \/ GivesUp(s) \/ Checks(s) \/ Requests(s) \/ RequestFails(s) \/ Answered(s)
  \/ FinalizeTimesOut(s)

\* Wrong on purpose: deposits without a look at the epoch, or at the text.
DepositedAnyEpoch(s) ==
  IF text[s] = "speech" THEN Final("Ready", s) ELSE Final("Empty", s)
DepositedRaw(s) == IF scope # s THEN final ELSE Final(text[s], s)

\* The joiner of a stopped recording: deposit_final, if the epoch is still the
\* recording's own.
Deposited(s) ==
  IF scope # s THEN final
  ELSE IF text[s] = "speech" THEN Final("Ready", s) ELSE Final("Empty", s)

Join(s) ==
  /\ joiner[s] /\ spc[s] = "done"
  /\ joiner' = [joiner EXCEPT ![s] = FALSE]
  /\ final' = Deposited(s)
  /\ text' = [text EXCEPT ![s] = "blank"]
  /\ UNCHANGED <<engineVars, scope, recs, stopFlag, spc, managerVars,
                 helperVars, fate>>

-----------------------------------------------------------------------------
(* The helper.                                                             *)

ReadPipe ==
  /\ alive /\ pipe # <<>>
  /\ pipe' = Tail(pipe)
  /\ LET op == Head(pipe)[1]
         g  == Head(pipe)[2]
     IN /\ hListen' = IF op = "listen" THEN g ELSE hListen
        /\ hStopped' = IF op = "lstop" /\ g > hStopped THEN g ELSE hStopped
  /\ UNCHANGED <<engineVars, bufVars, threadVars, managerVars, alive, hpc, mic, fate>>

\* A line for the listen slot: a session takes the first answer in it, and the
\* next session's clear drops the others.
Says(answer) == slot' = IF slot = "clear" THEN answer ELSE slot

\* generation_stopped: a stop that overtook its listen still counts.  A
\* microphone that does not open is an error, and LDONE in a line of its own.
TakeListen ==
  /\ alive /\ hpc = "idle" /\ hListen # 0
  /\ hListen' = 0
  /\ IF hStopped >= hListen
     THEN Says("blank") /\ UNCHANGED <<hpc, mic>>
     ELSE \/ Says("error") /\ hpc' = "failing" /\ UNCHANGED mic
          \/ hpc' = "capturing" /\ mic' = hListen /\ UNCHANGED slot
  /\ UNCHANGED <<engineVars, bufVars, threadVars, leaseVars, stopVars, alive,
                 pipe, hStopped, fate>>

\* The LDONE that trails an error; the session it was for may have returned, and
\* another one been started.
TrailError ==
  /\ alive /\ hpc = "failing"
  /\ Says("blank") /\ hpc' = "idle"
  /\ UNCHANGED <<engineVars, bufVars, threadVars, leaseVars, stopVars, alive,
                 pipe, hListen, hStopped, mic, fate>>

\* The capture ends with the stop, or with the session's time limit.
EndCapture ==
  /\ alive /\ hpc = "capturing"
  /\ hpc' = "finalizing"
  /\ UNCHANGED <<engineVars, bufVars, threadVars, managerVars, alive, pipe,
                 hListen, hStopped, mic, fate>>

\* The final pass; the microphone is dropped with it.
Finalize ==
  /\ alive /\ hpc = "finalizing"
  /\ Says("speech") \/ Says("blank")
  /\ mic' = 0 /\ hpc' = "idle"
  /\ UNCHANGED <<engineVars, bufVars, threadVars, leaseVars, stopVars, alive,
                 pipe, hListen, hStopped, fate>>

\* The helper dies, and the reader marks the slot.
HelperDies ==
  /\ alive /\ upsets < MaxUpsets
  /\ upsets' = upsets + 1
  /\ HelperGone
  /\ Says("dead")
  /\ UNCHANGED <<tapVars, capsOwner, stepVars, modeVars, sttActive,
                 voice, closed, bufVars, threadVars, leaseVars, stopVars, fate>>

-----------------------------------------------------------------------------
Tick ==
  \/ CapsOwnerClosed \/ LongPress \/ PendingTap
  \/ DeferredSubmit
InsideStep == StopSession \/ ArmConfirm \/ AbortSession \/ FinishAbort
UserTaps == PressDown \/ TapUp \/ HoldUp
Modes == Reload \/ GateOff \/ GateOn \/ \E w \in Windows : CloseWindow(w)
Sessions == \E s \in Recordings : SessionStep(s) \/ Join(s)
Helper ==
  \/ ReadPipe \/ TakeListen \/ TrailError \/ EndCapture \/ Finalize
  \/ HelperDies

Next ==
  \/ Tick \/ InsideStep \/ UserTaps \/ WindowLapses \/ Modes
  \/ Sessions \/ Helper

Spec == Init /\ [][Next]_vars

\* The poll thread ticks, the daemon's threads run and the clock goes on.  The
\* tick that sees a key's release ends with the deferred submit, so that a
\* user who keeps tapping does not starve it.  User and helper owe nothing.
FairSpec ==
  /\ Spec
  /\ WF_vars(CapsOwnerClosed) /\ WF_vars(LongPress) /\ WF_vars(PendingTap)
  /\ SF_vars(DeferredSubmit)
  /\ WF_vars(InsideStep) /\ WF_vars(WindowLapses)
  /\ \A s \in Recordings : WF_vars(SessionStep(s)) /\ WF_vars(Join(s))

-----------------------------------------------------------------------------
TypeOK ==
  /\ gesture \in [state : {"Idle", "Recording", "ConfirmArmed"},
                  stopTap : BOOLEAN, double : BOOLEAN, submit : BOOLEAN]
  /\ press \in {"Up", "Down", "Held"}
  /\ pendingTap \in BOOLEAN /\ flipWindow \in BOOLEAN
  /\ capsOwner \in Windows \cup {NoWindow}
  /\ epc \in {"idle", "stopping", "arming", "aborting", "joining"}
  /\ reason \in {"none", "cancel", "closed", "reload", "gate"}
  /\ dictationOn \in BOOLEAN /\ caps \in BOOLEAN /\ sttActive \in BOOLEAN
  /\ voice \in {"free", "held"} /\ closed \subseteq Windows
  /\ final \in [kind : {"Idle", "Armed", "Ready", "Empty"},
                of : Recordings \cup {NoRec}]
  /\ scope \in Recordings \cup {NoRec} /\ recs \in Recordings \cup {NoRec}
  /\ stopFlag \in [Recordings -> BOOLEAN] /\ joiner \in [Recordings -> BOOLEAN]
  /\ spc \in [Recordings -> {"off", "spawned", "leased", "started", "checked",
                             "waiting", "done"}]
  /\ text \in [Recordings -> {"speech", "blank"}]
  /\ lease \in Recordings \cup {NoRec}
  /\ generation \in Nat /\ genOf \in [Recordings -> Nat]
  /\ activeGen \in Nat /\ stoppedThrough \in Nat /\ stopClock \in Nat
  /\ slot \in {"clear", "speech", "blank", "error", "dead"}
  /\ alive \in BOOLEAN /\ pipe \in Seq({"listen", "lstop"} \X Nat)
  /\ hListen \in Nat /\ hStopped \in Nat /\ mic \in Nat
  /\ hpc \in {"idle", "failing", "capturing", "finalizing"}
  /\ upsets \in Nat
  /\ fate \in [Recordings -> {"none", "recording", "stopped", "pasted", "blank",
                              "discarded"}]

\* What the buffer awaits or holds is the text of the recording stopped last,
\* and only while its submit is armed or being armed: a final that lands after
\* a cancel, a reload or a new start leaves no trace (deposit_final, the epoch).
BufferIsCurrent ==
  final.kind # "Idle" =>
    /\ final.of = recs /\ fate[recs] = "stopped"
    /\ IsArmed \/ epc = "arming"

\* A text is pasted once, from a recording that was stopped and neither
\* cancelled nor superseded (confirm_paste).
PastesTheStopped ==
  [][\A s \in Recordings : fate[s] # "pasted" /\ fate'[s] = "pasted" =>
       /\ fate[s] = "stopped"
       /\ \A r \in Recordings : r > s => fate[r] = "none"]_vars

\* The microphone is never open behind the user's back: the helper captures
\* for the recording the engine shows, or for one that was told to stop.
MicIsOurs ==
  mic # 0 =>
    \E s \in Recordings :
      /\ genOf[s] = mic
      /\ stopFlag[s] \/ (s = recs /\ IsRecording /\ sttActive)

\* A second tap that begins inside the stop tap's window finds its text not
\* yet pasted, so that it can still choose between insert and submit.
SecondTapIsInTime ==
  [][press = "Up" /\ press' = "Down" /\ flipWindow /\ recs # NoRec =>
       fate[recs] # "pasted"]_vars

\* Every stop is answered: the text is pasted, found blank, or discarded by
\* something the user or the configuration did, even if the helper hangs.
Unanswered == {s \in Recordings : fate[s] = "stopped"}
EveryStopIsAnswered == []<>(Unanswered = {})

\* The helper captures for a session that has returned: it took the LDONE that
\* trailed an earlier session's error for its own.
Orphaned == \E s \in Recordings : genOf[s] = mic /\ spc[s] = "done"

\* However early the stop comes, and whether or not the helper heeds it, the
\* microphone of a stopped recording is closed in the end (an orphaned capture
\* has no one left to time it out: only its own limit ends that).
Overstays ==
  mic # 0 /\ ~Orphaned /\ \E s \in Recordings : genOf[s] = mic /\ stopFlag[s]
StopClosesTheMic == []<>~Overstays

\* The dictation's pause ends with the dictation (docs/AEC.md: "the start tap
\* pauses the TTS queue, the stop tap resumes it").
VoiceHeldOnlyWhileRecording ==
  voice = "held" /\ dictationOn /\ Free => IsRecording

=============================================================================
