---------------------------- MODULE BargeWatcher ----------------------------
(***************************************************************************)
(* The mic-barge watcher of dontspeakd (barge.rs): a thread that samples   *)
(* the microphone every 150 ms and pauses the speech queue while another   *)
(* program records, next to the dictation gesture (engine.rs), which       *)
(* pauses the same queue for its own reason and opens the same microphone. *)
(*                                                                         *)
(* One watcher tick is three steps: sample the microphone, read stt_active *)
(* and decide, act on the queue; the gesture and the other program run in  *)
(* between.  Time is counted in watcher ticks.                             *)
(***************************************************************************)
EXTENDS Naturals

CONSTANTS
  MaxTicks,    (* BARGE_MAX_TICKS, 40 in the code                          *)
  GraceTicks   (* TEARDOWN_GRACE_TICKS, 4 in the code                      *)

ASSUME BargeWatcherAssumption == MaxTicks \in Nat \ {0} /\ GraceTicks \in Nat \ {0}

VARIABLES
  paused,      (* the queue: "no", or the PauseCause holding it            *)
  gesture,     (* "idle", "floor" (paused), "recording", "stopped", and a  *)
               (* long press: "aborting", "cleared"                        *)
  sttActive,   (* the flag the watcher reads to know our own dictation     *)
  capture,     (* our microphone: "closed", "opening", "open"              *)
  foreign,     (* another program records                                  *)
  fullDuplex,  (* the echo-cancelled microphone is always live             *)
  cleared,     (* history: the queue was cleared since the floor was taken *)
  lag,         (* history: samples since sttActive fell that saw our mic   *)
  seen,        (* history: a tick has seen the capture of this dictation   *)
  wpc, action,
  sample,      (* what the tick read; who was recording then is history    *)
  st           (* BargeState                                               *)

world == <<sttActive, capture, foreign, fullDuplex, lag, seen>>
watcher == <<wpc, sample, action, st>>
vars == <<paused, gesture, cleared, world, watcher>>

BargeState ==
  [prev : BOOLEAN, barged : BOOLEAN, ticks : 0..(MaxTicks - 1),
   prevOurs : BOOLEAN, grace : 0..(GraceTicks - 1)]

Init ==
  /\ paused = "no" /\ gesture = "idle"
  /\ sttActive = FALSE /\ capture = "closed" /\ foreign = FALSE
  /\ fullDuplex \in BOOLEAN
  /\ cleared = FALSE /\ lag = 0 /\ seen = TRUE
  /\ wpc = "asleep" /\ action = "none"
  /\ sample = [active |-> FALSE, duplex |-> FALSE, foreign |-> FALSE,
               own |-> FALSE]
  /\ st = [prev |-> FALSE, barged |-> FALSE, ticks |-> 0, prevOurs |-> FALSE,
           grace |-> 0]

-----------------------------------------------------------------------------
(* barge_step.                                                             *)

Tick(act, prev, barged, ticks, ours, grace) ==
  [action |-> act,
   st |-> [prev |-> prev, barged |-> barged, ticks |-> ticks,
           prevOurs |-> ours, grace |-> grace]]

\* Wrong on purpose: entering full duplex forgets the pause.
StandDownForgetting(ours, s) == Tick("none", TRUE, FALSE, 0, ours, 0)

\* Full duplex: no edges, and a pause taken before is given back.
StandDown(ours, s) ==
  Tick(IF s.barged THEN "resume" ELSE "none", TRUE, FALSE, 0, ours, 0)

\* Wrong on purpose: no grace for our own teardown.
AfterOursAtOnce(active, s) ==
  IF active THEN Tick("pause", TRUE, TRUE, 0, FALSE, 0)
            ELSE Tick("none", FALSE, s.barged, s.ticks, FALSE, 0)

\* Our dictation ended: a live microphone is ours for GraceTicks - 1 ticks.
AfterOurs(active, s) ==
  IF ~active THEN Tick("none", FALSE, s.barged, s.ticks, FALSE, 0)
  ELSE IF s.grace + 1 < GraceTicks
    THEN Tick("none", FALSE, s.barged, s.ticks, FALSE, s.grace + 1)
    ELSE Tick("pause", TRUE, TRUE, 0, FALSE, 0)

\* Wrong on purpose: one tick too many before a sticky barge is given up.
OnEdgeLate(active, ours, s) ==
  IF active /\ ~s.prev /\ ~ours THEN Tick("pause", TRUE, TRUE, 0, ours, 0)
  ELSE IF s.barged /\ (~active \/ (~ours /\ s.ticks + 1 > MaxTicks))
    THEN Tick("resume", active, FALSE, 0, ours, 0)
  ELSE IF s.barged /\ ~ours THEN Tick("none", active, TRUE, s.ticks + 1, ours, 0)
  ELSE Tick("none", active, s.barged, s.ticks, ours, 0)

\* Wrong on purpose: a sticky microphone is never given up.
OnEdgeSticky(active, ours, s) ==
  IF active /\ ~s.prev /\ ~ours THEN Tick("pause", TRUE, TRUE, 0, ours, 0)
  ELSE IF s.barged /\ ~active THEN Tick("resume", active, FALSE, 0, ours, 0)
  ELSE Tick("none", active, s.barged, s.ticks, ours, 0)

\* A foreign rising edge pauses; its end, or MaxTicks ticks of it, resumes.
OnEdge(active, ours, s) ==
  IF active /\ ~s.prev /\ ~ours THEN Tick("pause", TRUE, TRUE, 0, ours, 0)
  ELSE IF s.barged /\ (~active \/ (~ours /\ s.ticks + 1 >= MaxTicks))
    THEN Tick("resume", active, FALSE, 0, ours, 0)
  ELSE IF s.barged /\ ~ours THEN Tick("none", active, TRUE, s.ticks + 1, ours, 0)
  ELSE Tick("none", active, s.barged, s.ticks, ours, 0)

\* Wrong on purpose: only edges count, also after our dictation.
BargeStepOnEdges(active, ours, duplex, s) ==
  IF duplex THEN StandDown(ours, s) ELSE OnEdge(active, ours, s)

BargeStep(active, ours, duplex, s) ==
  IF duplex THEN StandDown(ours, s)
  ELSE IF (s.prevOurs \/ s.grace > 0) /\ ~ours THEN AfterOurs(active, s)
  ELSE OnEdge(active, ours, s)

-----------------------------------------------------------------------------
(* The watcher thread.                                                     *)

\* Our capture is live though our dictation has ended.
Leftover == capture # "closed" /\ ~sttActive

\* is_full_duplex, then the microphone.  No 150 ms pass between the two
\* statements of a stopping tap; lag is not counted beyond the grace.
WatcherSample ==
  /\ wpc = "asleep" /\ gesture # "stopped"
  /\ sample' = [active |-> ~fullDuplex /\ (foreign \/ capture = "open"),
                duplex |-> fullDuplex, foreign |-> foreign,
                own |-> capture = "open"]
  /\ lag' = IF Leftover /\ lag + 1 < GraceTicks THEN lag + 1 ELSE lag
  /\ wpc' = "sampled"
  /\ UNCHANGED <<paused, gesture, cleared, sttActive, capture, foreign,
                 fullDuplex, seen, action, st>>

\* stt_active is read after the microphone.
WatcherDecide ==
  /\ wpc = "sampled"
  /\ LET tick == BargeStep(sample.active, sttActive, sample.duplex, st)
     IN action' = tick.action /\ st' = tick.st
  /\ seen' = (seen \/ (sttActive /\ sample.own))
  /\ wpc' = "act"
  /\ UNCHANGED <<paused, gesture, cleared, sttActive, capture, foreign,
                 fullDuplex, lag, sample>>

\* pause_for_suspected_barge leaves a dictation pause alone;
\* resume_if_barge_speculative lifts no other.
BargePause(p) == IF p = "dictation" THEN p ELSE "barge"

\* Wrong on purpose: the watcher lifts any pause.
BargeResumeAny(p) == "no"

BargeResume(p) == IF p = "barge" THEN "no" ELSE p

WatcherAct ==
  /\ wpc = "act"
  /\ paused' = CASE action = "pause" -> BargePause(paused)
                 [] action = "resume" -> BargeResume(paused)
                 [] OTHER -> paused
  /\ action' = "none"
  /\ wpc' = "asleep"
  /\ UNCHANGED <<gesture, cleared, world, sample, st>>

-----------------------------------------------------------------------------
(* The gesture thread: start_recording and stop_recording.                 *)

\* pause_for_record, whatever holds the queue already.
TakeFloor ==
  /\ gesture = "idle"
  /\ paused' = "dictation"
  /\ gesture' = "floor" /\ cleared' = FALSE
  /\ UNCHANGED <<world, watcher>>

\* stt_active is published before the capture is asked for.
StartRecording ==
  /\ gesture = "floor"
  /\ sttActive' = TRUE
  /\ capture' = IF capture = "closed" THEN "opening" ELSE capture
  /\ lag' = 0 /\ seen' = FALSE
  /\ gesture' = "recording"
  /\ sample' = [sample EXCEPT !.own = FALSE]
  /\ UNCHANGED <<paused, cleared, foreign, fullDuplex, wpc, action, st>>

StopRecording ==
  /\ gesture = "recording"
  /\ sttActive' = FALSE
  /\ gesture' = "stopped"
  /\ UNCHANGED <<paused, cleared, capture, foreign, fullDuplex, lag, seen, watcher>>

\* resume lifts a pause of any cause.
GiveFloor ==
  /\ gesture = "stopped"
  /\ paused' = "no"
  /\ gesture' = "idle"
  /\ UNCHANGED <<cleared, world, watcher>>

\* cancel_all: the capture is aborted (a wait of seconds), the queue is cleared,
\* its pause of any cause with it, and only then is stt_active withdrawn.
LongPress ==
  /\ gesture = "recording"
  /\ gesture' = "aborting"
  /\ UNCHANGED <<paused, cleared, world, watcher>>

ClearFloor ==
  /\ gesture = "aborting"
  /\ paused' = "no" /\ cleared' = TRUE
  /\ gesture' = "cleared"
  /\ UNCHANGED <<world, watcher>>

EndAborted ==
  /\ gesture = "cleared"
  /\ sttActive' = FALSE
  /\ gesture' = "idle"
  /\ UNCHANGED <<paused, cleared, capture, foreign, fullDuplex, lag, seen, watcher>>

\* A global Stop, or a session that ends without a queue identity, clears the
\* queue and lifts its pause at any moment, a recording or not; the gesture is
\* not told.
ClearFromOutside ==
  /\ paused' = "no" /\ cleared' = TRUE
  /\ UNCHANGED <<gesture, world, watcher>>

-----------------------------------------------------------------------------
(* The helper's capture, the other program, the duplex mode.               *)

CaptureOpens ==
  /\ capture = "opening"
  /\ capture' = "open"
  /\ UNCHANGED <<paused, gesture, cleared, sttActive, foreign, fullDuplex, lag,
                 seen, watcher>>

\* Stopped, aborted, failed to open, or at its own limit of a minute.
CaptureCloses ==
  /\ capture # "closed"
  /\ capture' = "closed"
  /\ UNCHANGED <<paused, gesture, cleared, sttActive, foreign, fullDuplex, lag,
                 seen, watcher>>

ForeignToggles ==
  /\ foreign' = ~foreign
  /\ UNCHANGED <<paused, gesture, cleared, sttActive, capture, fullDuplex, lag,
                 seen, watcher>>

DuplexToggles ==
  /\ fullDuplex' = ~fullDuplex
  /\ UNCHANGED <<paused, gesture, cleared, sttActive, capture, foreign, lag,
                 seen, watcher>>

-----------------------------------------------------------------------------

Watch == WatcherSample \/ WatcherDecide \/ WatcherAct

Next ==
  \/ Watch
  \/ TakeFloor \/ StartRecording \/ StopRecording \/ GiveFloor
  \/ LongPress \/ ClearFloor \/ EndAborted \/ ClearFromOutside
  \/ CaptureOpens \/ CaptureCloses
  \/ ForeignToggles \/ DuplexToggles

Spec == Init /\ [][Next]_vars

\* The watcher loops for ever, a stopped capture closes, and the gesture thread
\* completes the tap or the press it handles; nobody has to tap.
FairSpec ==
  /\ Spec
  /\ WF_vars(Watch) /\ WF_vars(Leftover /\ CaptureCloses)
  /\ WF_vars(StartRecording) /\ WF_vars(GiveFloor)
  /\ WF_vars(ClearFloor) /\ WF_vars(EndAborted)

-----------------------------------------------------------------------------
(* Properties.                                                             *)

\* Types (BargeState and what the two threads share); the tick counters stay
\* under their bounds.
TypeOK ==
  /\ paused \in {"no", "dictation", "barge"}
  /\ gesture \in {"idle", "floor", "recording", "stopped", "aborting", "cleared"}
  /\ sttActive \in BOOLEAN /\ foreign \in BOOLEAN /\ fullDuplex \in BOOLEAN
  /\ capture \in {"closed", "opening", "open"}
  /\ cleared \in BOOLEAN /\ lag \in 0..(GraceTicks - 1) /\ seen \in BOOLEAN
  /\ wpc \in {"asleep", "sampled", "act"}
  /\ sample \in [active : BOOLEAN, duplex : BOOLEAN, foreign : BOOLEAN,
                 own : BOOLEAN]
  /\ action \in {"none", "pause", "resume"}
  /\ st \in BargeState

\* From the tap that takes the floor to the tap or long press that gives it
\* back, the queue is paused for dictation, unless it was cleared meanwhile: no
\* barge relabels that pause, so none lifts it (PauseCause, pause_with_cause,
\* resume_if_barge_speculative).
FloorIsKept ==
  gesture \in {"floor", "recording", "stopped", "aborting"} /\ ~cleared =>
    paused = "dictation"

\* A speculative pause always has an owner that will lift it: the watcher
\* remembers it, or is about to resume (BargeState.barged, the unwind on
\* entering full duplex).
PauseIsOwned ==
  paused = "barge" => st.barged \/ (wpc = "act" /\ action = "resume")

\* The watcher pauses only for a microphone that another program had open when
\* it was sampled: our own capture, live while it opens or tears down, is not
\* taken for a foreign one (teardown_grace, stt_active before stt.start).  Two
\* cases are outside what the grace promises: a dictation shorter than any tick,
\* and a capture still live in as many samples as the grace withholds.
OurMicIsNotForeign ==
  wpc = "act" /\ action = "pause" /\ seen /\ lag + 1 < GraceTicks => sample.foreign

\* A microphone that stays live for ever pauses the queue for a bounded time
\* only, once we do not dictate any more (BARGE_MAX_TICKS).
BargeIsBounded == <>[]~sttActive => (paused = "barge" ~> paused # "barge")

\* A program that starts recording during our dictation leaves no edge; it is
\* caught all the same, in half duplex, once our last dictation, one that the
\* watcher saw, has ended (teardown_grace).
MaskedForeignIsCaught ==
  []~fullDuplex /\ <>[](~sttActive /\ seen) =>
    (sttActive /\ foreign ~> paused = "barge" \/ ~foreign)
=============================================================================
