------------------------------ MODULE TtsQueue ------------------------------
(***************************************************************************)
(* The speech queue of dontspeakd (ttsq.rs): one worker thread that claims *)
(* items from a shared queue and plays them through the warm helper, and   *)
(* the threads that pause, resume, skip and clear it meanwhile.            *)
(*                                                                         *)
(* One action is one critical section or one atomic access of the code.    *)
(* A cancellation is four of them: it marks its intent (paused, or a       *)
(* pruned queue), advances the generation, records under the generation it *)
(* replaced whether the interrupted item comes back, and sends the helper  *)
(* a fade.  The worker compares the generation with the one it snapshot    *)
(* before its claim.  What the helper does with the stream is `audio`.     *)
(***************************************************************************)
EXTENDS QueueOrder

CONSTANTS
  Callers,       (* the threads that issue control operations              *)
  OpsOf,         (* caller -> the operations that thread issues            *)
  Targets,       (* the tags control operations are aimed at               *)
  Gates,         (* the holds that come and go: "mic", "focus"            *)
  CancelKindCap, (* entries kept of cancel_kind, 32 in the code            *)
  MaxGeneration, (* bound on cancellations: no operation starts past it    *)
  Worker, Free,  (* the other holders of the items lock                    *)
  NoItem

ASSUME TtsQueueAssumption ==
  /\ Worker \notin Callers
  /\ Free \notin Callers \cup {Worker}
  /\ NoItem \notin Items
  /\ Targets \subseteq Tags \cup {NoSession}
  /\ Gates \subseteq {"mic", "focus"}
  /\ CancelKindCap \in Nat \ {0}
  /\ MaxGeneration \in Nat

VARIABLES
  items,        (* the VecDeque behind the items lock                      *)
  lock,         (* who holds that lock across several actions              *)
  active,       (* ActiveSel: last MarkActive, last enqueue                *)
  preferredRun, (* SchedulerState, local to the worker                     *)
  generation,   (* cancel generation                                       *)
  cancelKind,   (* generation a cancel replaced -> does the item come back *)
  paused,       (* "no", or the PauseCause that holds the queue            *)
  ttsActive, inFlight, playing, fates,
  audio,        (* the helper: "silent", "speaking" or "fading"            *)
  hold,         (* live gates: the microphone, an unfocused terminal       *)
  wpc, wItem, wGen, wOutcome, wRetries,
  cpc, cGen, cRequeue, cDropped, cOther,
  admitted,     (* history: items ever accepted                            *)
  wHit,         (* history: what has cancelled this claim, and in what order *)
  wCut          (* history: the last speak ended by a fade                 *)

queueVars == <<items, lock, active, preferredRun>>
cancelVars == <<generation, cancelKind, paused>>
statusVars == <<ttsActive, inFlight, playing, fates>>
workerVars == <<wpc, wItem, wGen, wOutcome, wRetries, wCut>>
callerVars == <<cpc, cGen, cRequeue, cDropped, cOther>>
vars == <<queueVars, cancelVars, statusVars, audio, hold, workerVars,
          callerVars, admitted, wHit>>

Outcomes == {"spoken", "failed", "cancelled", "dropped"}

Init ==
  /\ items = <<>> /\ lock = Free /\ preferredRun = 0
  /\ active = [explicit |-> NoSession, recent |-> NoSession]
  /\ generation = 0 /\ cancelKind = <<>> /\ paused = "no"
  /\ ttsActive = FALSE /\ inFlight = FALSE /\ playing = NoItem
  /\ fates = [u \in Speech |-> <<>>]
  /\ audio = "silent" /\ hold = {}
  /\ wpc = "lock" /\ wItem = NoItem /\ wGen = 0 /\ wOutcome = "cancelled"
  /\ wRetries = 0 /\ wCut = FALSE
  /\ cpc = [c \in Callers |-> "idle"] /\ cGen = [c \in Callers |-> 0]
  /\ cRequeue = [c \in Callers |-> FALSE]
  /\ cDropped = [c \in Callers |-> {}]
  /\ cOther = [c \in Callers |-> NoSession]
  /\ admitted = {} /\ wHit = "none"

-----------------------------------------------------------------------------
(* Shared helpers.                                                         *)

\* Condvar::notify_one: lost unless the worker is already waiting.
Notified == IF wpc = "asleep" THEN "lock" ELSE wpc

\* ActiveSel::effective.
Effective ==
  IF active.explicit # NoSession THEN active.explicit ELSE active.recent

\* Terminal records for a set of handles.
Ended(handles, outcome) ==
  [u \in Speech |-> IF u \in handles THEN Append(fates[u], outcome)
                                     ELSE fates[u]]

Cancelled == generation # wGen

\* record_cancel_kind: the oldest entry goes when the map outgrows its cap.
WithKind(kinds, gen, requeue) ==
  LET all == [g \in DOMAIN kinds \cup {gen} |->
                 IF g = gen THEN requeue ELSE kinds[g]]
      kept == IF Cardinality(DOMAIN all) <= CancelKindCap THEN DOMAIN all
              ELSE {g \in DOMAIN all : \E h \in DOMAIN all : h < g}
  IN [g \in kept |-> all[g]]

Without1(kinds, gen) == [g \in DOMAIN kinds \ {gen} |-> kinds[g]]

-----------------------------------------------------------------------------
(* Producers: enqueue_action, under the items lock.                        *)

Enqueue(i) ==
  /\ lock = Free
  /\ i \notin admitted
  /\ Fits(items, i)
  /\ active' = [active EXCEPT !.recent = SessionOf[i]]
  /\ items' = Append(items, i)
  /\ admitted' = admitted \cup {i}
  /\ wpc' = Notified
  /\ UNCHANGED <<lock, preferredRun, cancelVars, statusVars, audio, hold, wItem,
                 wGen, wOutcome, wRetries, wCut, callerVars, wHit>>

-----------------------------------------------------------------------------
(* Environment: the microphone and the frontmost application.              *)

ToggleHold(gate) ==
  /\ hold' = IF gate \in hold THEN hold \ {gate} ELSE hold \cup {gate}
  /\ UNCHANGED <<queueVars, cancelVars, statusVars, audio, workerVars,
                 callerVars, admitted, wHit>>

-----------------------------------------------------------------------------
(* Control operations.                                                     *)

CanStart(c, op) ==
  /\ cpc[c] = "idle"
  /\ op \in OpsOf[c]
  /\ generation < MaxGeneration

Goto(c, label) == cpc' = [cpc EXCEPT ![c] = label]

\* Wrong on purpose: the latest cause wins.
PausedByLatest(cause) == paused' = cause

\* pause_with_cause: a speculative barge never relabels a dictation pause.
PausedBy(cause) ==
  /\ ~(cause = "barge" /\ paused = "dictation")
  /\ paused' = cause

Pause(c, cause) ==
  /\ CanStart(c, cause)
  /\ PausedBy(cause)
  /\ cRequeue' = [cRequeue EXCEPT ![c] = TRUE]
  /\ Goto(c, "bump")
  /\ UNCHANGED <<queueVars, generation, cancelKind, statusVars, audio, hold,
                 workerVars, cGen, cDropped, cOther, admitted, wHit>>

\* From its snapshot on, a claim is hit by every cancellation.
HitBy(requeue) ==
  IF wpc \in {"lock", "asleep", "release"} THEN wHit
  ELSE IF requeue THEN IF wHit = "none" THEN "pause" ELSE wHit
  ELSE IF wHit = "pause" THEN "pauseThenHard"
  ELSE IF wHit = "none" THEN "hard" ELSE wHit

\* Every cancellation advances the generation; only a skip leaves tts_active.
Bump(c) ==
  /\ cpc[c] \in {"bump", "skip"}
  /\ generation' = generation + 1
  /\ cGen' = [cGen EXCEPT ![c] = generation]
  /\ ttsActive' = (cpc[c] = "skip" /\ ttsActive)
  /\ wHit' = HitBy(cRequeue[c])
  /\ Goto(c, "kind")
  /\ UNCHANGED <<queueVars, cancelKind, paused, inFlight, playing, fates, audio,
                 hold, workerVars, cRequeue, cDropped, cOther, admitted>>

RecordKind(c) ==
  /\ cpc[c] = "kind"
  /\ cancelKind' = WithKind(cancelKind, cGen[c], cRequeue[c])
  /\ Goto(c, "fade")
  /\ UNCHANGED <<queueVars, generation, paused, statusVars, audio, hold,
                 workerVars, cGen, cRequeue, cDropped, cOther, admitted, wHit>>

\* stop_fade reaches the helper; then the caller unlocks, or notifies.  A
\* pause holds no lock and notifies nobody.
Fade(c) ==
  /\ cpc[c] = "fade"
  /\ audio' = IF audio = "speaking" THEN "fading" ELSE audio
  /\ Goto(c, IF lock = c THEN "record" ELSE "idle")
  /\ cGen' = [cGen EXCEPT ![c] = 0]
  /\ cRequeue' = [cRequeue EXCEPT ![c] = FALSE]
  /\ lock' = IF lock = c THEN Free ELSE lock
  /\ wpc' = IF cRequeue[c] \/ lock = c THEN wpc ELSE Notified
  /\ UNCHANGED <<items, active, preferredRun, cancelVars, statusVars, hold, wItem,
                 wGen, wOutcome, wRetries, wCut, cDropped, cOther, admitted,
                 wHit>>

\* skip_current.
Skip(c) ==
  /\ CanStart(c, "skip")
  /\ cRequeue' = [cRequeue EXCEPT ![c] = FALSE]
  /\ Goto(c, "skip")
  /\ UNCHANGED <<queueVars, cancelVars, statusVars, audio, hold, workerVars,
                 cGen, cDropped, cOther, admitted, wHit>>

\* clear: everything queued goes, under the lock; the rest happens after it.
Clear(c) ==
  /\ CanStart(c, "clear")
  /\ lock = Free
  /\ items' = <<>>
  /\ cDropped' = [cDropped EXCEPT ![c] = Queued(items) \cap Speech]
  /\ Goto(c, "unpause")
  /\ UNCHANGED <<lock, active, preferredRun, cancelVars, statusVars, audio, hold,
                 workerVars, cGen, cRequeue, cOther, admitted, wHit>>

\* Wrong on purpose: what a clear threw away is recorded as dropped.
ClearUnpauseAsDropped(c) ==
  /\ cpc[c] = "unpause"
  /\ fates' = Ended(cDropped[c], "dropped")
  /\ cDropped' = [cDropped EXCEPT ![c] = {}]
  /\ paused' = "no"
  /\ cRequeue' = [cRequeue EXCEPT ![c] = FALSE]
  /\ Goto(c, "bump")
  /\ UNCHANGED <<queueVars, generation, cancelKind, ttsActive, inFlight, playing,
                 audio, hold, workerVars, cGen, cOther, admitted, wHit>>

\* clear: the discarded handles end, and the pause is lifted.
ClearUnpause(c) ==
  /\ cpc[c] = "unpause"
  /\ fates' = Ended(cDropped[c], "cancelled")
  /\ cDropped' = [cDropped EXCEPT ![c] = {}]
  /\ paused' = "no"
  /\ cRequeue' = [cRequeue EXCEPT ![c] = FALSE]
  /\ Goto(c, "bump")
  /\ UNCHANGED <<queueVars, generation, cancelKind, ttsActive, inFlight, playing,
                 audio, hold, workerVars, cGen, cOther, admitted, wHit>>

\* Prune and decide in one critical section: when the claimed item is hit,
\* the lock is kept until its fade is sent.
Sweep(c, dropped, hit, other) ==
  /\ lock = Free
  /\ items' = Without(items, dropped)
  /\ cDropped' = [cDropped EXCEPT ![c] = dropped \cap Queued(items) \cap Speech]
  /\ cRequeue' = [cRequeue EXCEPT ![c] = FALSE]
  /\ cOther' = [cOther EXCEPT ![c] = other]
  /\ IF hit THEN lock' = c /\ Goto(c, "bump")
            ELSE UNCHANGED lock /\ Goto(c, "record")
  /\ UNCHANGED <<active, preferredRun, cancelVars, statusVars, audio, hold,
                 workerVars, cGen, admitted, wHit>>

\* clear_session; end_session is the same call.
ClearSession(c, target) ==
  /\ CanStart(c, "clearSession")
  /\ Sweep(c, {i \in Items : InScope(i, target)},
           playing # NoItem /\ InScope(playing, target), NoSession)

\* cancel_for_submit, the "current" scope (with or without "other" after it).
SubmitCurrent(c, target, other) ==
  /\ CanStart(c, "submit")
  /\ target # NoSession /\ other \in {NoSession, target}
  /\ Sweep(c, {i \in Items : InSubmitScope(i, target)},
           playing # NoItem /\ RoutedBelongsTo(playing, target), other)

\* cancel_for_submit, the "other" scope.
SweepOthers(c, target) ==
  /\ target # NoSession
  /\ Sweep(c, {i \in Items : ~KeptFor(i, target)},
           playing # NoItem /\ ~RoutedBelongsTo(playing, target), NoSession)

SubmitOther(c, target) ==
  \/ CanStart(c, "submit") /\ SweepOthers(c, target)
  \/ cpc[c] = "other" /\ cOther[c] = target /\ SweepOthers(c, target)

\* record_discarded, after the lock is released; then notify_one.
RecordDiscarded(c) ==
  /\ cpc[c] = "record"
  /\ fates' = Ended(cDropped[c], "cancelled")
  /\ cDropped' = [cDropped EXCEPT ![c] = {}]
  /\ IF cOther[c] = NoSession
       THEN Goto(c, "idle") /\ wpc' = Notified
       ELSE Goto(c, "other") /\ UNCHANGED wpc
  /\ UNCHANGED <<queueVars, cancelVars, ttsActive, inFlight, playing, audio, hold,
                 wItem, wGen, wOutcome, wRetries, wCut, cGen, cRequeue, cOther,
                 admitted, wHit>>

\* resume lifts any pause; resume_if_barge_speculative only its own.
Resume(c, op) ==
  /\ cpc[c] = "idle"
  /\ op \in OpsOf[c]
  /\ \/ op = "resume" /\ paused # "no"
     \/ op = "resumeBarge" /\ paused = "barge"
  /\ paused' = "no"
  /\ Goto(c, "wake")
  /\ UNCHANGED <<queueVars, generation, cancelKind, statusVars, audio, hold,
                 workerVars, cGen, cRequeue, cDropped, cOther, admitted, wHit>>

\* Wrong on purpose: the notify does not wait for the items lock.
WakeUnlocked(c) ==
  /\ cpc[c] = "wake"
  /\ wpc' = Notified
  /\ Goto(c, "idle")
  /\ UNCHANGED <<queueVars, cancelVars, statusVars, audio, hold, wItem, wGen,
                 wOutcome, wRetries, wCut, cGen, cRequeue, cDropped, cOther,
                 admitted, wHit>>

\* Holding items around the notify is what keeps a resume's wakeup.
Wake(c) ==
  /\ cpc[c] = "wake"
  /\ lock = Free
  /\ wpc' = Notified
  /\ Goto(c, "idle")
  /\ UNCHANGED <<queueVars, cancelVars, statusVars, audio, hold, wItem, wGen,
                 wOutcome, wRetries, wCut, cGen, cRequeue, cDropped, cOther,
                 admitted, wHit>>

\* set_active_session: MarkActive, under items.
SetActive(c, target) ==
  /\ cpc[c] = "idle"
  /\ "setActive" \in OpsOf[c]
  /\ lock = Free
  /\ active' = [active EXCEPT !.explicit = target]
  /\ wpc' = Notified
  /\ UNCHANGED <<items, lock, preferredRun, cancelVars, statusVars, audio, hold,
                 wItem, wGen, wOutcome, wRetries, wCut, callerVars, admitted,
                 wHit>>

-----------------------------------------------------------------------------
(* The worker: run, play_speech, gate_item, gate_earcon, settle_cancelled. *)

callersIdle == <<callerVars, hold, admitted, wHit>>

\* Top of the loop, under items: the generation is read before `paused`.
WorkerSnapshot ==
  /\ wpc = "lock" /\ lock = Free
  /\ lock' = Worker
  /\ wGen' = generation
  /\ wpc' = "check"
  /\ UNCHANGED <<items, active, preferredRun, cancelVars, statusVars, audio,
                 wItem, wOutcome, wRetries, wCut, callersIdle>>

\* claimable_pos: a paused queue claims nothing, whatever waits in it.
WorkerCheck ==
  /\ wpc = "check"
  /\ wpc' = IF paused = "no" /\ items # <<>> THEN "take" ELSE "park"
  /\ preferredRun' = IF paused = "no" /\ items = <<>>
                       THEN RunAfter(items, Effective, preferredRun)
                       ELSE preferredRun
  /\ UNCHANGED <<items, lock, active, cancelVars, statusVars, audio, wItem, wGen,
                 wOutcome, wRetries, wCut, callersIdle>>

\* Wrong on purpose: the generation is read once the pause check is over.
WorkerTakeSnapshotting ==
  /\ wpc = "take"
  /\ \E n \in DOMAIN items :
       /\ NextInLine(items, Effective, preferredRun, n)
       /\ wItem' = items[n] /\ playing' = items[n]
       /\ items' = RemoveAt(items, n)
       /\ wpc' = IF items[n] \in Cues THEN "gateCue" ELSE "gate"
  /\ preferredRun' = RunAfter(items, Effective, preferredRun)
  /\ inFlight' = TRUE /\ wRetries' = 1 /\ lock' = Free
  /\ wGen' = generation
  /\ UNCHANGED <<active, cancelVars, ttsActive, fates, audio, wOutcome, wCut,
                 callersIdle>>

\* claim_item: the claim is published before the lock is released.
WorkerTake ==
  /\ wpc = "take"
  /\ \E n \in DOMAIN items :
       /\ NextInLine(items, Effective, preferredRun, n)
       /\ wItem' = items[n] /\ playing' = items[n]
       /\ items' = RemoveAt(items, n)
       /\ wpc' = IF items[n] \in Cues THEN "gateCue" ELSE "gate"
  /\ preferredRun' = RunAfter(items, Effective, preferredRun)
  /\ inFlight' = TRUE
  /\ wRetries' = 1
  /\ lock' = Free
  /\ UNCHANGED <<active, cancelVars, ttsActive, fates, audio, wGen, wOutcome,
                 wCut, callersIdle>>

\* Condvar::wait releases the lock and waits; a notify before it is lost.
WorkerSleep ==
  /\ wpc = "park"
  /\ lock' = Free
  /\ wpc' = "asleep" /\ wGen' = 0 /\ wHit' = "none"
  /\ UNCHANGED <<items, active, preferredRun, cancelVars, statusVars, audio,
                 wItem, wOutcome, wRetries, wCut, callerVars, hold, admitted>>

\* A hold keeps the item; only a microphone hold alone reports busy.
WorkerHold ==
  /\ wpc \in {"gate", "gateCue"} /\ ~Cancelled /\ hold # {}
  /\ inFlight' = (hold = {"mic"})
  /\ UNCHANGED <<queueVars, cancelVars, ttsActive, playing, fates, audio,
                 workerVars, callersIdle>>

\* gate_item past its hold loop.
WorkerPassGate ==
  /\ wpc = "gate" /\ (Cancelled \/ hold = {})
  /\ inFlight' = TRUE
  /\ wpc' = IF Cancelled THEN "settle" ELSE "resolve"
  /\ UNCHANGED <<queueVars, cancelVars, ttsActive, playing, fates, audio, wItem,
                 wGen, wOutcome, wRetries, wCut, callersIdle>>

\* Engine off drops the item; a model that is not loaded is waited for.
WorkerResolve ==
  /\ wpc = "resolve"
  /\ \/ wpc' \in {"activate", "await"} /\ UNCHANGED wOutcome
     \/ wpc' = "trailer" /\ wOutcome' = "dropped"
  /\ UNCHANGED <<queueVars, cancelVars, statusVars, audio, wItem, wGen, wRetries,
                 wCut, callersIdle>>

\* wait_until_ready: a cancel beats readiness, readiness beats an error or the
\* deadline; a gate that closed during the wait is waited out again.
WorkerAwait ==
  /\ wpc = "await"
  /\ \/ Cancelled /\ wpc' = "settle" /\ UNCHANGED wOutcome
     \/ ~Cancelled /\ UNCHANGED wOutcome
        /\ wpc' = IF hold = {} THEN "activate" ELSE "gate"
     \/ ~Cancelled /\ wpc' = "trailer" /\ wOutcome' = "dropped"
  /\ UNCHANGED <<queueVars, cancelVars, statusVars, audio, wItem, wGen, wRetries,
                 wCut, callersIdle>>

WorkerActivate ==
  /\ wpc = "activate"
  /\ ttsActive' = TRUE
  /\ wpc' = "write"
  /\ UNCHANGED <<queueVars, cancelVars, inFlight, playing, fates, audio, wItem,
                 wGen, wOutcome, wRetries, wCut, callersIdle>>

\* speak_one: the request reaches the helper, which starts to play it.  The
\* generation is not read again before the write.
WorkerSpeak ==
  /\ wpc = "write"
  /\ audio' = "speaking"
  /\ wpc' = "speaking"
  /\ UNCHANGED <<queueVars, cancelVars, statusVars, wItem, wGen, wOutcome,
                 wRetries, wCut, callersIdle>>

\* The helper answers DONE, whether the stream ran out or was faded.
WorkerSpoken ==
  /\ wpc = "speaking"
  /\ audio' = "silent" /\ wCut' = (audio = "fading")
  /\ wOutcome' = "spoken"
  /\ wpc' = "trailer"
  /\ UNCHANGED <<queueVars, cancelVars, statusVars, wItem, wGen, wRetries,
                 callersIdle>>

\* Wrong on purpose: the number of retries is not looked at.
WorkerSpeakRetries ==
  /\ wpc = "speaking"
  /\ audio' = "silent" /\ wCut' = TRUE
  /\ wRetries' = wRetries - 1
  /\ ttsActive' = FALSE /\ wpc' = "gate"
  /\ UNCHANGED <<queueVars, cancelVars, inFlight, playing, fates, wItem, wGen,
                 wOutcome, callersIdle>>

\* Wrong on purpose: tts_active stays up while the retry waits at its gates.
WorkerSpeakFailsActive ==
  /\ wpc = "speaking"
  /\ audio' = "silent" /\ wCut' = TRUE
  /\ \/ /\ wRetries > 0 /\ wRetries' = wRetries - 1
        /\ wpc' = "gate" /\ UNCHANGED wOutcome
     \/ /\ wOutcome' = "failed" /\ wpc' = "trailer"
        /\ UNCHANGED wRetries
  /\ UNCHANGED <<queueVars, cancelVars, statusVars, wItem, wGen, callersIdle>>

\* The child went away or refused: one retry for a transport loss, which
\* clears tts_active and goes back through the gates.
WorkerSpeakFails ==
  /\ wpc = "speaking"
  /\ audio' = "silent" /\ wCut' = TRUE
  /\ \/ /\ wRetries > 0 /\ wRetries' = wRetries - 1
        /\ ttsActive' = FALSE /\ wpc' = "gate" /\ UNCHANGED wOutcome
     \/ /\ wOutcome' = "failed" /\ wpc' = "trailer"
        /\ UNCHANGED <<wRetries, ttsActive>>
  /\ UNCHANGED <<queueVars, cancelVars, inFlight, playing, fates, wItem, wGen,
                 callersIdle>>

\* gate_earcon: a needs_input alert passes a focus-only hold.
CuePasses(i) == hold = {} \/ (i \in NeedsInput /\ hold = {"focus"})

WorkerCue ==
  /\ wpc = "gateCue"
  /\ \/ Cancelled /\ wpc' = "settle" /\ UNCHANGED <<inFlight, ttsActive>>
     \/ /\ ~Cancelled /\ CuePasses(wItem)
        /\ wpc' = "cueing" /\ inFlight' = TRUE /\ ttsActive' = TRUE
  /\ UNCHANGED <<queueVars, cancelVars, playing, fates, audio, wItem, wGen,
                 wOutcome, wRetries, wCut, callersIdle>>

WorkerCueEnds ==
  /\ wpc = "cueing"
  /\ wpc' = "trailer" /\ wOutcome' = "spoken" /\ wCut' = FALSE
  /\ UNCHANGED <<queueVars, cancelVars, statusVars, audio, wItem, wGen, wRetries,
                 callersIdle>>

\* Wrong on purpose: the generation is not read again after playback.
WorkerTrailerUnchecked ==
  /\ wpc = "trailer"
  /\ wpc' = "release" /\ wItem' = NoItem
  /\ fates' = Ended({wItem} \cap Speech, wOutcome)
  /\ UNCHANGED <<queueVars, cancelVars, ttsActive, inFlight, playing, audio, wGen,
                 wOutcome, wRetries, wCut, callersIdle>>

\* Trailer: a cancel that landed meanwhile decides; else the item has ended.
WorkerTrailer ==
  /\ wpc = "trailer"
  /\ IF Cancelled
       THEN wpc' = "settle" /\ UNCHANGED <<fates, wItem>>
       ELSE /\ wpc' = "release" /\ wItem' = NoItem
            /\ fates' = Ended({wItem} \cap Speech, wOutcome)
  /\ UNCHANGED <<queueVars, cancelVars, ttsActive, inFlight, playing, audio, wGen,
                 wOutcome, wRetries, wCut, callersIdle>>

\* Wrong on purpose: only the live flag is read.
RequeuesIfPaused == paused # "no"

\* requeue_if_resuming reads the intent recorded for this claim's generation,
\* or, if none is, whether the queue is paused now.
Requeues ==
  IF wGen \in DOMAIN cancelKind THEN cancelKind[wGen] ELSE paused # "no"

\* Wrong on purpose: a cancel is recorded for an item that comes back, too.
WorkerSettleRecording ==
  /\ wpc = "settle"
  /\ cancelKind' = Without1(cancelKind, wGen)
  /\ fates' = Ended({wItem} \cap Speech, "cancelled")
  /\ IF Requeues THEN wpc' = "requeue" /\ UNCHANGED wItem
                 ELSE wpc' = "release" /\ wItem' = NoItem
  /\ UNCHANGED <<queueVars, generation, paused, ttsActive, inFlight, playing,
                 audio, wGen, wOutcome, wRetries, wCut, callersIdle>>

WorkerSettle ==
  /\ wpc = "settle"
  /\ cancelKind' = Without1(cancelKind, wGen)
  /\ IF Requeues
       THEN wpc' = "requeue" /\ UNCHANGED <<fates, wItem>>
       ELSE /\ wpc' = "release" /\ wItem' = NoItem
            /\ fates' = Ended({wItem} \cap Speech, "cancelled")
  /\ UNCHANGED <<queueVars, generation, paused, ttsActive, inFlight, playing,
                 audio, wGen, wOutcome, wRetries, wCut, callersIdle>>

WorkerRequeue ==
  /\ wpc = "requeue" /\ lock = Free
  /\ items' = <<wItem>> \o items
  /\ wItem' = NoItem
  /\ wpc' = "release"
  /\ UNCHANGED <<lock, active, preferredRun, cancelVars, statusVars, audio, wGen,
                 wOutcome, wRetries, wCut, callersIdle>>

\* The claim is over and its two guards go.  A claim that was cancelled at its
\* gates continues the loop past the trailer, and leaves tts_active as it is.
WorkerRelease ==
  /\ wpc = "release"
  /\ ttsActive' = (wOutcome = "cancelled" /\ ttsActive)
  /\ inFlight' = FALSE /\ playing' = NoItem
  /\ wpc' = "lock"
  /\ wGen' = 0 /\ wOutcome' = "cancelled" /\ wRetries' = 0 /\ wCut' = FALSE
  /\ wHit' = "none"
  /\ UNCHANGED <<queueVars, cancelVars, fates, audio, wItem, callerVars, hold,
                 admitted>>

-----------------------------------------------------------------------------

WorkerNext ==
  \/ WorkerSnapshot \/ WorkerCheck \/ WorkerTake \/ WorkerSleep
  \/ WorkerHold \/ WorkerPassGate \/ WorkerResolve \/ WorkerAwait
  \/ WorkerActivate \/ WorkerSpeak \/ WorkerSpoken \/ WorkerSpeakFails
  \/ WorkerCue \/ WorkerCueEnds \/ WorkerTrailer \/ WorkerSettle
  \/ WorkerRequeue \/ WorkerRelease

CallerStarts(c) ==
  \/ \E cause \in {"dictation", "barge"} : Pause(c, cause)
  \/ \E op \in {"resume", "resumeBarge"} : Resume(c, op)
  \/ Skip(c) \/ Clear(c)
  \/ \E t \in Targets : ClearSession(c, t) \/ SetActive(c, t)
  \/ \E t \in Targets, o \in Targets \cup {NoSession} : SubmitCurrent(c, t, o)

CallerContinues(c) ==
  \/ Bump(c) \/ RecordKind(c) \/ Fade(c) \/ ClearUnpause(c)
  \/ RecordDiscarded(c) \/ Wake(c)

Environment ==
  \/ \E i \in Items : Enqueue(i)
  \/ \E gate \in Gates : ToggleHold(gate)

Next ==
  \/ WorkerNext
  \/ \E c \in Callers :
       \/ CallerStarts(c) \/ CallerContinues(c)
       \/ \E t \in Targets : SubmitOther(c, t)
  \/ Environment

Spec == Init /\ [][Next]_vars

\* Every thread runs on: the worker never blocks for ever in the helper (its
\* waits are bounded by timeouts), and a caller completes what it started.
Fairness ==
  /\ WF_vars(WorkerNext)
  /\ \A c \in Callers :
       WF_vars(CallerContinues(c) \/ (cpc[c] = "other"
                                       /\ \E t \in Targets : SubmitOther(c, t)))

FairSpec == Spec /\ Fairness
-----------------------------------------------------------------------------
(* Properties.                                                             *)

WorkerPcs ==
  {"lock", "check", "take", "park", "asleep", "gate", "resolve", "await",
   "activate", "write", "speaking", "gateCue", "cueing", "trailer", "settle",
   "requeue", "release"}

\* The worker owns an item from the claim to its requeue or its end.
HandPcs ==
  {"gate", "resolve", "await", "activate", "write", "speaking", "gateCue",
   "cueing", "trailer", "settle", "requeue"}

CallerPcs ==
  {"idle", "bump", "skip", "kind", "fade", "unpause", "record", "other", "wake"}

QueueTypes ==
  /\ items \in Seq(Items)
  /\ lock \in Callers \cup {Worker, Free}
  /\ active \in [explicit : Tags \cup {NoSession}, recent : Tags \cup {NoSession}]
  /\ preferredRun \in 0..ActiveSessionBurst
  /\ admitted \subseteq Items

CancelTypes ==
  /\ generation \in Nat
  /\ DOMAIN cancelKind \subseteq Nat
  /\ \A g \in DOMAIN cancelKind : cancelKind[g] \in BOOLEAN
  /\ paused \in {"no", "dictation", "barge"}

StatusTypes ==
  /\ ttsActive \in BOOLEAN /\ inFlight \in BOOLEAN
  /\ playing \in Items \cup {NoItem}
  /\ fates \in [Speech -> Seq(Outcomes)]
  /\ audio \in {"silent", "speaking", "fading"}
  /\ hold \subseteq Gates

WorkerTypes ==
  /\ wpc \in WorkerPcs
  /\ wItem \in Items \cup {NoItem}
  /\ wGen \in Nat
  /\ wOutcome \in Outcomes
  /\ wRetries \in {0, 1}
  /\ wCut \in BOOLEAN
  /\ wHit \in {"none", "pause", "hard", "pauseThenHard"}

CallerTypes ==
  /\ cpc \in [Callers -> CallerPcs]
  /\ cGen \in [Callers -> Nat]
  /\ cRequeue \in [Callers -> BOOLEAN]
  /\ cDropped \in [Callers -> SUBSET Speech]
  /\ cOther \in [Callers -> Tags \cup {NoSession}]

\* Types of every variable (ttsq.rs, the TtsQueue struct and the locals of
\* the worker loop).
TypeOK ==
  QueueTypes /\ CancelTypes /\ StatusTypes /\ WorkerTypes /\ CallerTypes

\* The four places an admitted utterance can be in.
InQueue(u) == u \in Queued(items)
InHand(u) == wItem = u
BeingDropped(u) == \E c \in Callers : u \in cDropped[c]
HasEnded(u) == fates[u] # <<>>

\* Every admitted utterance is in exactly one place - waiting, in the worker's
\* hand, discarded and about to be recorded, or ended - and has at most one
\* terminal record.  Requeues, sweeps and clears move it between threads
\* without losing or doubling it (enqueue_action, settle_cancelled,
\* discard_items, record_discarded, finish_utterance).
OnePlace ==
  /\ \A m, n \in DOMAIN items : items[m] = items[n] => m = n
  /\ \A c, d \in Callers : c # d => cDropped[c] \cap cDropped[d] = {}
  /\ \A u \in Speech :
       /\ Len(fates[u]) <= 1
       /\ u \in admitted =>
            InQueue(u) \/ InHand(u) \/ BeingDropped(u) \/ HasEnded(u)
       /\ u \notin admitted =>
            ~(InQueue(u) \/ InHand(u) \/ BeingDropped(u) \/ HasEnded(u))
       /\ ~(InQueue(u) /\ (InHand(u) \/ BeingDropped(u) \/ HasEnded(u)))
       /\ ~(InHand(u) /\ (BeingDropped(u) \/ HasEnded(u)))
       /\ ~(BeingDropped(u) /\ HasEnded(u))

\* A thread that has decided to pause and has not advanced the generation yet.
Pausing(c) == cpc[c] = "bump" /\ cRequeue[c]

\* Once a pause is complete, no claim predates it unnoticed: an item in the
\* worker's hand was claimed under an older generation, so it will come back
\* instead of being played through the pause.  This is what reading the
\* generation before `paused` is for (ttsq.rs, run).
PauseCoversClaim ==
  paused # "no" /\ (\A c \in Callers : ~Pausing(c)) /\ wpc \in HandPcs
    => Cancelled

\* is_busy: a focus hold reads idle, unless something is active.
IsBusy ==
  /\ "focus" \in hold => ttsActive
  /\ ttsActive \/ inFlight \/ items # <<>>

\* A cancellation has dropped tts_active, or has advanced the generation too.
BeingCancelled == Cancelled \/ \E c \in Callers : cpc[c] = "bump"

\* What is heard is reported busy, so always-listening keeps its microphone
\* closed, except for the tail of a cancelled item behind a focus hold; and a
\* queue that has nothing to do reports idle: no path of the worker, the retry of
\* a lost child included, leaves tts_active up behind it (is_busy, gate_item).
BusyIsTrue ==
  /\ audio # "silent" \/ wpc = "cueing"
       => IsBusy \/ ("focus" \in hold /\ BeingCancelled)
  /\ wpc = "asleep" /\ items = <<>> => ~IsBusy

\* Only a thread that resumes or clears lifts a dictation pause: the barge
\* watcher neither relabels nor lifts it, in any interleaving (PauseCause).
DictationHolds ==
  [][paused = "dictation" /\ paused' # "dictation" =>
       \E c \in Callers :
         \/ "resume" \in OpsOf[c] /\ cpc[c] = "idle" /\ cpc'[c] = "wake"
         \/ "clear" \in OpsOf[c] /\ cpc[c] = "unpause" /\ cpc'[c] = "bump"]_vars

\* Once the intent of the cancellation that first hit a claim is on record, that
\* cancellation decides what becomes of the item: hit by a pause it is not thrown
\* away, hit by a hard cancel it never comes back, whatever pauses, resumes and
\* cancellations land before the worker settles (cancel_kind,
\* requeue_if_resuming).
RecordedIntentDecides ==
  [][wpc = "settle" /\ wGen \in DOMAIN cancelKind
       => /\ wpc' = "release" => wHit # "pause"
          /\ wpc' = "requeue" => wHit # "hard"]_vars

\* A hard cancel is final: an item it hit while claimed is never queued again,
\* though a pause had hit it before (a long press clears without resuming).
HardCancelIsFinal == wpc = "requeue" => wHit = "pause"

\* An utterance recorded as spoken was not cut short by another's fade (the
\* outcome of a handle, as model_status reports it).
SpokenInFull ==
  [][\A u \in Speech : fates'[u] # fates[u] /\ fates'[u] = <<"spoken">> => ~wCut]_vars

\* No lost wakeup: the worker never sleeps beside work it could claim unless
\* a thread on its way is about to notify it.
NoStrandedWork ==
  wpc = "asleep" /\ items # <<>> /\ paused = "no"
    => \E c \in Callers : cpc[c] # "idle"

\* Nothing is spoken into a dictation: once the pausing tap has faded the
\* helper, the helper is not playing an utterance (start_recording).
QuietDuringDictation ==
  paused = "dictation" /\ (\A c \in Callers : cpc[c] = "idle")
    => audio # "speaking"

\* Every admitted utterance ends, provided the queue is not paused and the
\* gates not closed for ever.
EveryUtteranceEnds ==
  \A u \in Speech :
    <>[](paused = "no" /\ hold = {}) => (u \in admitted ~> HasEnded(u))

-----------------------------------------------------------------------------
(* The queue implements the ledger its producers rely on.                  *)

\* An utterance that is discarded and not yet recorded still waits, as far as
\* its producer can tell.
LedgerPlace ==
  [u \in Speech |-> IF HasEnded(u) THEN "ended"
                    ELSE IF InHand(u) THEN "claimed"
                    ELSE IF u \in admitted THEN "waiting" ELSE "new"]

LedgerFate == [u \in Speech |-> IF HasEnded(u) THEN fates[u][1] ELSE "none"]

Ledger == INSTANCE UtteranceLedger WITH
  Utterances <- Speech, place <- LedgerPlace, fate <- LedgerFate

LedgerSpec == Ledger!Spec
=============================================================================
