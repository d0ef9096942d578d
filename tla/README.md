# DontSpeak: specifications, checks and proofs

DontSpeak is a local voice layer for coding agents: an engine process
(`dontspeakd`) queues what agents say, plays it through a warm helper process
(`ds-helper`) that holds the speech models, and lets the user dictate. This
directory holds TLA+ specifications of the engine's concurrent core, the
configurations TLC checks them with, and theorems that TLAPS proves about them.

Paths below are relative to `src/rust/crates/`; `ttsq.rs`, `barge.rs`,
`engine.rs` and `tts/` are in `dontspeakd/src/`.

## 1. The system

| Part | State it keeps | Operations | Talks to |
|---|---|---|---|
| **Speech queue** `ttsq.rs` | a deque under one lock, the active session, the pause and its cause, a cancel generation, a map of cancel intents, the worker's claim, terminal records | enqueue; pause, resume, skip, clear; clear a session, submit, mark active; the worker's claim, gates, playback, settlement | the helper manager (speak, cue, fade), every thread of the engine |
| **Barge watcher** `barge.rs` | edge detector, pause ownership, two tick counters | one tick every 150 ms | microphone state, `stt_active`, the queue's speculative pause |
| **Caps gesture** `engine.rs` | gesture state machine, pending tap, confirm state | tap, double tap, long press, tick | queue, dictation session, `stt_active` |
| **Helper manager** `tts/mod.rs`, `tts/reader.rs`, `child_slot.rs` | child process and its generation, stdin, one slot per kind of reply, model residency, mute | start, stop, restart, heal, `mark_dead`, speak, cue, listen, stop, mute | the helper over pipes; a reader thread |
| **Helper** `ds-helper/src/serve.rs`, `listen.rs` | pending requests, cancel flag and stop stamp, listen generations, models | reader thread; playback loop; capture thread | the manager; audio devices |
| **Narration admission** `ttsq.rs:100-127,868-906`, `ds-narrate` | accepted ids, per-message accumulators, a pending file | accept once, retry, forget a session, feed a batch | hooks, streaming clients, queue |
| **Streaming clients** `codex_stream/`, `grok_stream/` | attachment, high-water marks, back-off | attach, replay, reconnect | external servers and files, admission |
| **Always-listening** `listener.rs` | capture epoch, turn logic, deferred enter | gate, segment, submit | queue (`is_busy`, submit), microphone |
| **Dictation session** `helper_stt.rs`, `listen.rs` | session epoch, early-stop flag, joiner | start, stop, abort, deposit | helper manager, gesture |
| **Status and IPC** `ipc.rs`, `status.rs` | server threads, a version gate | requests, long polls | queue, manager |
| **Downloads, configuration, platform, clients, apps** | files, targets, OS handles | | |

All threads of the engine share the queue. The gesture runs on the engine's tick
thread, the watcher on its own, each IPC connection on one of the server's, the
worker on `ds-ttsq`. A cancellation is *optimistic*: the canceller advances a
generation counter and asks the helper to fade; the worker compares the counter
with the value it snapshot before it claimed its item, at a few points of its
loop, and then looks up whether the cancellation meant the item to come back.

### What is hard here, and what makes each part correct

* **Speech queue.** A pause is three writes (flag, generation, intent) and a pipe
  write, of which only the first is locked; a sweep holds the queue's lock across
  the helper's pipe. Between any two of them the worker may claim, pass a gate,
  start or finish playback, or unwind. *Correct* if no utterance is lost, spoken
  twice or recorded twice; a completed pause covers every claim; the cancellation
  that hit a claim, and no other event, decides what becomes of it; no wakeup is
  lost; what sounds is reported busy; every utterance ends.
* **Service order.** *Correct* if the preference for the active terminal is
  bounded for everyone else and order within a terminal is kept.
* **Barge watcher and gesture.** They pause the same queue for two reasons and
  open or observe the same microphone; the capture outlives the dictation, full
  duplex comes and goes, the OS may never report idle. *Correct* if the user's
  pause is never relabelled or lifted by a guess, every guess is taken back, our
  own microphone is never taken for another's, and another's that began during our
  dictation is noticed all the same.
* **Helper manager and helper.** Crash and restart between any two steps, a stale
  end of file after a replacement, a READY that never comes, a stop that overtakes
  the request it is meant for, replies of a previous request. *Correct* if at most
  one child is current, a stale signal never kills a fresh child, every waiter
  wakes, and a stop is never lost.
* **Dictation session.** Four kinds of thread meet in one recording; a final text
  lands on a thread of its own, seconds later perhaps, while the user taps again,
  holds, closes the window or reloads. *Correct* if what is pasted is what was
  stopped last and not cancelled, every stop is answered, and the microphone is
  never open behind the user's back.
* **Always-listening.** Capture, recognition and the turn logic run apart and half
  duplex closes the microphone between any two of them. *Correct* if nothing heard
  before an opening drives what comes after it, no recognised word is lost, and a
  turn ends on a stop word and silence only.
* **Narration admission.** Producers retry after refusals and reconnects.
  *Correct* if an id is spoken once, a refused one can be retried, and lines come
  out once, in document order, from batches in any order.

`PROJECT.json` lists the hazards line by line with the property that covers each,
or why none does.

## 2. The modules

| Module | Models | Status |
|---|---|---|
| `QueueOrder` | the pure part of `ttsq.rs`: session scopes, admission bounds, `select_pos` | lemmas proved |
| `TtsQueue` | the speech queue with the worker and every calling thread | checked, proved |
| `UtteranceLedger` | abstract: what a producer holding a handle may rely on | `TtsQueue` implements it (checked, proved) |
| `Scheduler` | the service order alone, with endless producers | checked, proved |
| `BargeWatcher` | the watcher next to the gesture, another recorder and full duplex | checked, proved |
| `HelperLifecycle` | `TtsManager`: start, stop, crash, heal, reload, and the calls that wait for the helper | checked, proved |
| `OneHelper` | abstract: at most one helper process lives, each a new one | `HelperLifecycle` implements it (checked, proved) |
| `Dictation` | Caps dictations end to end: gesture, session threads, listen lease, helper's listen loop | checked, proved |
| `HandsFree` | always-listening: capture, inference, turn logic and the half-duplex gate | checked, proved |
| `Narration` | hook processes, the state file and its lock, admission by the engine | checked, proved |
| `QueueOrderProofs`, `TtsQueueProofs`, `SchedulerProofs`, `BargeWatcherProofs`, `HelperLifecycleProofs`, `DictationProofs`, `HandsFreeProofs`, `NarrationProofs` | lemmas and theorems, section 4 | proved |
| `MCTtsQueue`, `MCScheduler`, `MCHelperLifecycle`, `MCDictation`, `MCHandsFree`, `MCNarration` | small instances for TLC | |

`TtsQueue` and `Scheduler` both extend `QueueOrder`, so the service order is
defined once. The other modules meet where the components do, each holding in full
what its neighbour has as a free choice. `BargeWatcher` has the watcher in full and
the pause as one cell; `TtsQueue` the pause in full and the watcher as a caller that
pauses and resumes at will. `Dictation` has the gesture in full and the voice as
held or free; the helper's death is one of its upsets, while `HelperLifecycle` has
that death step by step and a listen as a call that may be stopped at any time.
`HandsFree` has the queue as `busy`, a flag that rises and falls at will, as `is_busy`
may: `BusyIsTrue` of `TtsQueue` says when it is up, and when it is not although the
tail of a cancelled item can still be heard. `Narration` ends where
`enqueue_narration` does: what it accepts is `Enqueue` of `TtsQueue`.

### TtsQueue and the code

One action is one critical section or one atomic access. The variables are the
fields of the Rust struct, `lock` (who keeps `items` locked across several
actions), the worker's locals (`w...`) and the callers' (`c...`), and three
history variables that no guard of the code part reads: `admitted` (also what
makes an utterance enter once), `wHit` (which kinds of cancellation have hit the
current claim, first to last) and `wCut` (the last speak ended by a fade).

* *Callers.* `Pause` sets the flag under its own lock; `Bump`, `RecordKind`,
  `Fade` follow as separate steps, shared by every cancellation. A sweep
  (`ClearSession`, `SubmitCurrent`, `SubmitOther`) prunes and looks at the claim
  under the lock and, on a hit, keeps it until its fade is written, as the code
  does; `RecordDiscarded` ends the discarded handles after the lock is released.
  `Clear` drops its lock before everything else it does. `Resume` and `Wake` are
  two steps: the flag, then the notify under the lock.
* *Worker.* `WorkerSnapshot` takes the lock and reads the generation,
  `WorkerCheck` reads the pause, `WorkerTake` claims at the position
  `NextInLine` gives, or `WorkerSleep` waits: a notify between the check and
  the wait is lost, as with a condition variable. Then the hold gates, the model's
  readiness, the speak request, its answer or loss, one retry, and the trailer
  that reads the generation again, settles, and requeues at the front.
* *Helper.* `audio` is the stream as the engine can know it: silent, speaking,
  or fading after a fade that found it speaking. A fade that finds it silent is
  lost: `ds-helper/src/serve.rs:1092` clears the cancel flag as each job starts.

Two pairs of steps are merged because nothing distinguishes their order: the
`tts_active` write that precedes each bump is part of `Bump` (`BeingCancelled` counts a
thread before its bump as one that may have done it), and the terminal records of a
`clear` are part of lifting its pause. A claim that is cancelled at its gates never
comes to the trailer, so its release leaves `tts_active` alone. Text is abstracted, so an item
is never empty and always requeueable; byte bounds of the admission have the form
of the count bounds, over the same items, and are left out; the resume mark of an
interrupted item changes what is heard, not what happens; queue depth, status
sampling, voices and panes are derived data. The two answers of the readiness wait
that end an item (load error, deadline) are one free choice. A cue that is
cancelled at its gate is requeued or dropped without a record; cues have no record
on any path, so `WorkerSettle` serves both.

### BargeWatcher and the code

`barge_step` is translated case by case (`StandDown`, `AfterOurs`, `OnEdge`). A
tick is three steps because the gesture and the other recorder run between the
reading of the microphone, of `stt_active` and the act on the queue. The helper's
capture opens some time after it is asked for, or not at all, and closes some time
after it is stopped, or before. A queue can be cleared from outside at any moment,
a recording included (`ClearFromOutside`: a global `Stop`, a session that ends
without a queue identity), and the gesture is not told. Three history variables
say where a promise ends: `cleared` since the floor was taken, `seen` by a tick
while our dictation had the microphone, and `lag`, the samples that found our
capture live after it. The dictation refused by a teardown (finding
`dictation_reload`) and the taps that only pause and resume the voice are not part
of this module; `TtsQueue` has the pauses of both.

### Scheduler and the code

`Enqueue`, `Claim` and `MarkActive` are the three operations that touch what
`select_pos` reads. The active terminal is `Effective`: the one marked, or else that of
the last enqueue (`note_recent`). `ahead` and `passed` are history variables that count
who was in front of an item and who has overtaken it since it came or the active
terminal last changed (`CountAfresh`). Items return for ever, so no
run ends because the producers ran dry.

### HelperLifecycle and the code

The mutex `lifecycle` serializes starts and teardowns; the slot's generation, the
stdin handle and the answer slots are read without it, so each store of a start
(`spawn`, `handshake`, `unmark`, `wire`, `read`) and of a teardown (`begin`, `unwire`,
`reap`, `kill`, `join`) that a caller can see is a step. A caller goes through
`ensure`, `check`, the lease, the reading of the generation, the reset of its slot,
the write and the wait, and its verdict takes it back to the mutex as
`mark_dead` (`dead`) or `mark_dead_if_current` (`deadIfCurrent`). A write holds the
lock of stdin and may block there (`blocked`) until the helper reads on
(`HelperReads`) or dies (`WriteBreaks`); a teardown drops stdin under the same lock.
The reader that comes to the end of file fills the slots (`ReaderEof`) and then
looks at `expected_eof` (`ReaderClassify`). A read error (`ReaderError`), such as a
line that is not UTF-8, does the same to a process that lives on. The helper may refuse
the handshake, answer, stay silent, leave its input unread or die.

Left out: mute (the write at the end of a start too), rate and volume, residency
reports, the spawn preferences, the contents of requests. Two windows of the code are in the model and the reason why
`OnlyItsOwnChild` speaks of cues and of the healer only. `play` resets its slot
before it reads the running generation (`ResetSlot`, then `TakeGeneration`): an end
of file between the two, followed by a *complete* restart, makes the verdict one on
the fresh child. And a write that finds no stdin, between the install of a child and
the store of its pipe, calls `mark_dead` without a generation (`WriteRequest`).

### Dictation and the code

The poll thread's ticks are the actions of `Tick`, `UserTaps` and `Modes`; a stop or an
abort takes several steps (`epc`) because the session's threads run between them.
`recs` is the recording the engine shows; the older ones live on in their joiner,
their listen thread and the helper. The epoch of `PasteBuf` is `scope`: what
matters of it is whose it still is. `lease`, `generation`, `activeGen`,
`stoppedThrough`, `stopClock` and `slot` are the fields of `TtsManager`; `pipe` is
the helper's stdin, `hListen` and `hStopped` its request slot and stop stamp, `hpc`
and `mic` its capture thread. `slot` keeps the first answer, which is the one the
listen returns at (`Says`); a microphone that does not open is an error followed by an
LDONE (`TakeListen`, `TrailError`), and the second may come to a later listen. The order of the steps of one tick is left free: a
tick may be cut short at any of them, which only adds behaviours.

Left out: the Enter that follows a paste, the partial texts, `cancel_for_submit`
(in `TtsQueue`), the LED and the refusal cue, the microphone test session
(`stt_test.rs`), which is another client of the same lease, and engines that
dictate by themselves.

### HandsFree and the code

Audio is frames, voiced or quiet. `Capture` is the capture thread (the check of
gate and epoch, the drain into the endpointer, the send), `Infer` the inference
thread, `Tick` the engine's: it moves the gate (a store of `enabled`, then one of
`epoch`, two steps), collects a batch of events and works it off one by one. Every
item of the two channels carries the epoch it was captured under and, as history,
the opening of the gate it stems from. The recogniser is free to make of a segment
any text of at most as many words as it has voiced frames, or to hang. A microphone
may fail to open (`CaptureOpens`), is then tried again, and until it opens no tick is sent.

Two loads of one iteration, and a drain and its send, are one step each: nothing
another thread does in between is seen by both. Left out: a listener whose model
does not load, the energy threshold, the paste with its delay, and the threads of a
listener that a reload has dropped, whose channels nobody reads.

### Narration and the code

One process per batch of a message (a hook), started in order or not, again or not.
`Acquire`, `GiveUp` (after 800 ms), `FindStale` (a lock file older than 2 s) and
`BreakStale` (its removal, a step later) are the lock file; no process knows who else
is inside, so two may be. `Disk` lets a read of the state fail, which counts as a fresh
state, or a write, which is only logged. `SelectLines` is `Accum::feed` with the read
of the state file and the save of the selected lines as pending; `Offer` and `Commit`
hand the engine one line and write down that it was taken; `Retry` is the Stop hook. `Feed` is the
accumulator as a function: the complete block quotes in front, up to the first gap
of the batches seen. The engine's memory of ids holds `AcceptedMax`.

A text is a sequence of fragments and line ends, and a batch is the place in it where
the batch ends, with or without all that comes before. The accumulator holds the
indices of its chunks (`parts`): their texts are those of the message. `fate` is a
history of how a message went, `Outcome` names the cases in which it is *holed*, that
is, nothing is claimed of it (section 3 says why), and `hushed` is the history of the
lines consumed while narration of digests was off, which nobody is owed. `sound`
records that no two processes have been inside at once and the disk has failed none;
`patient` that no waiter has given up or removed a lock. What the module promises of
lines it promises while `sound` holds: section 3 says what happens after it.

Left out: session end (`clear_session_state`) and the seeding of the state, the
path that stops utterances, the detection corpus, `gate_set`, narration of shorts
switched off, batches without an index, blank cumulative payloads, a restart of the
engine, which forgets the ids. A read and write of the state file is one step,
since it is renamed into place.

## 3. What TLC checks

| Run | Instance | Shows |
|---|---|---|
| `queue_threads` | gesture (pause, resume, clear, skip), watcher (barge, its resume) and a server thread that marks, one utterance, one alert, a focus gate that comes and goes | `TypeOK`, `OnePlace`, `PauseCoversClaim`, `BusyIsTrue`, `DictationHolds`, `RecordedIntentDecides`, `LedgerSpec` |
| `queue_sessions` | gesture (pause, resume) and a server thread (session clear, submit), two utterances of two terminals, one routed from the other; fairness | `NoStrandedWork`, `SpokenInFull`, `EveryUtteranceEnds` |
| `barge` | the code's bounds (40 ticks, grace 4), dictations and captures of any length, clears from outside; fairness | `TypeOK`, `FloorIsKept`, `PauseIsOwned`, `OurMicIsNotForeign`, `BargeIsBounded`, `MaskedForeignIsCaught` |
| `scheduler` | five items, two terminals and a global one, marks set and taken back, burst 3 | `BoundedOvertaking`, `FifoWithinSession` |
| `lifecycle` | a worker (play, cue), a dictation (listen) and an owner (stop, reload, heal); two processes, three calls, one crash or broken output, writes that may block; fairness | `TypeOK`, `SlotIsCoherent`, `OnlyItsOwnChild`, `NoFalseCrash`, `AbstractSpec`, `EveryCallReturns` |
| `dictation` | two recordings in one window, one upset; fairness | `TypeOK`, `BufferIsCurrent`, `MicIsOurs`, `PastesTheStopped`, `SecondTapIsInTime`, `EveryStopIsAnswered`, `StopClosesTheMic` |
| `handsfree` | three voiced frames, one start of the voice or one reload; fairness | `TypeOK`, `OnlyFreshAudioDrives`, `EveryWordIsKept`, `EndsInSilence`, `StopWordResolves`, `MicYieldsToVoice` |
| `narration` | two processes, two messages of four and one batches, two upsets, explored until two processes are inside at once or the disk fails one | `TypeOK`, `OnceInDocumentOrder`, `NothingForgotten` |

Every property of these runs is paired in `PROJECT.json` with a mutant of the
code, a definition marked *Wrong on purpose*, that violates it.

**Bounds.**

* *Queue.* `MaxGeneration` bounds cancellations: 1 is enough for every pairwise
  race of a cancellation with the worker, because no *new* operation starts once the
  generation has reached it while each of the other threads may still be in the
  middle of one it started before: with two threads, two cancellations do overlap.
  `queue_long_press` needs cancellations one after the other and has 2. Each
  utterance is admitted once, since the code never reuses a handle. `CancelKindCap`
  is the code's 32, which these instances do not reach. `RoomForTwo` never refuses an
  item in these runs: refusal is a guard that leaves the state alone, and it does bite
  in `scheduler`, where a terminal has room for exactly what it produces.
* *Scheduler.* Two items per terminal, the least for which order within a terminal
  and overtaking between them both occur, with the real burst of 3; not otherwise
  bounded. `barge` is not bounded at all: every counter is bounded by the code.
* *Lifecycle.* Two processes are one replacement, which is what a stale verdict
  needs; three calls are one per thread, or two of one and one of another.
* *Dictation.* Two recordings, since what can go wrong is the first one's final,
  capture or stop meeting the second. One upset of five kinds at any point.
* *Hands-free.* `EndpointSilence` and `ConfirmTicks` are 2, `MaxSegment` 3 and
  `RawCapacity` 2, the least for which a segment closes by silence and by force, the
  channel fills, and a stop word is confirmed across a boundary. `MaxEvents` = 1 keeps
  the engine one event behind at most; that the recogniser lags is in `raw`. The
  three commands are all the words: a start word within a turn is content.
* *Narration.* A message whose quotes are cut by batches, close without a line end
  and end in a snapshot, and one without quotes: a quote cut in two, a chunk that
  comes before the one in front of it, and a short are all there. `AcceptedMax` = 1: a retry comes
  before the engine has forgotten its id as long as the lock keeps owners apart, and
  one id is the least memory for which that is a claim. Two upsets are a death and a
  lock given up or found stale after it. The constraint `StillSound` checks a state in
  which the file is no longer sound, and does not go on from it: the properties claim
  nothing of what follows, except its types, which are proved.

**Deadlock** is checked in `barge` and `scheduler`. In the others the bounded
operations run out and every thread rightly waits for ever, which is a state
without successors. Stranded work is what `NoStrandedWork`, `EveryUtteranceEnds`,
`EveryCallReturns`, `EveryStopIsAnswered` and `StopWordResolves` are for.

**Fairness.** Only threads of the engine owe progress; users, the helper, agents
and other programs owe none.

* *Queue worker.* Its waits are a condition variable, the two gates (polled), the
  readiness wait (60 s deadline) and the helper's answer (bounded by
  `SPEAK_TERMINAL_TIMEOUT` and the reader's end of file). A closed gate is not assumed
  to open: `EveryUtteranceEnds` assumes in its premise that in the end the queue is
  not paused and the gates are open. A caller's *continuation* is fair: a thread that
  has started an operation completes it; nobody is obliged to start one.
* *Barge.* The watcher loops, a stopped capture closes, a gesture that has begun is
  completed.
* *Lifecycle.* Each thread goes on with its call and each reader reads to the end of
  a dead child's output. Nothing makes the helper read: `EveryCallReturns` excepts by name
  a writer that is stuck for ever in the pipe of a living one. A deadline expires unless the answer comes: the wait of a
  speak, a cue and of the handshake is bounded. A listen has its deadline from its
  stop on; the model gives it one like the others, which takes for granted that a
  dictation is stopped in the end (`Dictation` has the deadline in full).
* *Dictation.* Every step of the tick, of the session's threads and of the clock,
  weakly; the deferred submit strongly, for a user who keeps tapping disables it
  again and again. The code justifies that: the tick that sees a key's release runs
  the deferred submit before it ends, so it is tried in each gap of the tapping.
* *Hands-free.* The three threads, as far as they wait for nothing outside; the voice and
  the user do as they like. Nothing makes a microphone open or a recogniser answer, and
  the two liveness properties name what they except: for `StopWordResolves` a microphone
  that never opens again or a recogniser that never answers, for `MicYieldsToVoice` a
  recogniser that never answers while the channel to it is full.

### Where the code and what it says differ

Four runs state what a comment or document says and TLC finds a behaviour of the
code against it; each counterexample is one or two dozen steps of two or three threads.

* `queue_long_press` / `HardCancelIsFinal`. A tap pauses (the item is to come
  back); before the worker has unwound, a long press clears. The worker consults
  the intent of the cancellation that replaced *its* generation, the tap's, and
  puts the item back at the front of a queue that is empty and not paused:
  it is spoken. `docs/AEC.md:36`: "a long-press clears it without resuming".
* `queue_tap` / `QuietDuringDictation`. The worker does not look at the
  generation between its gates and the speak request. A tap in that window fades a
  helper that plays nothing yet; the utterance is then played in full into the
  dictation, and comes back afterwards.
* `lifecycle_listen` / `ListenSparesReplacement`. A listen (and a diarize, an enroll)
  that wakes on a dead slot or gives up on a finalization calls `mark_dead` without
  the generation it was sent to (`tts/mod.rs:1516`, `1532`). If another thread was
  first to the mutex and has installed a new child, the verdict on the old one kills
  it: what the comment on `mark_dead_if_current` says must not happen.
* `dictation_reload` / `VoiceHeldOnlyWhileRecording`. `teardown_hold` ends a
  dictation when the engine, the listen mode or the Caps gate changes, but never
  resumes the voice the start tap paused, as every other end of a dictation does.
  The queue stays paused until a later tap; with the gate closed there is none.

Two races of the queue were found by runs that a bounded set of questions no longer
has; neither is excluded from the model, and the properties kept are worded so that
they hold with them:

* The generation is advanced and the intent recorded in two steps
  (`ttsq.rs:1147-1148`). A worker that unwinds in between falls back to the live
  pause flag (`ttsq.rs:2270`), which a barge may have set: an item cancelled by a
  submit returns. The comment holds the fallback for unreachable. This is why
  `RecordedIntentDecides` speaks of intents that are on record.
* `clear` lifts a pause and notifies without the queue's lock
  (`ttsq.rs:1165-1168`), unlike `resume` and `set_active_session`. An item queued
  between its prune and its notify can be left beside a sleeping worker.
  `NoStrandedWork` is checked with the threads of `queue_sessions`, which sweep by
  session and never clear.

Smaller observations, from reading and from variations of the runs:

* A dictation that starts and ends between two watcher ticks was never seen as ours,
  so its late capture gets no grace and is taken for a foreign recorder; without the
  condition `seen`, `OurMicIsNotForeign` fails. The comment "race-free by
  construction, not merely by poll timing" (`engine.rs:1293`) covers the start of
  a dictation, not its end. The grace tolerates `GraceTicks - 2` = 2 samples that find
  our capture live after the dictation.
* The state lock does not keep processes apart once a waiter is out of patience,
  which takes one owner that dies or waits for a slow engine. After a death two
  waiters that spin together both use up their 800 ms before the lock file counts as
  stale, and both go on without it (`stream.rs:483-508`); and of two that find it stale
  the second can remove the fresh lock of the first, since the check and the removal
  are two steps (`stream.rs:494-501`). Then a line is spoken twice, or forgotten by a
  write that takes back the other's. "Cross-process RMW mutex" (`stream.rs:475`) and
  "Lock through admission so races don't double-offer" (`hook_narrate.rs:1005`) hold
  as long as nobody is out of patience, which is what `OwnersAreAlone` proves.
* A final chunk that overtakes an earlier one closes the message: lines of the late
  batch are lost. `accum.rs` trusts the final list on purpose; `stream.rs:53` says the
  accumulator survives batches out of order. A message whose final comes back after a
  later message took the state file is counted afresh. Both are `holed` in the model.
* A batch that comes after its message is closed is not always silent, against
  `accum.rs:122` ("Free buffer when done; high-water stays so late duplicates stay
  silent"). The buffer is freed, the final flag stays, and the late chunk is a text of
  its own. In a message with block quotes `short_done` is still false, so that a
  replayed or overtaken chunk without a quote is voiced whole, as a short; and a chunk
  that begins in the middle of a line can show more quotes than were counted. The case
  is `Outruns`; it came out of the proof, whose accumulator invariant it breaks.
* An utterance of always-listening is cut by force after 60 s. If the cut falls behind
  a stop word, the turn can end while the user talks on: the next segment begins
  without an onset, so nothing takes the stop word back (`listener.rs:184-197`,
  `listen.rs:347`). `EndsInSilence` and `EveryWordIsKept` except this case by name.
  The comment at `listen.rs:293` is not true after such a cut either.
* A closed gate leaves an armed stop word armed, and a reload drops a pending Enter
  and leaves `stt_active` as the old listener set it. The half-duplex gate is read
  once per tick, so the microphone can record the first tick of the voice; what it
  records carries the old epoch.
* A skip bumps without knowing which item is claimed; the bump can hit the item
  after the one that was heard, and a fade that is late can truncate that item.
  `SpokenInFull` is checked with threads that do neither skip nor clear, and
  `LateFadesAreUnlocked` says which fades can do it.
* A helper that lives but does not read blocks its own teardown: `write_request` holds
  the lock of stdin across `write_all` (`tts/mod.rs:1161-1169`), and the stop or the
  verdict of a deadline that would kill it waits for that lock (`tts/mod.rs:1007`,
  `1038`) with the lifecycle mutex held, and everybody who needs the mutex behind it.
* A listen returns at STTERR (`tts/mod.rs:1526`), and the LDONE that follows on a line
  of its own (`ds-helper/src/listen.rs:453-454`) is left to whoever listens next. If that
  one has already emptied the slot, it returns at once with no text, and the capture it
  asked for goes on without a session: no stop is sent for it any more
  (`tts/mod.rs:1678`), so the stop of a later listen or the limit of 60 s ends it.
  `StopClosesTheMic` excepts it by name (`Orphaned`).
* Without a microphone an armed stop word stays armed: `capture_worker` sends no tick
  until one opens (`listener.rs:158-162`). A recogniser that hangs lets the channel of 256
  entries fill, and `capture_worker` then waits in its send with the microphone open,
  whatever the gate says (`listener.rs:60-61`, `125`, `130`).
* A pause or a clear drops `tts_active` before its fade, and behind a focus hold
  `is_busy` asks for nothing else (`ttsq.rs:1621`): while the cancelled item still
  fades, always-listening is told that the queue is idle, and may open its microphone.
* The bound on overtaking counts between two changes of the active terminal. Marking
  one terminal and then another spends background turns that a waiting item was due;
  and without a mark every enqueue of another terminal is such a change.
* Always-listening publishes `stt_active` only from the start word on, so its own
  open capture looks foreign to the watcher before that, in half duplex.
* `ttsq.rs:936-938` says that only `pause_with_cause` bumps without holding
  `items`; `skip_current` and `clear` do so too. `docs/PER-TERMINAL-QUEUES.md`
  says the worker holds items of terminals that are not active; `select_pos`
  serves them in turn.

## 4. What is proved

For every set of items, sessions, threads, recordings, windows, processes and
messages, and every bound. TLC evaluates the assumptions named below in the runs of
each module; finiteness of the sets is not assumed.

| Theorem | Property | Argument |
|---|---|---|
| `TtsQueueProofs!TypeCorrect` | `TypeOK` | inductive together with `HandOK`: the worker holds an item exactly at the points of its loop in `HandPcs`, and `take` is reached only with a non-empty queue. Without it the claimed item's type is lost when it is put back |
| `PauseCovers` | `PauseCoversClaim` | strengthened to `PauseSeen`: from the snapshot on, and not only from the claim, a pause that the worker has not seen either has not advanced the generation yet or the snapshot is older than its bump |
| `EachInOnePlace` | `OnePlace` | three further invariants: `LockOK` (who may be in a critical section, so a claim and a sweep exclude each other), `DropOK` (a caller carries discarded handles only between prune and record), and the places split into *apart*, *somewhere* and *one record* |
| `ImplementsLedger` | `LedgerSpec` | `OnePlace` makes the mapping a function of the state; each action maps to one ledger step (claim, requeue, end, discard, admit) or to a stutter |
| `BusyIsReported` | `BusyIsTrue` | strengthened to `HeardOK`: audio exists only while the worker waits in the helper; `inFlight` is set at every point after the gates, whatever a hold reported before; `tts_active` is up while something is heard unless the claim is cancelled, and otherwise only where the trailer that clears it is still ahead |
| `DictationIsHeld` | `DictationHolds` | an action property from `UnpauseOK`: the only step that lifts a pause without asking its cause belongs to a `clear` |
| `RecordedDecides` | `RecordedIntentDecides` | the first hit of a claim is the bump that moves the generation on from its snapshot; its intent is with the thread that made it, or in the map under the claim's generation, and no later cancellation has that number (`FirstHit`, `Passing`). Holds for any capacity of the map |
| `NothingStranded` | `NoStrandedWork` | `WakeComes`: while the worker is about to sleep or asleep beside work it could claim, some thread stands at its notify, and it needs the lock the worker holds until it sleeps. Assumes `NobodyClears`, since `clear` notifies without the lock (section 3) |
| `LateFadesAreUnlocked` | (no run) | `LockedOK`: from its bump to its fade a thread with the items lock keeps the worker from the next claim, and the claim it found is older than its bump; a complete pause covers every claim by `PauseSeen`. What is left are the fades of a skip, a clear, and a pause that another thread has lifted |
| `SchedulerProofs!OvertakingIsBounded` | `BoundedOvertaking` | `Credit` for every position: a preferred item is passed by background turns only, each paid for by a burst in front of it; a background item by the claims of a burst only |
| `SessionsAreFifo` | `FifoWithinSession` | preference depends on the session alone, so the item served is the first of its session; items in the queue are distinct |
| `BargeWatcherProofs!WatcherTypes`, `PauseOwned` | `TypeOK`, `PauseIsOwned` | a tick forgets a barge only by resuming and pauses only with a barge to remember |
| `FloorKept` | `FloorIsKept` | `Floors` follows a pause from the decision to the act on the queue, across a gesture or a clear in between |
| `OurMicSpared` | `OurMicIsNotForeign` | `Mics` bounds what is used of the grace by the samples that found our capture live (`lag`), for every dictation that a tick has seen |
| `HelperLifecycleProofs!LifecycleTypes`, `SlotCoheres` | `TypeOK`, `SlotIsCoherent` | the mutex (`Mutex`: one thread in the section) and the stages of a start and a teardown: which of child, pipe, reader are there at each step |
| `CuesKillTheirOwn` | `OnlyItsOwnChild` | a cue's verdict carries the generation of the child it was sent to, and a generation names one process |
| `CrashesAreReal` | `NoFalseCrash` | `expected_eof` is up from before a deliberate end until the reader of that child is joined, so an end that is reported is one of a process that died or whose output failed |
| `ImplementsOneHelper` | `AbstractSpec` | a spawn happens only in a section whose teardown has reaped and killed; every step is a spawn, a death or a stutter |
| `DictationProofs!BufferCurrent`, `PastesStopped`, `SecondTapInTime` | the properties of nearly those names | `Turn` follows one recording through the gesture: what the buffer holds or awaits is the text of the recording stopped last, and its joiner is out only as long as it does |
| `MicOurs` | `MicIsOurs` | `Listens` follows a generation from its lease through the pipe to the microphone; it meets `Turn` in the stop flag, up on every recording but the one the engine shows |
| `DictationTypes` | `TypeOK` | inductive, in parts that follow who writes what: the gesture and its recordings, the paste buffer, the threads, the lease and the pipe, the helper |
| `HandsFreeProofs!FreshAudio` | `OnlyFreshAudioDrives` | while the gate is open and its epoch has moved, an item of that epoch stems from this opening; an item's epoch was current once, so none has the epoch the gate moves on to |
| `WordsKept`, `SilenceEnds` | `EveryWordIsKept`, `EndsInSilence` | `Announced`: in the stream of both channels, each utterance and each voiced frame has in front of it the onset or the cut that opened speech, or so many ticks of silence that a stop word armed before is confirmed by then; the capture thread keeps the same account of what it will send next. Assumes `CutAssumption`: the silence that confirms is no longer than an utterance may be |
| `HandsFreeTypes` | `TypeOK` | together with the two above, since what a text adds to the buffer is typed by the invariant of the turn |
| `NarrationProofs!OwnersAreAlone` | (no run) | each process inside owns the lock file, by the step that made it; only a step that ends `patient` lets in another |
| `NothingOverwritten` | (no run) | while `sound` holds, a process inside is alone and works on what the file says. Needed for the last two |
| `NarrationTypes` | `TypeOK` | part of `IInv`: that the offset of a sound file is a mark of its message needs that a line about to be committed is one of those it is owed |
| `SpokenOnceInOrder` | `OnceInDocumentOrder` | see below |
| `NothingIsForgotten` | `NothingForgotten` | the same invariant: when the final batch is counted, the lines told or pending are all that are owed (`Whole`) |

`QueueOrderProofs` has lemmas on the operators over sequences (what `Without`,
`RemoveAt` and the requeue at the front do to the set of queued items and to their
being distinct; `NextInLine` is a position of the queue).

**Narration.** The invariant `IInv` is `TypeOK`, and `SoundInv` as long as the file is
`sound`. That has four parts: `Inv` (a process inside is alone, and its copy is the file),
`TypeOK`, `Engine` (what the engine remembers it has enqueued, and a process about to commit has
had the head of the pending lines taken) and `Messages`, one statement about each
message, `MessageOK`. An open message has the lines that were enqueued and those that
are pending in document order, where only the first pending one can be known to the
engine already, and then as the last it has enqueued (`InOrder`: this is why a memory
of one id is enough); their marks are the first of those owed, and all of them once
the final batch is counted (`Whole`). As long as no other message has taken the file,
those marks are exactly what the accumulator has passed, less what was hushed
(`Current`), and the accumulator is one that its batches lead to (`AccOK`). A step is
then a step of one message: selection by `FeedKeeps`, an acceptance by `OrderTaken`, a
commit by `OrderDropped`.

`FeedKeeps` is the statement about texts: chunks from the front, in whatever order
they came, show a text that begins like the whole one (`JoinedBegins`), the complete
block quotes of such a text are the first of the whole one's (`QuotesStay`), and what
lies behind a gap does not count before the final batch (`FrontSpeakable`). It needs no
induction over data: the n-th member of a set of numbers is defined by rank
(`Ascending`), and of two lists in increasing order of which one has the smallest of
the other's members, the first index where they differ gives a contradiction
(`BeginsAlike`).

Only model-checked: all liveness (`EveryUtteranceEnds`, `BargeIsBounded`,
`MaskedForeignIsCaught`, `EveryCallReturns`, `EveryStopIsAnswered`, `StopClosesTheMic`,
`StopWordResolves`, `MicYieldsToVoice`), which is beyond the prover, and `SpokenInFull`,
which holds of the threads of `queue_sessions` only. Every other property of a passing
run is the subject of a theorem.

## 5. The plan

Order is by importance to the user and by how much concurrency a test misses.

1. *Done*: queue, service order, ledger, watcher, helper manager, dictation,
   always-listening, narration, and the theorems above.
2. *Done*: a theorem for every safety property of the passing runs that holds of every
   choice of threads.
3. The helper's playback loop next to `TtsQueue`, in place of `audio`.

### Not modelled

Signal processing, synthesis and recognition; downloads (a per-target state
machine under one lock that unit tests cover); configuration parsing; the
presenter; IPC framing and status rendering; command line, hooks beyond narration,
installer and native applications. None of them changes the state the properties
above are about, other than through the operations that are modelled as callers or
free choices. They are also most of the implementation by size: the share of lines
the modules stand for is small because the concurrent core is.

Of the parts that are modelled, these are left out and known from reading only:

* *The playback loop of the helper.* It takes a job from its slot
  (`serve.rs:1033-1060`) and clears the cancel flag as the job starts
  (`serve.rs:1092`); a stop in between is lost. A request that overwrites a pending
  one leaves that without an answer. A cue that returns early leaves its end for the
  next one. `TtsQueue` has the effect, a fade that finds the helper silent.
* *Mute.* The flag is stored and then written to the child, while a start applies the
  flag to a fresh child: the two can cross and leave child and flag apart.
* *Residency.* A crash between the spawn of the reader and the report of a loaded
  model leaves the report; nothing waits on it but the display.
* *A download's end restarts the helper*, perhaps after a shutdown has begun.
* *The out-of-band alert*, which decides to bypass the queue and plays later.
* *The 60 s limit of a capture* leaves the LED on; an Enter that follows a paste
  survives changes of the gesture, by design.
* *The cap of 32 on cancel intents*: a claim whose intent is dropped decides by the
  live pause flag. It takes 32 cancellations between two steps of the worker.
