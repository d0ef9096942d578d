------------------------------- MODULE HandsFree -------------------------------
(* Always-listening: a capture thread cuts the microphone into utterances, an  *)
(* inference thread transcribes them, and the engine's tick feeds the turn     *)
(* logic, which opens on the start word and acts on a stop word followed by    *)
(* silence.  The microphone is half duplex: it closes while the voice is busy. *)
(* dontspeakd/src/listener.rs, dontspeakd/src/listen.rs.                       *)
(*                                                                             *)
(* Audio is a sequence of frames, each voiced or quiet; what text a segment is *)
(* transcribed to is the recogniser's choice.                                  *)
EXTENDS Naturals, Sequences, SequencesExt, FiniteSets

CONSTANTS
  Content,          \* words that are neither the start word nor a stop word
  EndpointSilence,  \* quiet frames that close an utterance (endpoint_silence_ms)
  ConfirmTicks,     \* silence that confirms a stop word (submit_confirm_ms)
  MaxSegment,       \* frames after which an utterance is cut by force (60 s)
  RawCapacity,      \* the channel between capture and inference (256)
  MaxVoiced,        \* bound: frames in which the user speaks
  MaxUpsets,        \* bound: starts of the voice and reloads
  MaxEvents         \* bound: transcribed events the engine has not collected

ASSUME FrameAssumption ==
  /\ {EndpointSilence, ConfirmTicks, MaxSegment, RawCapacity, MaxEvents}
       \subseteq Nat \ {0}
  /\ {MaxVoiced, MaxUpsets} \subseteq Nat
  /\ Content \cap {"start", "submit", "cancel"} = {}

\* A minute of audio is longer than the silence that confirms a stop word.
ASSUME CutAssumption == ConfirmTicks <= MaxSegment

StopWords == {"submit", "cancel"}
Words == Content \cup StopWords \cup {"start"}
Nothing == "nothing"

VARIABLES
  \* the user and the voice
  spoken,        \* voiced frames so far
  busy,          \* the queue speaks or is about to (TtsQueue::is_busy)
  upsets,
  \* shared by the worker's threads
  enabled, epoch,
  raw, events,   \* the two channels
  \* the capture thread
  cpc,
  active,        \* active_epoch
  mic,           \* the capture is open
  inSpeech, silence, segment,  \* Endpointer, and the samples of the utterance
  \* the inference thread
  transcribing,  \* it works on the segment at the head of raw
  \* the engine
  epc, batch,    \* how many of the events this tick has yet to work through
  capturing, buffer, pending,  \* TurnLogic
  sttActive, pendingEnter,
  \* history
  ring,          \* the opening in which the samples not yet drained came in
  heard,         \* every word consumed since the start word
  voiced         \* what the user did since the stop word was armed

userVars == <<spoken, upsets>>
gateVars == <<enabled, epoch>>
endpointVars == <<inSpeech, silence, segment>>
captureVars == <<cpc, active, mic, inSpeech, silence, segment>>
turnVars == <<capturing, buffer, pending>>
turnHistory == <<heard, voiced>>
engineVars == <<epc, batch, capturing, buffer, pending, sttActive, pendingEnter>>
vars == <<spoken, busy, upsets, enabled, epoch, raw, events, cpc, active,
          mic, inSpeech, silence, segment, transcribing, epc, batch,
          capturing, buffer, pending, sttActive, pendingEnter,
          ring, heard, voiced>>

\* Which opening of the gate this is, 0 while it is closed: the switch moves
\* before the epoch does.
Opening(on, at) == IF on THEN (at + 1) \div 2 ELSE 0
Now == Opening(enabled, epoch)

\* Audio that came in during more than one opening, or in none, is of none.
Both(a, b) == IF a = b THEN a ELSE 0

NoSegment == [voiced |-> 0, len |-> 0, from |-> 0]
NoPending == [kind |-> Nothing, elapsed |-> 0]

\* What travels through the channels: "voiced" frames, and the text once they are
\* transcribed.  "cut" tells whether a segment was cut by force, "from" the
\* opening of the gate its audio was captured in: both are history.
Event(kind, n, cut, from) ==
  [kind |-> kind, epoch |-> active, voiced |-> n, text |-> <<>>, cut |-> cut,
   from |-> from]

FreshWorker ==
  /\ enabled' = FALSE /\ epoch' = 1 /\ raw' = <<>> /\ events' = <<>>
  /\ cpc' = "check" /\ active' = 1 /\ mic' = FALSE
  /\ inSpeech' = FALSE /\ silence' = 0 /\ segment' = NoSegment
  /\ transcribing' = FALSE /\ ring' = 0

Init ==
  /\ spoken = 0 /\ busy = FALSE /\ upsets = 0
  /\ enabled = FALSE /\ epoch = 1 /\ raw = <<>> /\ events = <<>>
  /\ cpc = "check" /\ active = 1 /\ mic = FALSE
  /\ inSpeech = FALSE /\ silence = 0 /\ segment = NoSegment
  /\ transcribing = FALSE /\ ring = 0
  /\ epc = "idle" /\ batch = 0
  /\ capturing = FALSE /\ buffer = <<>> /\ pending = NoPending
  /\ sttActive = FALSE /\ pendingEnter = FALSE
  /\ heard = <<>> /\ voiced = "none"

-----------------------------------------------------------------------------
(* The voice starts and stops by itself (TtsQueue).                        *)

VoiceStarts ==
  /\ ~busy /\ upsets < MaxUpsets
  /\ busy' = TRUE /\ upsets' = upsets + 1
  /\ UNCHANGED <<spoken, gateVars, raw, events, captureVars, transcribing,
                 engineVars, ring, turnHistory>>

VoiceStops ==
  /\ busy
  /\ busy' = FALSE
  /\ UNCHANGED <<userVars, gateVars, raw, events, captureVars, transcribing,
                 engineVars, ring, turnHistory>>

-----------------------------------------------------------------------------
(* The capture thread (capture_worker).                                    *)

captureKeeps == <<userVars, busy, gateVars, events, transcribing, engineVars,
                  turnHistory>>

\* The gate is closed, or was meanwhile: the microphone and the utterance go.
CaptureCloses ==
  /\ cpc = "check" /\ (epoch # active \/ ~enabled)
  /\ mic' = FALSE /\ ring' = 0
  /\ inSpeech' = FALSE /\ silence' = 0 /\ segment' = NoSegment
  /\ active' = epoch
  /\ UNCHANGED <<captureKeeps, raw, cpc>>

\* The gate may close while the thread sleeps, before it drains.  A microphone
\* that does not open is tried again, and until it does not even a tick is sent.
CaptureOpens ==
  /\ cpc = "check" /\ epoch = active /\ enabled
  /\ \/ mic' = TRUE /\ cpc' = "drain"
        /\ ring' = IF mic THEN ring ELSE Now
     \/ ~mic /\ UNCHANGED <<mic, cpc, ring>>
  /\ UNCHANGED <<captureKeeps, raw, active, endpointVars>>

\* Wrong on purpose: the channel has no limit.
SendsAtOnce(sent) == raw' = raw \o sent

\* The channel to the inference thread holds so much; a send waits for room.
Sends(sent) == Len(raw) + Len(sent) <= RawCapacity /\ raw' = raw \o sent

\* Wrong on purpose: without samples nothing is said.
CaptureSaysNothing ==
  /\ cpc = "drain" /\ cpc' = "check"
  /\ UNCHANGED <<captureKeeps, raw, active, mic, endpointVars, ring>>

\* No samples: silence, as far as the turn can tell.
CaptureNoSamples ==
  /\ cpc = "drain"
  /\ Sends(<<Event("Tick", 0, FALSE, ring)>>) /\ cpc' = "check"
  /\ UNCHANGED <<captureKeeps, active, mic, endpointVars, ring>>

Grown(voice) ==
  [voiced |-> segment.voiced + voice, len |-> segment.len + 1,
   from |-> IF segment.len = 0 THEN ring ELSE Both(segment.from, ring)]

SegmentOf(s, cut) ==
  Event("Segment", s.voiced, cut, IF s.len = 0 THEN ring ELSE s.from)

\* The endpointer's verdict on a frame (Endpointer::step), after an utterance
\* too long has been cut: rest is what is left of it.
Endpoint(voice, rest, cuts) ==
  LET closes == voice = 0 /\ silence + 1 >= EndpointSilence
      tick == Event("Tick", voice, FALSE, ring) IN
  \/ /\ ~inSpeech /\ voice = 1
     /\ inSpeech' = TRUE /\ silence' = 0 /\ segment' = rest
     /\ Sends(Append(cuts, Event("SpeechOnset", 1, FALSE, ring)))
  \/ /\ ~inSpeech /\ voice = 0
     /\ segment' = rest /\ Sends(Append(cuts, tick))
     /\ UNCHANGED <<inSpeech, silence>>
  \/ /\ inSpeech /\ voice = 1
     /\ silence' = 0 /\ segment' = rest /\ Sends(Append(cuts, tick))
     /\ UNCHANGED inSpeech
  \/ /\ inSpeech /\ closes
     /\ inSpeech' = FALSE /\ silence' = 0 /\ segment' = NoSegment
     /\ Sends(Append(cuts, SegmentOf(rest, FALSE)))
  \/ /\ inSpeech /\ voice = 0 /\ ~closes
     /\ silence' = silence + 1 /\ segment' = rest /\ Sends(Append(cuts, tick))
     /\ UNCHANGED inSpeech

\* A chunk of samples: it joins the utterance even before speech has begun, and
\* an utterance over the limit is cut there and then.
CaptureFrame(voice) ==
  /\ cpc = "drain"
  /\ spoken + voice <= MaxVoiced
  /\ spoken' = spoken + voice
  /\ IF Grown(voice).len > MaxSegment
     THEN Endpoint(voice, NoSegment, <<SegmentOf(Grown(voice), TRUE)>>)
     ELSE Endpoint(voice, Grown(voice), <<>>)
  /\ ring' = Now /\ cpc' = "check"
  /\ UNCHANGED <<upsets, busy, gateVars, events, transcribing, engineVars,
                 turnHistory, active, mic>>

CaptureDrains ==
  CaptureNoSamples \/ \E voice \in {0, 1} : CaptureFrame(voice)

Capture == CaptureCloses \/ CaptureOpens \/ CaptureDrains

-----------------------------------------------------------------------------
(* The inference thread (inference_worker).                                *)

inferKeeps == <<userVars, busy, gateVars, captureVars, engineVars, ring,
                turnHistory>>

InferSkipsStale ==
  /\ ~transcribing /\ raw # <<>> /\ Head(raw).epoch # epoch
  /\ raw' = Tail(raw)
  /\ UNCHANGED <<inferKeeps, events, transcribing>>

InferPasses ==
  /\ ~transcribing /\ raw # <<>> /\ Head(raw).epoch = epoch
  /\ Head(raw).kind # "Segment" /\ Len(events) < MaxEvents
  /\ raw' = Tail(raw) /\ events' = Append(events, Head(raw))
  /\ UNCHANGED <<inferKeeps, transcribing>>

InferTakesSegment ==
  /\ ~transcribing /\ raw # <<>> /\ Head(raw).epoch = epoch
  /\ Head(raw).kind = "Segment"
  /\ transcribing' = TRUE
  /\ UNCHANGED <<inferKeeps, raw, events>>

\* The recogniser answers, an epoch or two later perhaps: a text of no more words
\* than there were voiced frames, or none, as when it fails.
InferTranscribes ==
  /\ transcribing /\ Len(events) < MaxEvents
  /\ \E text \in BoundedSeq(Words, Head(raw).voiced) :
       events' = Append(events, [Head(raw) EXCEPT !.text = text])
  /\ raw' = Tail(raw) /\ transcribing' = FALSE
  /\ UNCHANGED inferKeeps

InferForwards == InferSkipsStale \/ InferPasses \/ InferTakesSegment
Infer == InferForwards \/ InferTranscribes

-----------------------------------------------------------------------------
(* The turn (TurnLogic).                                                   *)

StopWordOf(text) == IF text = <<>> \/ Last(text) \notin StopWords THEN Nothing
                    ELSE Last(text)

\* What follows the first start word of a text that has one.
AfterStart(text) ==
  LET at == CHOOSE i \in DOMAIN text :
              text[i] = "start" /\ \A j \in 1..(i - 1) : text[j] # "start"
  IN  SubSeq(text, at + 1, Len(text))

TurnReset == capturing' = FALSE /\ buffer' = <<>> /\ pending' = NoPending

\* What was heard by the time of a segment: a stop word still armed then is
\* forgotten, which only happens to one armed in mid-speech.
Remembered ==
  IF pending # NoPending /\ voiced = "midspeech" THEN buffer ELSE heard

\* A stop word that ends an utterance is armed, its word kept out of the buffer.
OnSegment(text) ==
  \/ /\ text = <<>>
     /\ pending' = NoPending /\ heard' = Remembered
     /\ UNCHANGED <<capturing, buffer>>
  \/ /\ text # <<>> /\ ~capturing
     /\ capturing' = ("start" \in ToSet(text))
     /\ buffer' = IF capturing' THEN AfterStart(text) ELSE buffer
     /\ heard' = buffer' /\ pending' = NoPending
  \/ /\ text # <<>> /\ capturing /\ StopWordOf(text) = Nothing
     /\ buffer' = buffer \o text /\ heard' = Remembered \o text
     /\ pending' = NoPending
     /\ UNCHANGED capturing
  \/ /\ text # <<>> /\ capturing /\ StopWordOf(text) # Nothing
     /\ buffer' = buffer \o Front(text) /\ heard' = Remembered \o text
     /\ pending' = [kind |-> StopWordOf(text), elapsed |-> 0]
     /\ UNCHANGED capturing

\* Wrong on purpose: the stop word is gone for good, or stays armed.
OnSpeechOnsetForgetting ==
  /\ pending' = NoPending
  /\ UNCHANGED <<capturing, buffer, heard>>
OnSpeechOnsetStillArmed == UNCHANGED <<turnVars, heard>>

\* The user goes on: the stop word was content.
OnSpeechOnset ==
  /\ buffer' = IF pending = NoPending THEN buffer
               ELSE Append(buffer, pending.kind)
  /\ pending' = NoPending
  /\ UNCHANGED <<capturing, heard>>

Confirms == pending # NoPending /\ pending.elapsed + 1 >= ConfirmTicks

\* The silence adds up, on any tick: the turn is over once it is long enough.
OnTick ==
  \/ /\ Confirms
     /\ TurnReset /\ heard' = <<>>
  \/ /\ pending # NoPending /\ ~Confirms
     /\ pending' = [pending EXCEPT !.elapsed = @ + 1]
     /\ UNCHANGED <<capturing, buffer, heard>>
  \/ /\ pending = NoPending
     /\ UNCHANGED <<turnVars, heard>>

\* History: what the user has done since the stop word was armed.
VoicedSince(e) ==
  voiced' = IF pending' = NoPending THEN "none"
            ELSE IF e.kind = "Segment" THEN (IF e.cut THEN "midspeech" ELSE "none")
            ELSE IF voiced = "none" /\ e.voiced > 0 THEN "spoke" ELSE voiced

\* The submitted text is pasted; its Enter waits for the paste to settle
\* (paste_delay_ms; without a delay it follows in the same step).
Submits(e) ==
  e.kind = "Tick" /\ Confirms /\ pending.kind = "submit" /\ buffer # <<>>

-----------------------------------------------------------------------------
(* The engine's tick (Listener::tick).                                     *)

engineKeeps == <<userVars, busy, captureVars, raw, transcribing>>

\* A deferred Enter that is due is pressed first, gate or no gate.
EnterIsDue == pendingEnter' \in {FALSE, pendingEnter}

Collects ==
  /\ batch' = Len(events)
  /\ epc' = IF events = <<>> THEN "idle" ELSE "process"

\* The voice is quiet and the gate open: what has been transcribed by now is
\* worked through.
TickListens ==
  /\ epc = "idle" /\ ~busy /\ enabled
  /\ EnterIsDue /\ Collects
  /\ UNCHANGED <<engineKeeps, gateVars, events, turnVars, sttActive, ring, turnHistory>>

\* The voice is busy and the gate closed: what still comes is thrown away.
TickDiscards ==
  /\ epc = "idle" /\ busy /\ ~enabled
  /\ EnterIsDue /\ events' = <<>>
  /\ UNCHANGED <<engineKeeps, gateVars, epc, batch, turnVars, sttActive, ring,
                 turnHistory>>

\* Wrong on purpose: the gate is opened and never closed.
TickOnlyOpens ==
  /\ epc = "idle" /\ ~busy /\ ~enabled
  /\ EnterIsDue
  /\ enabled' = TRUE /\ epc' = "bump"
  /\ ring' = IF mic THEN 0 ELSE ring
  /\ UNCHANGED <<engineKeeps, epoch, events, batch, turnVars, sttActive,
                 turnHistory>>

\* The gate follows the voice: first the switch (set_enabled) ...
TickSwitches ==
  /\ epc = "idle" /\ busy = enabled
  /\ EnterIsDue
  /\ enabled' = ~busy /\ epc' = "bump"
  /\ ring' = IF mic THEN 0 ELSE ring
  /\ UNCHANGED <<engineKeeps, epoch, events, batch, turnVars, sttActive,
                 turnHistory>>

\* ... then the epoch.  A gate that opens has the tick listen, one that closes
\* has it discard; the turn stays as it is (gate_off).
GateBumps ==
  /\ epc = "bump"
  /\ epoch' = epoch + 1
  /\ IF enabled THEN Collects /\ UNCHANGED events
     ELSE events' = <<>> /\ epc' = "idle" /\ UNCHANGED batch
  /\ UNCHANGED <<engineKeeps, enabled, turnVars, sttActive, pendingEnter, ring,
                 turnHistory>>

\* The pill follows the turn (sync_pill), then the action runs (exec).
Drives(e) ==
  /\ \/ e.kind = "Tick" /\ OnTick
     \/ e.kind = "SpeechOnset" /\ OnSpeechOnset
     \/ e.kind = "Segment" /\ OnSegment(e.text)
  /\ VoicedSince(e)
  /\ sttActive' = capturing'
  /\ pendingEnter' = (pendingEnter \/ Submits(e))

\* Wrong on purpose: any event will do.
NeverStale(e) == FALSE

IsStale(e) == e.epoch # epoch

TickProcesses ==
  /\ epc = "process"
  /\ events' = Tail(events) /\ batch' = batch - 1
  /\ epc' = IF batch = 1 THEN "idle" ELSE "process"
  /\ IF IsStale(Head(events))
     THEN UNCHANGED <<turnVars, sttActive, pendingEnter, turnHistory>>
     ELSE Drives(Head(events))
  /\ UNCHANGED <<engineKeeps, gateVars, ring>>

Tick == TickListens \/ TickDiscards \/ TickSwitches \/ GateBumps \/ TickProcesses

\* A changed hands-free setting replaces the listener: its threads are told to
\* stop and nobody reads their channels any more.  The recording flag stays as
\* the old listener left it (Engine::reload).
Reload ==
  /\ epc = "idle" /\ upsets < MaxUpsets
  /\ upsets' = upsets + 1
  /\ FreshWorker /\ TurnReset
  /\ pendingEnter' = FALSE
  /\ heard' = <<>> /\ voiced' = "none"
  /\ UNCHANGED <<spoken, busy, epc, batch, sttActive>>

Next == VoiceStarts \/ VoiceStops \/ Capture \/ Infer \/ Tick \/ Reload

Spec == Init /\ [][Next]_vars

\* The three threads run, as far as they wait for nothing outside; the voice and
\* the user do as they like.  Nothing makes a microphone open or a recogniser answer.
FairSpec ==
  /\ Spec
  /\ WF_vars(CaptureCloses \/ (mic /\ CaptureOpens) \/ CaptureDrains)
  /\ WF_vars(InferForwards) /\ WF_vars(Tick)

-----------------------------------------------------------------------------
(* Properties.                                                             *)

Events == [kind : {"Tick", "SpeechOnset", "Segment"}, epoch : Nat \ {0},
           voiced : 0..MaxVoiced, text : Seq(Words), cut : BOOLEAN, from : Nat]

\* The variables stay in their ranges and the channels within their limits
\* (the bounded raw channel, the cut at sixty seconds).
TypeOK ==
  /\ spoken \in 0..MaxVoiced /\ upsets \in 0..MaxUpsets
  /\ {busy, enabled, mic, inSpeech, transcribing, capturing, sttActive,
      pendingEnter}
       \subseteq BOOLEAN
  /\ {epoch, active} \subseteq Nat \ {0} /\ ring \in Nat
  /\ raw \in Seq(Events) /\ Len(raw) <= RawCapacity
  /\ transcribing => raw # <<>> /\ Head(raw).kind = "Segment"
  /\ events \in Seq(Events) /\ batch \in 0..Len(events)
  /\ cpc \in {"check", "drain"} /\ epc \in {"idle", "bump", "process"}
  /\ (epc = "process") = (batch > 0)
  /\ silence \in 0..(EndpointSilence - 1)
  /\ segment.voiced \in 0..MaxVoiced /\ segment.len \in 0..MaxSegment
  /\ buffer \in Seq(Words) /\ heard \in Seq(Words)
  /\ pending.kind \in StopWords \cup {Nothing}
  /\ pending.elapsed \in 0..(ConfirmTicks - 1)
  /\ voiced \in {"none", "spoke", "midspeech"}

\* What drives the turn was recorded since the gate last opened: nothing heard
\* before the voice closed the microphone, or while it spoke, is dictated after
\* it, however far behind the recogniser is (the epochs of ListenerEvent).
OnlyFreshAudioDrives ==
  epc = "process" /\ ~IsStale(Head(events)) => Head(events).from = Now

\* A turn ends on a stop word and the silence after it: the user has not spoken
\* on in what the turn has heard since, unless the stop word was the end of an
\* utterance cut by force (Endpointer, TurnLogic::on_tick).
EndsInSilence ==
  [][capturing /\ ~capturing' /\ epc = "process"
       => voiced = "midspeech" \/ (voiced = "none" /\ Head(events).voiced = 0)]_vars

\* Every word recognised since the start word is in the buffer, in order, or is
\* the stop word being confirmed: talking on puts it back.  Only the stop word
\* of an utterance cut by force can be lost (on_segment, on_speech_onset).
EveryWordIsKept ==
  heard = IF pending = NoPending THEN buffer ELSE Append(buffer, pending.kind)

MicNeverOpens == <>[](enabled /\ ~mic)
RecogniserHangs == <>[]transcribing
RecogniserHangsAndChannelFull == <>[](transcribing /\ Len(raw) = RawCapacity)

\* An armed stop word is confirmed or taken back unless the voice starts to
\* speak: the turn does not hang on it, though an open microphone gives no samples.
\* Only a microphone that never opens again, or a recogniser that never answers,
\* leaves it armed, since then no tick arrives (capture_worker, inference_worker).
StopWordResolves ==
  \/ pending # NoPending ~> pending = NoPending \/ busy
  \/ MicNeverOpens \/ RecogniserHangs

\* While the voice goes on speaking the microphone closes (half duplex), however
\* far behind the recogniser is: only one that never answers keeps it open, once
\* the channel is full and the capture thread waits in its send (send_raw).
MicYieldsToVoice ==
  \/ busy /\ mic ~> ~busy \/ ~mic
  \/ RecogniserHangsAndChannelFull
=============================================================================
