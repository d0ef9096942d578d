--------------------------- MODULE HandsFreeProofs ---------------------------
(***************************************************************************)
(* Theorems about HandsFree, for any bounds, limits and words: what drives *)
(* the turn was recorded since the gate last opened, no recognised word is *)
(* lost, a turn ends in silence, and types.                                *)
(*                                                                         *)
(* While the gate is open and its epoch has moved (Live), an item of that  *)
(* epoch stems from this opening.  The epoch an item carries was current   *)
(* once, so no item has the epoch the gate moves on to: that is why the    *)
(* property survives each change of the gate, and why the order of the     *)
(* switch and the epoch in set_enabled matters.                            *)
(*                                                                         *)
(* The words need more: what is in the two channels, taken as one stream,  *)
(* is Announced.  In front of every utterance and every voiced frame is    *)
(* the onset or the cut that opened speech, or so much silence that a stop *)
(* word armed before it has been confirmed.                                *)
(***************************************************************************)
EXTENDS HandsFree, TLAPS, SequenceTheorems, WellFoundedInduction

\* The gate is open, and the worker knows.
Live == enabled /\ epc # "bump"

Item == [kind : {"Tick", "SpeechOnset", "Segment"}, epoch : Nat, voiced : Nat,
         text : Seq(Words), cut : BOOLEAN, from : Nat]

\* What may travel through the channels.
Known == {e \in Item : e.epoch <= epoch /\ (Live /\ e.epoch = epoch => e.from = Now)}

Channels == raw \in Seq(Known) /\ events \in Seq(Known)

Gate == /\ enabled \in BOOLEAN /\ epoch \in Nat /\ active \in Nat /\ active <= epoch
        /\ epc = "process" => enabled /\ batch \in 1..Len(events)

\* What the capture thread has, and whether it is of this opening.
Captured ==
  /\ ring \in Nat /\ segment \in [voiced : Nat, len : Nat, from : Nat]
  /\ cpc = "drain" => mic
  /\ Live /\ active = epoch =>
       (mic => ring = Now) /\ (segment.len # 0 => segment.from = Now)

Inv == Channels /\ Gate /\ Captured /\ (transcribing => raw # <<>>)

-----------------------------------------------------------------------------

LEMMA Singleton == ASSUME NEW S, NEW x \in S PROVE <<x>> \in Seq(S)
OBVIOUS

LEMMA NoSegmentType == NoSegment \in [voiced : Nat, len : Nat, from : Nat] /\ NoSegment.len = 0
BY DEF NoSegment

LEMMA NowIsNat == ASSUME Gate PROVE Now \in Nat
BY DEF Gate, Now, Opening

\* The items the capture thread makes of its samples are known.
LEMMA EventKnown ==
  ASSUME Inv, NEW kind \in {"Tick", "SpeechOnset", "Segment"}, NEW n \in Nat,
         NEW cut \in BOOLEAN, NEW from \in Nat,
         Live /\ active = epoch => from = Now
  PROVE  Event(kind, n, cut, from) \in Known
<1>1. <<>> \in Seq(Words) BY EmptySeq
<1>2. Event(kind, n, cut, from) \in Item BY <1>1 DEF Event, Item, Inv, Gate
<1> QED BY <1>2 DEF Event, Known, Inv, Gate

\* A send of known items keeps the channel known.
LEMMA SendKnown ==
  ASSUME Inv, NEW sent \in Seq(Known), Sends(sent),
         UNCHANGED <<enabled, epoch, epc>>
  PROVE  raw' \in Seq(Known)' /\ (raw # <<>> => raw' # <<>>)
<1>1. raw' = raw \o sent /\ Known' = Known BY DEF Sends, Known, Live, Now, Opening
<1>2. raw \o sent \in Seq(Known) /\ Len(raw \o sent) = Len(raw) + Len(sent)
  BY ConcatProperties DEF Inv, Channels
<1>3. Len(sent) \in Nat /\ (raw # <<>> => Len(raw) \in Nat \ {0})
  BY EmptySeq, LenProperties DEF Inv, Channels
<1>4. raw # <<>> => raw \o sent # <<>>
  BY <1>2, <1>3, EmptySeq
<1> QED BY <1>1, <1>2, <1>4

\* Only the gate, and the tick, change what is known.
LEMMA KnownStays ==
  ASSUME Inv, UNCHANGED <<enabled, epoch>>, epc' = "bump" <=> epc = "bump"
  PROVE  Known' = Known /\ Live' = Live
BY DEF Known, Live, Now, Opening

-----------------------------------------------------------------------------
(* The capture thread.                                                     *)

\* What a step of the capture thread has to establish.
LEMMA CaptureSteps ==
  ASSUME Inv, UNCHANGED <<captureKeeps, active>>, Captured',
         raw' \in Seq(Known), raw # <<>> => raw' # <<>>
  PROVE  Inv'
BY KnownStays DEF Inv, Channels, Gate, captureKeeps, gateVars, engineVars

LEMMA FrameKeeps ==
  ASSUME Inv, NEW voice \in {0, 1}, CaptureFrame(voice)
  PROVE  Inv'
<1>1. /\ cpc = "drain" /\ cpc' = "check" /\ mic /\ ring' = Now
      /\ UNCHANGED <<gateVars, events, transcribing, engineVars, active, mic>>
  BY DEF CaptureFrame, Inv, Captured
<1>2. Now \in Nat /\ ring \in Nat /\ segment \in [voiced : Nat, len : Nat, from : Nat]
      /\ (Live /\ active = epoch => ring = Now /\ (segment.len # 0 => segment.from = Now))
  BY <1>1, NowIsNat DEF Inv, Captured
<1>3. /\ Grown(voice) \in [voiced : Nat, len : Nat, from : Nat]
      /\ Live /\ active = epoch => Grown(voice).from = Now
      /\ Grown(voice).len # 0
  BY <1>2 DEF Grown, Both
<1> DEFINE Fit(s) == /\ s \in [voiced : Nat, len : Nat, from : Nat]
                     /\ Live /\ active = epoch => (s.len # 0 => s.from = Now)
<1>4. Fit(Grown(voice)) /\ Fit(NoSegment) BY <1>3 DEF NoSegment
<1>5. ASSUME NEW s, Fit(s), NEW cut \in BOOLEAN PROVE SegmentOf(s, cut) \in Known
  BY <1>2, <1>5, EventKnown DEF SegmentOf
<1>6. ASSUME NEW rest, Fit(rest), NEW cuts \in Seq(Known), Endpoint(voice, rest, cuts)
      PROVE  Inv'
  <2>1. Event("Tick", voice, FALSE, ring) \in Known
    BY <1>2, EventKnown
  <2>2. Event("SpeechOnset", 1, FALSE, ring) \in Known
    BY <1>2, EventKnown
  <2>3. SegmentOf(rest, FALSE) \in Known BY <1>5, <1>6
  <2>4. \E x \in Known : Sends(Append(cuts, x))
    BY <1>6, <2>1, <2>2, <2>3 DEF Endpoint
  <2>5. PICK x \in Known : Sends(Append(cuts, x)) BY <2>4
  <2>6. Append(cuts, x) \in Seq(Known) BY <1>6, <2>5, AppendProperties
  <2>7. raw' \in Seq(Known)' /\ (raw # <<>> => raw' # <<>>)
    BY <1>1, <2>5, <2>6, SendKnown DEF gateVars, engineVars
  <2>8. segment' = rest \/ segment' = NoSegment BY <1>6 DEF Endpoint
  <2>9. Fit(segment') BY <1>4, <1>6, <2>8
  <2>10. Known' = Known /\ Live' = Live /\ Now' = Now
    BY <1>1, KnownStays DEF gateVars, engineVars, Now, Opening
  <2>11. Captured'
    BY <1>1, <1>2, <2>9, <2>10 DEF Captured, gateVars
  <2> QED BY <1>1, <2>7, <2>10, <2>11 DEF Inv, Channels, Gate, gateVars, engineVars
<1>7. <<>> \in Seq(Known) BY EmptySeq
<1>8. <<SegmentOf(Grown(voice), TRUE)>> \in Seq(Known) BY <1>4, <1>5, Singleton
<1> QED BY <1>4, <1>6, <1>7, <1>8 DEF CaptureFrame

LEMMA CaptureKeepsInv == ASSUME Inv, Capture PROVE Inv'
<1>1. CASE CaptureCloses
  <2>1. active' = epoch /\ UNCHANGED <<gateVars, raw, events, transcribing, engineVars>>
        /\ mic' = FALSE /\ ring' = 0 /\ segment' = NoSegment /\ cpc' = "check"
    BY <1>1 DEF CaptureCloses, captureKeeps
  <2>2. Known' = Known BY <2>1, KnownStays DEF gateVars, engineVars
  <2>3. Captured' BY <2>1 DEF Captured, NoSegment
  <2> QED BY <2>1, <2>2, <2>3 DEF Inv, Channels, Gate, gateVars, engineVars
<1>2. CASE CaptureOpens
  <2>1. /\ \/ mic' = TRUE /\ cpc' = "drain" /\ ring' = IF mic THEN ring ELSE Now
           \/ UNCHANGED <<mic, cpc, ring>>
        /\ UNCHANGED <<captureKeeps, raw, active, endpointVars>>
    BY <1>2 DEF CaptureOpens
  <2>2. Known' = Known /\ Live' = Live /\ Now' = Now
    BY <2>1, KnownStays DEF captureKeeps, gateVars, engineVars, Now, Opening
  <2>3. Captured'
    BY <2>1, <2>2, NowIsNat DEF Inv, Captured, captureKeeps, gateVars, endpointVars
  <2> QED BY <2>1, <2>2, <2>3
          DEF Inv, Channels, Gate, captureKeeps, gateVars, engineVars
<1>3. CASE CaptureNoSamples
  <2>1. /\ cpc = "drain" /\ cpc' = "check"
        /\ Sends(<<Event("Tick", 0, FALSE, ring)>>)
        /\ UNCHANGED <<captureKeeps, active, mic, endpointVars, ring>>
    BY <1>3 DEF CaptureNoSamples
  <2>2. Event("Tick", 0, FALSE, ring) \in Known
    BY <2>1, EventKnown DEF Inv, Captured
  <2>3. <<Event("Tick", 0, FALSE, ring)>> \in Seq(Known) BY <2>2, Singleton
  <2>4. raw' \in Seq(Known)' /\ (raw # <<>> => raw' # <<>>)
    BY <2>1, <2>3, SendKnown DEF captureKeeps, gateVars, engineVars
  <2>5. Known' = Known /\ Live' = Live /\ Now' = Now
    BY <2>1, KnownStays DEF captureKeeps, gateVars, engineVars, Now, Opening
  <2>6. Captured'
    BY <2>1, <2>5 DEF Inv, Captured, captureKeeps, gateVars, endpointVars
  <2> QED BY <2>1, <2>4, <2>5, <2>6
          DEF Inv, Channels, Gate, captureKeeps, gateVars, engineVars
<1>4. CASE \E voice \in {0, 1} : CaptureFrame(voice) BY <1>4, FrameKeeps
<1> QED BY <1>1, <1>2, <1>3, <1>4 DEF Capture, CaptureDrains

-----------------------------------------------------------------------------
(* The inference thread.                                                   *)

LEMMA InferKeepsInv == ASSUME Inv, Infer PROVE Inv'
<1>1. UNCHANGED <<gateVars, captureVars, engineVars, ring>> /\ raw # <<>>
  BY DEF Infer, InferForwards, InferSkipsStale, InferPasses, InferTakesSegment,
         InferTranscribes, inferKeeps, Inv
<1>2. Known' = Known /\ Live' = Live /\ Now' = Now
  BY <1>1, KnownStays DEF gateVars, engineVars, Now, Opening
<1>3. Captured' BY <1>1, <1>2 DEF Inv, Captured, captureVars, gateVars
<1>4. Head(raw) \in Known /\ Tail(raw) \in Seq(Known) BY <1>1, HeadTailProperties DEF Inv, Channels
<1>5. raw' \in Seq(Known) /\ (transcribing' => raw' # <<>>)
  <2>1. CASE raw' = raw BY <1>1, <2>1 DEF Inv, Channels
  <2>2. CASE raw' = Tail(raw) /\ ~transcribing' BY <1>4, <2>2
  <2> QED BY <2>1, <2>2 DEF Infer, InferForwards, InferSkipsStale, InferPasses,
                            InferTakesSegment, InferTranscribes
<1>6. events' \in Seq(Known) /\ Len(events') >= Len(events) /\ Len(events) \in Nat
  <2>1. events \in Seq(Known) /\ Len(events) \in Nat
    BY LenProperties DEF Inv, Channels
  <2>2. ASSUME NEW e \in Known, events' = Append(events, e)
        PROVE  events' \in Seq(Known) /\ Len(events') >= Len(events)
    BY <2>1, <2>2, AppendProperties
  <2>3. CASE InferTranscribes
    <3>1. PICK text \in BoundedSeq(Words, Head(raw).voiced) :
            events' = Append(events, [Head(raw) EXCEPT !.text = text])
      BY <2>3 DEF InferTranscribes
    <3>2. text \in Seq(Words)
      <4>1. text \in SeqOf(Words, Head(raw).voiced) BY <3>1 DEF BoundedSeq
      <4>2. PICK n \in 0..Head(raw).voiced : text \in [1..n -> Words]
        BY <4>1 DEF SeqOf
      <4>3. n \in Nat BY <1>4 DEF Known, Item
      <4> QED BY <4>2, <4>3
    <3>3. [Head(raw) EXCEPT !.text = text] \in Known
      BY <1>4, <3>2 DEF Known, Item
    <3> QED BY <2>1, <2>2, <3>1, <3>3
  <2>4. CASE InferPasses BY <2>1, <2>2, <2>4, <1>4 DEF InferPasses
  <2>5. CASE events' = events BY <2>1, <2>5
  <2> QED BY <2>3, <2>4, <2>5 DEF Infer, InferForwards, InferSkipsStale, InferTakesSegment
<1>7. Gate' BY <1>1, <1>6 DEF Inv, Gate, gateVars, captureVars, engineVars
<1> QED BY <1>2, <1>3, <1>5, <1>6, <1>7 DEF Inv, Channels

-----------------------------------------------------------------------------
(* The engine.                                                             *)

LEMMA TickKeepsInv == ASSUME Inv, Tick PROVE Inv'
<1>1. /\ UNCHANGED <<active, mic, segment, cpc, raw, transcribing>>
      /\ enabled' \in BOOLEAN /\ ring' \in Nat
  <2>1. UNCHANGED <<active, mic, segment, cpc, raw, transcribing>>
    BY DEF Tick, TickListens, TickDiscards, TickSwitches, GateBumps, TickProcesses,
           engineKeeps, captureVars
  <2>2. (enabled' = enabled \/ enabled' = ~busy) /\ (ring' = ring \/ ring' = 0)
    BY DEF Tick, TickListens, TickDiscards, TickSwitches, GateBumps, TickProcesses,
           gateVars
  <2>3. enabled' \in BOOLEAN
    <3>1. CASE enabled' = enabled BY <3>1 DEF Inv, Gate
    <3>2. CASE enabled' = ~busy BY ONLY <3>2, Zenon
    <3> QED BY <2>2, <3>1, <3>2
  <2>4. ring' \in Nat BY <2>2 DEF Inv, Captured
  <2> QED BY <2>1, <2>3, <2>4
<1>2. <<>> \in Seq(Known) /\ Len(events) \in Nat /\ (events # <<>> => Len(events) >= 1)
  BY EmptySeq, LenProperties DEF Inv, Channels
<1>3. CASE TickListens
  <2>1. /\ epc = "idle" /\ enabled /\ Collects
        /\ UNCHANGED <<enabled, epoch, events, ring>>
    BY <1>3 DEF TickListens, gateVars
  <2>2. epc' \in {"idle", "process"} BY <2>1 DEF Collects
  <2>3. Known' = Known /\ Live' = Live /\ Now' = Now
    BY <2>1, <2>2, KnownStays DEF Now, Opening
  <2>4. Gate' BY <1>1, <1>2, <2>1 DEF Inv, Gate, Collects
  <2> QED BY <1>1, <2>1, <2>3, <2>4 DEF Inv, Channels, Captured
<1>4. CASE TickDiscards
  <2>1. epc = "idle" /\ events' = <<>> /\ UNCHANGED <<enabled, epoch, epc, batch, ring>>
    BY <1>4 DEF TickDiscards, gateVars
  <2>2. Known' = Known /\ Live' = Live /\ Now' = Now
    BY <2>1, KnownStays DEF Now, Opening
  <2> QED BY <1>1, <1>2, <2>1, <2>2 DEF Inv, Channels, Captured, Gate
<1>5. CASE TickSwitches
  <2>1. epc' = "bump" /\ UNCHANGED <<epoch, events>> BY <1>5 DEF TickSwitches
  <2>2. Known \subseteq Known' BY <2>1 DEF Known, Live
  <2>3. raw \in Seq(Known') /\ events \in Seq(Known')
    BY <2>2, SeqMonotonic DEF Inv, Channels
  <2> QED BY <1>1, <2>1, <2>3 DEF Inv, Channels, Captured, Gate, Live
<1>6. CASE GateBumps
  <2>1. epoch' = epoch + 1 /\ UNCHANGED <<enabled, ring>>
    BY <1>6 DEF GateBumps
  <2>2. Known \subseteq Known' /\ active < epoch'
    BY <2>1 DEF Known, Inv, Gate, Item
  <2>3. raw \in Seq(Known') /\ events \in Seq(Known') /\ <<>> \in Seq(Known')
    BY <2>2, SeqMonotonic, EmptySeq DEF Inv, Channels
  <2>4. /\ events' = events \/ events' = <<>>
        /\ epc' = "process" => enabled /\ events' = events /\ batch' = Len(events)
                               /\ events # <<>>
    BY <1>6 DEF GateBumps, Collects
  <2>5. Channels' BY <1>1, <2>3, <2>4 DEF Channels
  <2>6. Gate' BY <1>1, <1>2, <2>1, <2>4 DEF Inv, Gate
  <2>7. Captured' BY <1>1, <2>1, <2>2 DEF Inv, Captured, Gate
  <2> QED BY <1>1, <2>5, <2>6, <2>7 DEF Inv
<1>7. CASE TickProcesses
  <2>1. /\ epc = "process" /\ events' = Tail(events) /\ batch' = batch - 1
        /\ epc' = IF batch = 1 THEN "idle" ELSE "process"
        /\ UNCHANGED <<enabled, epoch, ring>>
    BY <1>7 DEF TickProcesses, gateVars
  <2>2. Known' = Known /\ Live' = Live /\ Now' = Now
    BY <2>1, KnownStays DEF Now, Opening
  <2>3. batch \in 1..Len(events) /\ events # <<>> /\ enabled
    BY <1>2, <2>1, EmptySeq DEF Inv, Gate
  <2>4. Tail(events) \in Seq(Known) /\ Len(Tail(events)) = Len(events) - 1
    BY <1>2, <2>3, HeadTailProperties DEF Inv, Channels
  <2>5. Gate' BY <1>1, <1>2, <2>1, <2>3, <2>4 DEF Inv, Gate
  <2> QED BY <1>1, <2>1, <2>2, <2>4, <2>5 DEF Inv, Channels, Captured
<1> QED BY <1>3, <1>4, <1>5, <1>6, <1>7 DEF Tick

\* The voice, which the gate only looks at in a tick of the engine, and a fresh
\* worker.
LEMMA OthersKeepInv ==
  ASSUME Inv, VoiceStarts \/ VoiceStops \/ Reload \/ UNCHANGED vars
  PROVE  Inv'
<1>1. CASE Reload
  <2>1. /\ enabled' = FALSE /\ epoch' = 1 /\ raw' = <<>> /\ events' = <<>>
        /\ cpc' = "check" /\ active' = 1 /\ mic' = FALSE /\ segment' = NoSegment
        /\ transcribing' = FALSE /\ ring' = 0 /\ epc' = "idle"
    BY <1>1 DEF Reload, FreshWorker
  <2>2. <<>> \in Seq(Known') BY EmptySeq
  <2>3. Gate'
    <3>1. enabled' \in BOOLEAN BY <2>1, Zenon
    <3> QED BY <2>1, <3>1 DEF Gate
  <2>4. Captured' BY <2>1, NoSegmentType DEF Captured
  <2>5. Channels' /\ ~transcribing' BY <2>1, <2>2 DEF Channels
  <2> QED BY <2>3, <2>4, <2>5 DEF Inv
<1>2. CASE VoiceStarts \/ VoiceStops \/ UNCHANGED vars
  <2>1. UNCHANGED <<enabled, epoch, raw, events, cpc, active, mic, segment,
                    transcribing, epc, batch, ring>>
    BY <1>2 DEF VoiceStarts, VoiceStops, vars, gateVars, captureVars, engineVars
  <2>2. Known' = Known /\ Live' = Live /\ Now' = Now
    BY <2>1, KnownStays DEF Now, Opening
  <2> QED BY <2>1, <2>2 DEF Inv, Channels, Gate, Captured
<1> QED BY <1>1, <1>2

LEMMA InvAtFirst == Init => Inv
<1> SUFFICES ASSUME Init PROVE Inv OBVIOUS
<1>1. <<>> \in Seq(Known) BY EmptySeq
<1>2. enabled \in BOOLEAN BY Zenon DEF Init
<1>3. Gate BY <1>2 DEF Init, Gate
<1>4. Captured BY NoSegmentType DEF Init, Captured
<1>5. Channels /\ ~transcribing BY <1>1 DEF Init, Channels
<1> QED BY <1>3, <1>4, <1>5 DEF Inv

LEMMA InvNext == ASSUME Inv, [Next]_vars PROVE Inv'
BY CaptureKeepsInv, InferKeepsInv, TickKeepsInv, OthersKeepInv DEF Next

LEMMA InvHolds == Spec => []Inv
BY InvAtFirst, InvNext, PTL DEF Spec

\* Nothing heard before the voice closed the microphone, or while it spoke, is
\* acted on after it: an event the turn takes was captured since the gate last
\* opened, however late it comes out of the two channels and the recogniser.
THEOREM FreshAudio == Spec => []OnlyFreshAudioDrives
<1>1. Inv => OnlyFreshAudioDrives
  <2> SUFFICES ASSUME Inv, epc = "process", ~IsStale(Head(events))
               PROVE  Head(events).from = Now
    BY DEF OnlyFreshAudioDrives
  <2>1. events # <<>> /\ Live
    BY EmptySeq, LenProperties DEF Inv, Gate, Channels, Live
  <2>2. Head(events) \in Known BY <2>1, HeadTailProperties DEF Inv, Channels
  <2> QED BY <2>1, <2>2 DEF Known, IsStale
<1> QED BY <1>1, InvHolds, PTL

-----------------------------------------------------------------------------
(* The stream of what is on its way to the turn, and what the turn may expect *)
(* of it.                                                                     *)

Opens(e) == e.kind = "SpeechOnset" \/ (e.kind = "Segment" /\ e.cut)
Speaks(e) == e.kind = "Segment" \/ (e.kind = "Tick" /\ e.voiced > 0)

\* No stop word is armed, or one that a cut put there while the user talked.
Loose(pend, voi) == pend = NoPending \/ voi = "midspeech"

\* The last thing of epoch k in front of p, ticks apart, opened speech.
Opened(s, p, k) ==
  \E q \in 1..(p - 1) : /\ Opens(s[q]) /\ s[q].epoch = k
                        /\ \A r \in (q + 1)..(p - 1) : s[r].kind = "Tick"

OnlyTicks(s, p, k) ==
  \A r \in 1..(p - 1) : s[r].epoch = k => s[r].kind = "Tick"

\* From j up to p there are ticks of epoch k and nothing else.
TicksFrom(s, j, p, k) ==
  \A r \in j..(p - 1) : s[r].epoch = k /\ s[r].kind = "Tick"

\* The user is heard by p to be speaking: what is in front of p says so, or the
\* turn knows already.
Aware(s, p, k, pend, voi) ==
  Opened(s, p, k) \/ (OnlyTicks(s, p, k) /\ Loose(pend, voi))

\* Or there are n ticks of silence in front of p, some perhaps counted already.
Excused(s, p, n, k, pend, voi) ==
  \/ Aware(s, p, k, pend, voi)
  \/ OnlyTicks(s, p, k)
     /\ \E j \in 1..p : TicksFrom(s, j, p, k) /\ pend.elapsed + (p - j) >= n
  \/ \E j \in 1..p : TicksFrom(s, j, p, k) /\ p - j >= n

-----------------------------------------------------------------------------

\* Only what is in front of p matters, and not the text of it.
Alike(d, e) == /\ d.kind = e.kind /\ d.epoch = e.epoch /\ d.cut = e.cut
               /\ d.voiced = e.voiced

LEMMA SameFront ==
  ASSUME NEW s, NEW t, NEW p \in Nat, NEW n \in Nat, NEW k, NEW pend, NEW voi,
         \A r \in 1..(p - 1) : Alike(s[r], t[r])
  PROVE  /\ Aware(s, p, k, pend, voi) => Aware(t, p, k, pend, voi)
         /\ Excused(s, p, n, k, pend, voi) => Excused(t, p, n, k, pend, voi)
<1>1. Opened(s, p, k) => Opened(t, p, k)
  BY DEF Opened, Opens, Alike
<1>2. OnlyTicks(s, p, k) => OnlyTicks(t, p, k) BY DEF OnlyTicks, Alike
<1>3. ASSUME NEW j \in 1..p PROVE TicksFrom(s, j, p, k) => TicksFrom(t, j, p, k)
  BY DEF TicksFrom, Alike
<1> QED BY <1>1, <1>2, <1>3 DEF Aware, Excused

LEMMA FewerTicks ==
  ASSUME NEW s, NEW p \in Nat, NEW n \in Nat, NEW m \in Nat, m <= n, NEW k,
         NEW pend, pend.elapsed \in Nat, NEW voi,
         Excused(s, p, n, k, pend, voi)
  PROVE  Excused(s, p, m, k, pend, voi)
BY DEF Excused

LEMMA NoTicks ==
  ASSUME NEW s, NEW p \in Nat \ {0}, NEW k, NEW pend, NEW voi
  PROVE  Excused(s, p, 0, k, pend, voi)
<1>1. TicksFrom(s, p, p, k) /\ p \in 1..p /\ p - p >= 0 BY DEF TicksFrom
<1> QED BY <1>1 DEF Excused

\* The stream grows by one item.
Grows(s, t, x) == /\ Len(t) = Len(s) + 1 /\ t[Len(s) + 1] = x
                  /\ \A i \in 1..Len(s) : t[i] = s[i]

LEMMA TickAdds ==
  ASSUME NEW s, NEW t, NEW x, Len(s) \in Nat, Grows(s, t, x),
         NEW n \in Nat, NEW k, NEW pend, pend.elapsed \in Nat, NEW voi,
         x.kind = "Tick", x.epoch = k
  PROVE  /\ Aware(s, Len(s) + 1, k, pend, voi) => Aware(t, Len(s) + 2, k, pend, voi)
         /\ Excused(s, Len(s) + 1, n, k, pend, voi)
              => Excused(t, Len(s) + 2, n + 1, k, pend, voi)
<1> DEFINE p == Len(s) + 1
<1>1. /\ p \in Nat \ {0} /\ (p + 1) - 1 = p /\ Len(s) + 2 = p + 1
      /\ \A r \in 1..p : r \in 1..(p - 1) \/ r = p
      /\ t[p] = x /\ \A r \in 1..(p - 1) : t[r] = s[r]
  BY DEF Grows
<1> HIDE DEF p
<1>2. Opened(s, p, k) => Opened(t, p + 1, k)
  <2> SUFFICES ASSUME Opened(s, p, k) PROVE Opened(t, p + 1, k) OBVIOUS
  <2>1. PICK q \in 1..(p - 1) : /\ Opens(s[q]) /\ s[q].epoch = k
                                /\ \A r \in (q + 1)..(p - 1) : s[r].kind = "Tick"
    BY DEF Opened
  <2>2. q \in 1..p /\ Opens(t[q]) /\ t[q].epoch = k
    <3>1. t[q] = s[q] BY <1>1
    <3>2. q \in 1..p BY <1>1
    <3> QED BY ONLY <2>1, <3>1, <3>2
  <2>3. \A r \in (q + 1)..p : t[r].kind = "Tick"
    <3> TAKE r \in (q + 1)..p
    <3>1. CASE r = p BY <1>1, <3>1
    <3>2. CASE r # p
      <4>1. r \in (q + 1)..(p - 1) /\ r \in 1..(p - 1) BY <1>1, <2>1, <3>2
      <4> QED BY <1>1, <2>1, <4>1
    <3> QED BY <3>1, <3>2
  <2> QED BY <1>1, <2>2, <2>3 DEF Opened
<1>3. OnlyTicks(s, p, k) => OnlyTicks(t, p + 1, k)
  BY <1>1 DEF OnlyTicks
<1>4. ASSUME NEW j \in 1..p, TicksFrom(s, j, p, k)
      PROVE  TicksFrom(t, j, p + 1, k) /\ j \in 1..(p + 1) /\ (p + 1) - j = (p - j) + 1
             /\ p - j \in Nat
  BY <1>1, <1>4 DEF TicksFrom
<1>5. Excused(s, p, n, k, pend, voi) => Excused(t, p + 1, n + 1, k, pend, voi)
  <2>1. CASE OnlyTicks(s, p, k)
             /\ \E j \in 1..p : TicksFrom(s, j, p, k) /\ pend.elapsed + (p - j) >= n
    <3>1. PICK j \in 1..p : TicksFrom(s, j, p, k) /\ pend.elapsed + (p - j) >= n BY <2>1
    <3>2. pend.elapsed + ((p + 1) - j) >= n + 1 BY <3>1, <1>4
    <3> QED BY <2>1, <3>1, <3>2, <1>3, <1>4 DEF Excused
  <2>2. CASE \E j \in 1..p : TicksFrom(s, j, p, k) /\ p - j >= n
    <3>1. PICK j \in 1..p : TicksFrom(s, j, p, k) /\ p - j >= n BY <2>2
    <3>2. (p + 1) - j >= n + 1 BY <3>1, <1>4
    <3> QED BY <3>1, <3>2, <1>4 DEF Excused
  <2>3. CASE Aware(s, p, k, pend, voi) BY <2>3, <1>2, <1>3 DEF Aware, Excused
  <2> QED BY <2>1, <2>2, <2>3 DEF Excused
<1> QED BY <1>1, <1>2, <1>3, <1>5 DEF Aware, p

LEMMA OpenerAdds ==
  ASSUME NEW s, NEW t, NEW x, Len(s) \in Nat, Grows(s, t, x), NEW k, NEW pend,
         NEW voi, Opens(x), x.epoch = k
  PROVE  Aware(t, Len(s) + 2, k, pend, voi)
<1>1. Len(s) + 1 \in 1..((Len(s) + 2) - 1) /\ t[Len(s) + 1] = x
      /\ ((Len(s) + 1) + 1)..((Len(s) + 2) - 1) = {}
  BY DEF Grows
<1> QED BY <1>1 DEF Aware, Opened

\* The head of the stream is taken, and the turn moves on with it.
Moves(e, k, pend, voi, pend2, voi2) ==
  /\ e.epoch # k => pend2 = pend /\ voi2 = voi
  /\ e.epoch = k /\ Opens(e) => Loose(pend2, voi2)
  /\ e.epoch = k /\ e.kind = "Tick" =>
       \/ pend2 = NoPending
       \/ /\ pend # NoPending /\ pend2.elapsed = pend.elapsed + 1
          /\ voi = "midspeech" => voi2 = "midspeech"

LEMMA HeadGoes ==
  ASSUME NEW s, NEW t, Len(s) \in Nat \ {0}, Len(t) = Len(s) - 1,
         \A i \in 1..Len(t) : t[i] = s[i + 1],
         NEW p \in 2..(Len(s) + 1), NEW n \in Nat, NEW k, NEW pend, NEW voi,
         NEW pend2, NEW voi2, pend.elapsed \in Nat, pend2.elapsed \in Nat,
         Moves(s[1], k, pend, voi, pend2, voi2)
  PROVE  /\ Aware(s, p, k, pend, voi) => Aware(t, p - 1, k, pend2, voi2)
         /\ Excused(s, p, n, k, pend, voi) => Excused(t, p - 1, n, k, pend2, voi2)
<1>1. /\ p - 1 \in Nat \ {0} /\ 1 \in 1..(p - 1)
      /\ \A r \in 1..((p - 1) - 1) : t[r] = s[r + 1] /\ r + 1 \in 1..(p - 1)
  OBVIOUS
<1>2. OnlyTicks(s, p, k) => OnlyTicks(t, p - 1, k) /\ (s[1].epoch = k => s[1].kind = "Tick")
  BY <1>1 DEF OnlyTicks
<1>3. OnlyTicks(s, p, k) /\ Loose(pend, voi) => Loose(pend2, voi2)
  BY <1>2 DEF Loose, Moves
<1>4. Opened(s, p, k) => Aware(t, p - 1, k, pend2, voi2)
  <2> SUFFICES ASSUME Opened(s, p, k) PROVE Aware(t, p - 1, k, pend2, voi2) OBVIOUS
  <2>1. PICK q \in 1..(p - 1) : /\ Opens(s[q]) /\ s[q].epoch = k
                                /\ \A r \in (q + 1)..(p - 1) : s[r].kind = "Tick"
    BY DEF Opened
  <2>2. CASE q = 1
    <3>1. Loose(pend2, voi2) BY <2>1, <2>2 DEF Moves
    <3>2. OnlyTicks(t, p - 1, k)
      <4> SUFFICES ASSUME NEW r \in 1..((p - 1) - 1) PROVE t[r].kind = "Tick"
        BY DEF OnlyTicks
      <4>1. r + 1 \in (q + 1)..(p - 1) BY <2>2
      <4> QED BY <1>1, <2>1, <4>1
    <3> QED BY <3>1, <3>2 DEF Aware
  <2>3. CASE q # 1
    <3>1. q - 1 \in 1..((p - 1) - 1) /\ (q - 1) + 1 = q BY <2>1, <2>3
    <3>2. t[q - 1] = s[q] BY <1>1, <3>1
    <3>3. \A r \in ((q - 1) + 1)..((p - 1) - 1) : t[r].kind = "Tick"
      <4> TAKE r \in ((q - 1) + 1)..((p - 1) - 1)
      <4>1. r + 1 \in (q + 1)..(p - 1) /\ r \in 1..((p - 1) - 1) BY <2>1, <3>1
      <4> QED BY <1>1, <2>1, <4>1
    <3> QED BY <2>1, <3>1, <3>2, <3>3 DEF Aware, Opened
  <2> QED BY <2>2, <2>3
<1>5. Aware(s, p, k, pend, voi) => Aware(t, p - 1, k, pend2, voi2)
  BY <1>2, <1>3, <1>4 DEF Aware
\* A run of ticks that does not reach the head moves with p.
<1>6. ASSUME NEW j \in 2..p, TicksFrom(s, j, p, k)
      PROVE  j - 1 \in 1..(p - 1) /\ TicksFrom(t, j - 1, p - 1, k) /\ (p - 1) - (j - 1) = p - j
  <2>1. ASSUME NEW r \in (j - 1)..((p - 1) - 1) PROVE t[r].epoch = k /\ t[r].kind = "Tick"
    <3>1. r \in 1..((p - 1) - 1) /\ r + 1 \in j..(p - 1) OBVIOUS
    <3> QED BY <1>1, <1>6, <3>1 DEF TicksFrom
  <2> QED BY <2>1 DEF TicksFrom
\* One that does is all there is, and its first tick is counted.
<1>7. ASSUME TicksFrom(s, 1, p, k), NEW m \in Nat, m = 0 \/ m = pend.elapsed, m + (p - 1) >= n
      PROVE  Excused(t, p - 1, n, k, pend2, voi2)
  <2>1. s[1].epoch = k /\ s[1].kind = "Tick" BY <1>1, <1>7 DEF TicksFrom
  <2>2. OnlyTicks(t, p - 1, k) /\ TicksFrom(t, 1, p - 1, k)
    <3>1. ASSUME NEW r \in 1..((p - 1) - 1) PROVE t[r].epoch = k /\ t[r].kind = "Tick"
      BY <1>1, <1>7 DEF TicksFrom
    <3> QED BY <3>1 DEF OnlyTicks, TicksFrom
  <2>3. CASE pend2 = NoPending BY <2>2, <2>3 DEF Excused, Aware, Loose
  <2>4. CASE pend2.elapsed = pend.elapsed + 1
    <3>1. ASSUME NEW a \in Nat, NEW b \in Nat, b = a + 1, m = 0 \/ m = a
          PROVE  b + ((p - 1) - 1) >= n
      BY <1>7, <3>1
    <3>2. pend2.elapsed + ((p - 1) - 1) >= n BY <1>7, <2>4, <3>1
    <3> QED BY <1>1, <2>2, <3>2 DEF Excused
  <2> QED BY <2>1, <2>3, <2>4 DEF Moves
<1>8. ASSUME NEW j \in 1..p, TicksFrom(s, j, p, k), p - j >= n
      PROVE  Excused(t, p - 1, n, k, pend2, voi2)
  <2>1. CASE j = 1 BY <1>7, <1>8, <2>1
  <2>2. CASE j # 1
    <3>1. j \in 2..p BY <2>2
    <3> QED BY <1>6, <1>8, <3>1 DEF Excused
  <2> QED BY <2>1, <2>2
<1>9. ASSUME NEW j \in 1..p, TicksFrom(s, j, p, k), pend.elapsed + (p - j) >= n,
             OnlyTicks(s, p, k)
      PROVE  Excused(t, p - 1, n, k, pend2, voi2)
  <2>1. CASE j = 1 BY <1>7, <1>9, <2>1
  <2>2. CASE j # 1
    <3>1. j \in 2..p BY <2>2
    <3>2. CASE pend2 = NoPending BY <1>2, <1>9, <3>2 DEF Excused, Aware, Loose
    <3>3. CASE pend2.elapsed >= pend.elapsed
      <4>1. pend2.elapsed + ((p - 1) - (j - 1)) >= n BY <1>9, <3>1, <3>3
      <4> QED BY <1>2, <1>6, <1>9, <3>1, <4>1 DEF Excused
    <3>4. pend2 = NoPending \/ pend2 = pend \/ pend2.elapsed = pend.elapsed + 1
      BY <1>2, <1>9 DEF Moves
    <3> QED BY <3>2, <3>3, <3>4
  <2> QED BY <2>1, <2>2
<1> QED BY <1>5, <1>8, <1>9 DEF Excused

\* A stale item is dropped on its way.
LEMMA StaleGoes ==
  ASSUME NEW s, NEW t, Len(s) \in Nat, NEW m \in 1..Len(s), Len(t) = Len(s) - 1,
         \A i \in 1..(m - 1) : t[i] = s[i],
         \A i \in m..Len(t) : t[i] = s[i + 1],
         NEW p \in 1..(Len(s) + 1), NEW n \in Nat, NEW k, NEW pend, NEW voi,
         s[m].epoch # k, p # m
  PROVE  /\ p < m => /\ Aware(s, p, k, pend, voi) => Aware(t, p, k, pend, voi)
                     /\ Excused(s, p, n, k, pend, voi) => Excused(t, p, n, k, pend, voi)
         /\ p > m => /\ Aware(s, p, k, pend, voi) => Aware(t, p - 1, k, pend, voi)
                     /\ Excused(s, p, n, k, pend, voi) => Excused(t, p - 1, n, k, pend, voi)
<1>1. CASE p < m
  <2>1. \A r \in 1..(p - 1) : Alike(s[r], t[r]) BY <1>1 DEF Alike
  <2> QED BY <1>1, <2>1, SameFront
<1>2. CASE p > m
  <2>1. /\ p - 1 \in Nat \ {0}
        /\ \A r \in 1..((p - 1) - 1) :
             /\ r \in 1..(p - 1) /\ r + 1 \in 1..(p - 1)
             /\ r < m => t[r] = s[r]
             /\ r >= m => t[r] = s[r + 1]
    <3>1. p - 1 \in Nat \ {0} BY <1>2
    <3>2. ASSUME NEW r \in 1..((p - 1) - 1)
          PROVE  /\ r \in 1..(p - 1) /\ r + 1 \in 1..(p - 1)
                 /\ r < m => t[r] = s[r]
                 /\ r >= m => t[r] = s[r + 1]
      <4>1. r < m => r \in 1..(m - 1) BY <1>2
      <4>2. r >= m => r \in m..Len(t) BY <1>2
      <4>3. r \in 1..(p - 1) /\ r + 1 \in 1..(p - 1) BY <1>2
      <4> QED BY <4>1, <4>2, <4>3
    <3> QED BY <3>1, <3>2
  <2>2. OnlyTicks(s, p, k) => OnlyTicks(t, p - 1, k)
    <3> SUFFICES ASSUME OnlyTicks(s, p, k), NEW r \in 1..((p - 1) - 1), t[r].epoch = k
                 PROVE  t[r].kind = "Tick"
      BY DEF OnlyTicks
    <3>1. r < m \/ r >= m BY <1>2
    <3> QED BY <2>1, <3>1 DEF OnlyTicks
  <2>3. Opened(s, p, k) => Opened(t, p - 1, k)
    <3> SUFFICES ASSUME Opened(s, p, k) PROVE Opened(t, p - 1, k) OBVIOUS
    <3>1. PICK q \in 1..(p - 1) : /\ Opens(s[q]) /\ s[q].epoch = k
                                  /\ \A r \in (q + 1)..(p - 1) : s[r].kind = "Tick"
      BY DEF Opened
    <3> DEFINE z == IF q > m THEN q - 1 ELSE q
    <3>2. q # m /\ z \in 1..((p - 1) - 1) /\ t[z] = s[q] BY <1>2, <2>1, <3>1
    <3>3. \A r \in (z + 1)..((p - 1) - 1) : t[r].kind = "Tick"
      <4> TAKE r \in (z + 1)..((p - 1) - 1)
      <4>1. r \in 1..((p - 1) - 1) BY <3>2
      <4>2. CASE r < m
        <5>1. r \in (q + 1)..(p - 1) BY <4>1, <4>2, <3>2, <3>1
        <5> QED BY <2>1, <3>1, <4>1, <4>2, <5>1
      <4>3. CASE r >= m
        <5>1. r + 1 \in (q + 1)..(p - 1) BY <4>1, <4>3, <3>2, <3>1
        <5> QED BY <2>1, <3>1, <4>1, <4>3, <5>1
      <4> QED BY <4>1, <4>2, <4>3
    <3> QED BY <3>1, <3>2, <3>3 DEF Opened
  <2>4. ASSUME NEW j \in 1..p, TicksFrom(s, j, p, k)
        PROVE  j - 1 \in 1..(p - 1) /\ TicksFrom(t, j - 1, p - 1, k) /\ (p - 1) - (j - 1) = p - j
    <3>1. j > m
      <4>1. ~(m \in j..(p - 1)) BY <2>4 DEF TicksFrom
      <4> QED BY <1>2, <4>1
    <3>2. ASSUME NEW r \in (j - 1)..((p - 1) - 1) PROVE t[r].epoch = k /\ t[r].kind = "Tick"
      <4>1. r \in 1..((p - 1) - 1) /\ r >= m /\ r + 1 \in j..(p - 1) BY <3>1
      <4> QED BY <2>1, <2>4, <4>1 DEF TicksFrom
    <3> QED BY <3>1, <3>2 DEF TicksFrom
  <2> QED BY <1>2, <2>2, <2>3, <2>4 DEF Aware, Excused
<1> QED BY <1>1, <1>2

-----------------------------------------------------------------------------
(* The invariant.                                                          *)

\* What is transcribed and then what is captured, in the order the turn gets it.
Stream == events \o raw

\* The turn itself.
Turn ==
  /\ pending \in [kind : StopWords \cup {Nothing}, elapsed : 0..(ConfirmTicks - 1)]
  /\ pending.kind = Nothing => pending = NoPending
  /\ voiced \in {"none", "midspeech"}
  /\ buffer \in Seq(Words)
  /\ EveryWordIsKept

\* An utterance, and a voiced frame, comes to the turn announced, or so long after
\* a stop word that this has been confirmed.
Sound(s, k, pend, voi) ==
  \A p \in 1..Len(s) :
    s[p].epoch = k /\ Speaks(s[p]) => Excused(s, p, ConfirmTicks, k, pend, voi)

\* What the capture thread may send behind s, after so many frames of silence.
MaySend(s, len) ==
  /\ inSpeech => Aware(s, Len(s) + 1, epoch, pending, voiced)
  /\ ~inSpeech => Excused(s, Len(s) + 1, len, epoch, pending, voiced)

Announced ==
  Live => /\ Sound(Stream, epoch, pending, voiced)
          /\ active = epoch => MaySend(Stream, segment.len)

TurnInv == Inv /\ Turn /\ Announced

USE FrameAssumption

-----------------------------------------------------------------------------

LEMMA StreamType ==
  ASSUME Inv
  PROVE  /\ Len(events) \in Nat /\ Len(raw) \in Nat
         /\ Stream \in Seq(Known) /\ Len(Stream) = Len(events) + Len(raw)
         /\ \A p \in 1..Len(events) : Stream[p] = events[p]
         /\ \A p \in 1..Len(raw) : Stream[Len(events) + p] = raw[p]
<1>1. raw \in Seq(Known) /\ events \in Seq(Known) BY DEF Inv, Channels
<1>2. Len(events) \in Nat /\ Len(raw) \in Nat BY <1>1, LenProperties
<1> QED BY <1>1, <1>2, ConcatProperties DEF Stream

\* What the capture thread sends goes to the end of the stream.
LEMMA GrowsRight ==
  ASSUME NEW S, NEW e \in Seq(S), NEW f \in Seq(S), NEW x \in S
  PROVE  Grows(e \o f, e \o Append(f, x), x)
<1>1. /\ Len(e) \in Nat /\ Len(f) \in Nat /\ Append(f, x) \in Seq(S)
      /\ Len(Append(f, x)) = Len(f) + 1 /\ Append(f, x)[Len(f) + 1] = x
      /\ \A i \in 1..Len(f) : Append(f, x)[i] = f[i]
  BY LenProperties, AppendProperties
<1> DEFINE g == Append(f, x)
<1> HIDE DEF g
<1>2. /\ g \in Seq(S) /\ Len(g) = Len(f) + 1 /\ g[Len(f) + 1] = x
      /\ \A i \in 1..Len(f) : g[i] = f[i]
  BY <1>1 DEF g
<1>3. /\ Len(e \o f) = Len(e) + Len(f) /\ Len(e \o g) = Len(e) + Len(g)
      /\ \A i \in 1..(Len(e) + Len(f)) :
           (e \o f)[i] = IF i <= Len(e) THEN e[i] ELSE f[i - Len(e)]
      /\ \A i \in 1..(Len(e) + Len(g)) :
           (e \o g)[i] = IF i <= Len(e) THEN e[i] ELSE g[i - Len(e)]
  BY <1>2, ConcatProperties
<1>4. (e \o g)[Len(e) + Len(f) + 1] = x
  <2>1. Len(e) + Len(f) + 1 \in 1..(Len(e) + Len(g)) BY <1>1, <1>2
  <2>2. ~(Len(e) + Len(f) + 1 <= Len(e)) /\ (Len(e) + Len(f) + 1) - Len(e) = Len(f) + 1
    BY <1>1
  <2> QED BY <1>2, <1>3, <2>1, <2>2
<1>5. ASSUME NEW i \in 1..(Len(e) + Len(f)) PROVE (e \o g)[i] = (e \o f)[i]
  <2>1. i \in 1..(Len(e) + Len(g)) BY <1>1, <1>2
  <2>2. CASE i <= Len(e) BY <1>3, <2>1, <2>2
  <2>3. CASE ~(i <= Len(e))
    <3>1. i - Len(e) \in 1..Len(f) BY <1>1, <2>3
    <3>2. g[i - Len(e)] = f[i - Len(e)] BY <1>2, <3>1
    <3> QED BY <1>3, <2>1, <2>3, <3>2
  <2> QED BY <2>2, <2>3
<1>6. Len(e \o g) = Len(e \o f) + 1 BY <1>1, <1>2, <1>3
<1>7. Len(e \o f) = Len(e) + Len(f) BY <1>3
<1> QED BY <1>4, <1>5, <1>6, <1>7 DEF Grows, g

LEMMA OneSent ==
  ASSUME Inv, NEW x \in Known, raw' = raw \o <<x>>, UNCHANGED events
  PROVE  Grows(Stream, Stream', x)
<1>1. raw \in Seq(Known) /\ events \in Seq(Known) BY DEF Inv, Channels
<1>2. raw' = Append(raw, x) BY <1>1
<1> QED BY <1>1, <1>2, GrowsRight DEF Stream

LEMMA TwoSent ==
  ASSUME Inv, NEW c \in Known, UNCHANGED events
  PROVE  LET t == events \o Append(raw, c) IN
         /\ Len(t) \in Nat /\ Grows(Stream, t, c)
         /\ \A x \in Known : raw' = raw \o <<c, x>> => Grows(t, Stream', x)
<1>1. raw \in Seq(Known) /\ events \in Seq(Known) BY DEF Inv, Channels
<1>2. Append(raw, c) \in Seq(Known)
      /\ \A x \in Known : raw \o <<c, x>> = Append(Append(raw, c), x)
  BY <1>1
<1>3. Grows(Stream, events \o Append(raw, c), c) BY <1>1, GrowsRight DEF Stream
<1>4. ASSUME NEW x \in Known, raw' = raw \o <<c, x>>
      PROVE  Grows(events \o Append(raw, c), Stream', x)
  BY <1>1, <1>2, <1>4, GrowsRight DEF Stream
<1>5. Len(events \o Append(raw, c)) \in Nat
  BY <1>1, <1>2, ConcatProperties, LenProperties
<1> QED BY <1>3, <1>4, <1>5

LEMMA SoundGrows ==
  ASSUME NEW s, NEW t, NEW x, Len(s) \in Nat, Grows(s, t, x), NEW k, NEW pend, NEW voi,
         Sound(s, k, pend, voi),
         x.epoch = k /\ Speaks(x) => Excused(s, Len(s) + 1, ConfirmTicks, k, pend, voi)
  PROVE  Sound(t, k, pend, voi)
<1> SUFFICES ASSUME NEW p \in 1..Len(t), t[p].epoch = k /\ Speaks(t[p])
             PROVE  Excused(t, p, ConfirmTicks, k, pend, voi)
  BY DEF Sound
<1>1. Len(t) = Len(s) + 1 /\ ConfirmTicks \in Nat BY DEF Grows
<1>2. \A r \in 1..(p - 1) : Alike(s[r], t[r])
  BY <1>1 DEF Grows, Alike
<1>3. Excused(s, p, ConfirmTicks, k, pend, voi)
  <2>1. CASE p = Len(s) + 1 BY <2>1 DEF Grows
  <2>2. CASE p \in 1..Len(s) BY <2>2 DEF Grows, Sound
  <2> QED BY <1>1, <2>1, <2>2
<1>4. p \in Nat BY <1>1
<1>5. ConfirmTicks \in Nat BY <1>1
<1> QED BY ONLY <1>2, <1>3, <1>4, <1>5, SameFront

-----------------------------------------------------------------------------
(* The capture thread announces what it sends.                             *)

LEMMA ElapsedIsNat == ASSUME Turn PROVE pending.elapsed \in Nat
BY DEF Turn

Verdicts(voice, rest) ==
  {Event("Tick", voice, FALSE, ring), Event("SpeechOnset", 1, FALSE, ring),
   SegmentOf(rest, FALSE)}

\* The endpointer's verdict on a frame, sent behind t: after n frames of silence if
\* there is no speech, of which rest holds as many, and this one.
LEMMA EndpointAnnounces ==
  ASSUME Turn, NEW voice \in {0, 1}, NEW rest, NEW cuts, Endpoint(voice, rest, cuts),
         NEW t, Len(t) \in Nat, NEW n \in Nat, rest.len \in Nat, rest.len <= n + 1,
         Sound(t, epoch, pending, voiced),
         active = epoch => MaySend(t, n),
         NEW u,
         \A x \in Verdicts(voice, rest) : Sends(Append(cuts, x)) => Grows(t, u, x)
  PROVE  /\ Sound(u, epoch, pending, voiced)
         /\ active = epoch =>
              /\ inSpeech' => Aware(u, Len(u) + 1, epoch, pending, voiced)
              /\ ~inSpeech' => Excused(u, Len(u) + 1, segment'.len, epoch, pending, voiced)
<1> DEFINE tick == Event("Tick", voice, FALSE, ring)
           onset == Event("SpeechOnset", 1, FALSE, ring)
           seg == SegmentOf(rest, FALSE)
<1>1. /\ tick.kind = "Tick" /\ tick.epoch = active /\ tick.voiced = voice
      /\ onset.kind = "SpeechOnset" /\ onset.epoch = active
      /\ seg.kind = "Segment" /\ seg.epoch = active
  BY DEF Event, SegmentOf
<1>2. \A x \in {tick, onset, seg} : Sends(Append(cuts, x)) => Grows(t, u, x)
  BY DEF Verdicts
<1> HIDE DEF tick, onset, seg
<1>3. ASSUME NEW x, Grows(t, u, x) PROVE Len(u) = Len(t) + 1 /\ Len(u) + 1 = Len(t) + 2
  BY <1>3 DEF Grows
<1>4. active = epoch /\ inSpeech => Aware(t, Len(t) + 1, epoch, pending, voiced)
  BY DEF MaySend
<1>5. active = epoch /\ inSpeech
        => \A m \in Nat : Excused(t, Len(t) + 1, m, epoch, pending, voiced)
  BY <1>4 DEF Excused
<1>6. active = epoch /\ ~inSpeech => Excused(t, Len(t) + 1, n, epoch, pending, voiced)
  BY DEF MaySend
<1>7. pending.elapsed \in Nat /\ ConfirmTicks \in Nat BY ElapsedIsNat
<1>8. CASE /\ ~inSpeech /\ voice = 1 /\ inSpeech' = TRUE
           /\ Sends(Append(cuts, onset))
  <2>1. Grows(t, u, onset) BY <1>2, <1>8
  <2>2. ~Speaks(onset) /\ Opens(onset) BY <1>1 DEF Speaks, Opens
  <2>3. Sound(u, epoch, pending, voiced) BY <2>1, <2>2, SoundGrows
  <2>4. active = epoch => Aware(u, Len(u) + 1, epoch, pending, voiced)
    BY <1>1, <1>3, <2>1, <2>2, OpenerAdds
  <2> QED BY <1>8, <2>3, <2>4 DEF MaySend
<1>9. CASE /\ ~inSpeech /\ voice = 0 /\ segment' = rest /\ inSpeech' = inSpeech
           /\ Sends(Append(cuts, tick))
  <2>1. Grows(t, u, tick) BY <1>2, <1>9
  <2>2. ~Speaks(tick) BY <1>1, <1>9 DEF Speaks
  <2>3. Sound(u, epoch, pending, voiced) BY <2>1, <2>2, SoundGrows
  <2>4. active = epoch => Excused(u, Len(t) + 2, n + 1, epoch, pending, voiced)
    BY <1>1, <1>6, <1>7, <1>9, <2>1, TickAdds
  <2>5. active = epoch => Excused(u, Len(t) + 2, rest.len, epoch, pending, voiced)
    BY <1>7, <2>4, FewerTicks
  <2>6. active = epoch => Excused(u, Len(u) + 1, rest.len, epoch, pending, voiced)
    BY <1>3, <2>1, <2>5
  <2> QED BY <1>9, <2>3, <2>6 DEF MaySend
<1>10. CASE inSpeech /\ inSpeech' = inSpeech /\ Sends(Append(cuts, tick))
  <2>1. Grows(t, u, tick) BY <1>2, <1>10
  <2>2. Sound(u, epoch, pending, voiced)
    BY <1>1, <1>5, <1>7, <1>10, <2>1, SoundGrows
  <2>3. active = epoch => Aware(u, Len(t) + 2, epoch, pending, voiced)
    BY <1>1, <1>4, <1>7, <1>10, <2>1, TickAdds
  <2>4. active = epoch => Aware(u, Len(u) + 1, epoch, pending, voiced)
    BY <1>3, <2>1, <2>3
  <2> QED BY <1>10, <2>2, <2>4 DEF MaySend
<1>11. CASE /\ inSpeech /\ inSpeech' = FALSE /\ segment' = NoSegment
            /\ Sends(Append(cuts, seg))
  <2>1. Grows(t, u, seg) BY <1>2, <1>11
  <2>2. Sound(u, epoch, pending, voiced)
    BY <1>1, <1>5, <1>7, <1>11, <2>1, SoundGrows
  <2>3. Excused(u, Len(u) + 1, 0, epoch, pending, voiced)
    <3>1. Len(u) + 1 \in Nat \ {0} BY <1>3, <2>1
    <3> QED BY <3>1, NoTicks
  <2>4. segment'.len = 0 BY <1>11, NoSegmentType
  <2> QED BY <1>11, <2>2, <2>3, <2>4 DEF MaySend
<1> QED BY <1>8, <1>9, <1>10, <1>11 DEF Endpoint, tick, onset, seg

\* A frame: without a cut the utterance grows by it, with one the cut opens speech.
LEMMA FrameAnnounces ==
  ASSUME TurnInv, NEW voice \in {0, 1}, CaptureFrame(voice)
  PROVE  Announced'
<1> SUFFICES ASSUME Live
             PROVE  /\ Sound(Stream', epoch, pending, voiced)
                    /\ active = epoch =>
                         /\ inSpeech' => Aware(Stream', Len(Stream') + 1, epoch, pending, voiced)
                         /\ ~inSpeech' => Excused(Stream', Len(Stream') + 1, segment'.len, epoch, pending, voiced)
  <2>1. UNCHANGED <<enabled, epoch, active, epc, pending, voiced>>
    BY DEF CaptureFrame, gateVars, engineVars, turnHistory
  <2> QED BY <2>1 DEF Announced, Live, MaySend
<1>1. /\ Inv /\ Turn /\ cpc = "drain" /\ mic /\ UNCHANGED events
      /\ Sound(Stream, epoch, pending, voiced)
      /\ active = epoch =>
           MaySend(Stream, segment.len)
  BY DEF TurnInv, Announced, CaptureFrame, Inv, Captured
<1>2. Now \in Nat /\ ring \in Nat /\ segment \in [voiced : Nat, len : Nat, from : Nat]
      /\ (Live /\ active = epoch => ring = Now /\ (segment.len # 0 => segment.from = Now))
  BY <1>1, NowIsNat DEF Inv, Captured
<1>3. /\ Grown(voice) \in [voiced : Nat, len : Nat, from : Nat]
      /\ Live /\ active = epoch => Grown(voice).from = Now
      /\ Grown(voice).len = segment.len + 1 /\ segment.len \in Nat
  BY <1>2 DEF Grown, Both
<1>4. /\ SegmentOf(Grown(voice), TRUE) \in Known
      /\ SegmentOf(Grown(voice), FALSE) \in Known /\ SegmentOf(NoSegment, FALSE) \in Known
      /\ Event("Tick", voice, FALSE, ring) \in Known
      /\ Event("SpeechOnset", 1, FALSE, ring) \in Known
  BY <1>1, <1>2, <1>3, NoSegmentType, EventKnown DEF SegmentOf
<1>5. Len(Stream) \in Nat BY <1>1, StreamType
<1>6. CASE ~(Grown(voice).len > MaxSegment) /\ Endpoint(voice, Grown(voice), <<>>)
  <2>1. ASSUME NEW x \in Known, Sends(Append(<<>>, x)) PROVE Grows(Stream, Stream', x)
    <3>1. raw' = raw \o <<x>> BY <2>1 DEF Sends
    <3> QED BY <1>1, <2>1, <3>1, OneSent
  <2>2. Grown(voice).len \in Nat /\ Grown(voice).len <= segment.len + 1 /\ segment.len \in Nat
    BY <1>3
  <2>3. \A x \in Verdicts(voice, Grown(voice)) :
          Sends(Append(<<>>, x)) => Grows(Stream, Stream', x)
    BY <1>4, <2>1 DEF Verdicts
  <2> QED BY <1>1, <1>5, <1>6, <2>2, <2>3, EndpointAnnounces
<1>7. CASE /\ Grown(voice).len > MaxSegment
           /\ Endpoint(voice, NoSegment, <<SegmentOf(Grown(voice), TRUE)>>)
  <2> DEFINE c == SegmentOf(Grown(voice), TRUE)
  <2>1. c \in Known /\ c.kind = "Segment" /\ c.cut = TRUE /\ c.epoch = active
    BY <1>4 DEF SegmentOf, Event
  <2> HIDE DEF c
  <2>3. ASSUME NEW x \in Known, Sends(Append(<<c>>, x)) PROVE raw' = raw \o <<c, x>>
    BY <2>1, <2>3 DEF Sends
  <2> DEFINE t == events \o Append(raw, c)
  <2>5. /\ Len(t) \in Nat /\ Grows(Stream, t, c)
        /\ \A x \in Known : raw' = raw \o <<c, x>> => Grows(t, Stream', x)
    BY <1>1, <2>1, TwoSent
  <2> HIDE DEF t
  <2>7. active = epoch => Excused(Stream, Len(Stream) + 1, ConfirmTicks, epoch, pending, voiced)
    <3> SUFFICES ASSUME active = epoch
                 PROVE  Excused(Stream, Len(Stream) + 1, ConfirmTicks, epoch, pending, voiced)
      OBVIOUS
    <3>1. CASE inSpeech BY <1>1, <3>1 DEF MaySend, Excused
    <3>2. CASE ~inSpeech
      <4>1. ConfirmTicks <= segment.len
        BY <1>3, <1>7, CutAssumption
      <4>2. Excused(Stream, Len(Stream) + 1, segment.len, epoch, pending, voiced)
        BY <1>1, <3>2 DEF MaySend
      <4>3. ConfirmTicks \in Nat /\ pending.elapsed \in Nat BY <1>1, ElapsedIsNat
      <4>4. segment.len \in Nat /\ Len(Stream) + 1 \in Nat BY <1>3, <1>5
      <4> QED BY <4>1, <4>2, <4>3, <4>4, FewerTicks
    <3> QED BY <3>1, <3>2
  <2>8. Sound(t, epoch, pending, voiced) BY <1>1, <1>5, <2>1, <2>5, <2>7, SoundGrows
  <2>9. active = epoch => Aware(t, Len(t) + 1, epoch, pending, voiced)
    <3>1. Opens(c) BY <2>1 DEF Opens
    <3>2. Len(t) + 1 = Len(Stream) + 2 BY <1>5, <2>5 DEF Grows
    <3> QED BY <1>5, <2>1, <2>5, <3>1, <3>2, OpenerAdds
  <2>10. active = epoch => MaySend(t, 0)
    BY <2>9 DEF MaySend, Excused
  <2>11. \A y \in Verdicts(voice, NoSegment) :
           Sends(Append(<<c>>, y)) => Grows(t, Stream', y)
    BY <1>4, <2>3, <2>5 DEF Verdicts
  <2>12. NoSegment.len \in Nat /\ NoSegment.len <= 0 + 1 BY NoSegmentType
  <2>13. Endpoint(voice, NoSegment, <<c>>) BY <1>7 DEF c
  <2> QED BY <1>1, <2>5, <2>8, <2>10, <2>11, <2>12, <2>13, EndpointAnnounces
<1> QED BY <1>6, <1>7 DEF CaptureFrame
\* Nothing of the stream, of the turn or of the capture thread changes.
LEMMA StillAnnounced ==
  ASSUME Announced,
         UNCHANGED <<enabled, epoch, epc, raw, events, active, inSpeech, segment,
                     pending, voiced>>
  PROVE  Announced'
BY DEF Announced, Live, Stream, MaySend

LEMMA CaptureAnnounces == ASSUME TurnInv, Capture PROVE Announced'
<1>1. CASE CaptureCloses
  <2> SUFFICES ASSUME Live
               PROVE  /\ Sound(Stream, epoch, pending, voiced)
                      /\ Excused(Stream, Len(Stream) + 1, segment'.len, epoch, pending, voiced)
    <3>1. /\ UNCHANGED <<enabled, epoch, epc, raw, events, pending, voiced>>
          /\ inSpeech' = FALSE
      BY <1>1 DEF CaptureCloses, captureKeeps, gateVars, engineVars, turnHistory
    <3> QED BY <3>1 DEF Announced, Live, Stream, MaySend
  <2>1. Len(Stream) + 1 \in Nat \ {0} BY StreamType DEF TurnInv
  <2>2. segment'.len = 0 BY <1>1, NoSegmentType DEF CaptureCloses
  <2> QED BY <2>1, <2>2, NoTicks DEF TurnInv, Announced
<1>2. CASE CaptureOpens
  BY <1>2, StillAnnounced
     DEF CaptureOpens, captureKeeps, gateVars, engineVars, turnHistory, endpointVars, TurnInv
<1>3. CASE CaptureNoSamples
  <2> DEFINE x == Event("Tick", 0, FALSE, ring)
  <2>1. /\ UNCHANGED <<enabled, epoch, epc, events, pending, voiced, active, inSpeech, segment>>
        /\ cpc = "drain" /\ raw' = raw \o <<x>>
    BY <1>3 DEF CaptureNoSamples, Sends, captureKeeps, gateVars, engineVars,
                turnHistory, endpointVars
  <2>2. x \in Known BY <2>1, EventKnown DEF TurnInv, Inv, Captured
  <2>3. x.kind = "Tick" /\ x.epoch = active /\ ~Speaks(x) BY DEF Event, Speaks
  <2> HIDE DEF x
  <2>4. Grows(Stream, Stream', x) BY <2>1, <2>2, OneSent DEF TurnInv
  <2>5. Len(Stream) \in Nat BY StreamType DEF TurnInv
  <2> SUFFICES ASSUME Live
               PROVE  /\ Sound(Stream', epoch, pending, voiced)
                      /\ active = epoch /\ inSpeech
                           => Aware(Stream', Len(Stream') + 1, epoch, pending, voiced)
                      /\ active = epoch /\ ~inSpeech
                           => Excused(Stream', Len(Stream') + 1, segment.len, epoch, pending, voiced)
    BY <2>1 DEF Announced, Live, MaySend
  <2>6. /\ Sound(Stream, epoch, pending, voiced)
        /\ active = epoch => MaySend(Stream, segment.len)
    BY DEF TurnInv, Announced
  <2>7. Sound(Stream', epoch, pending, voiced)
    BY <2>3, <2>4, <2>5, <2>6, SoundGrows
  <2>8. segment.len \in Nat /\ pending.elapsed \in Nat
    BY ElapsedIsNat DEF TurnInv, Inv, Captured
  <2>9. Len(Stream') + 1 = Len(Stream) + 2 BY <2>4, <2>5 DEF Grows
  <2>10. active = epoch /\ inSpeech => Aware(Stream', Len(Stream) + 2, epoch, pending, voiced)
    BY <2>3, <2>4, <2>5, <2>6, <2>8, TickAdds DEF MaySend
  <2>11. active = epoch /\ ~inSpeech
           => Excused(Stream', Len(Stream) + 2, segment.len + 1, epoch, pending, voiced)
    BY <2>3, <2>4, <2>5, <2>6, <2>8, TickAdds DEF MaySend
  <2>12. active = epoch /\ ~inSpeech
           => Excused(Stream', Len(Stream) + 2, segment.len, epoch, pending, voiced)
    <3>1. Len(Stream) + 2 \in Nat /\ segment.len + 1 \in Nat /\ segment.len <= segment.len + 1
      BY <2>5, <2>8
    <3> QED BY <2>8, <2>11, <3>1, FewerTicks
  <2> QED BY <2>7, <2>9, <2>10, <2>12
<1>4. CASE \E voice \in {0, 1} : CaptureFrame(voice) BY <1>4, FrameAnnounces
<1> QED BY <1>1, <1>2, <1>3, <1>4 DEF Capture, CaptureDrains

-----------------------------------------------------------------------------
(* The inference thread moves items on, and drops stale ones.              *)

LEMMA ConcatAt ==
  ASSUME NEW S, NEW e \in Seq(S), NEW f \in Seq(S)
  PROVE  /\ Len(e) \in Nat /\ Len(f) \in Nat /\ Len(e \o f) = Len(e) + Len(f)
         /\ \A i \in 1..Len(e) : (e \o f)[i] = e[i]
         /\ \A i \in 1..Len(f) : (e \o f)[Len(e) + i] = f[i]
BY ConcatProperties, LenProperties

\* A stream like it is as sound.
LEMMA SoundAlike ==
  ASSUME NEW s, NEW t, Len(s) \in Nat, Len(t) = Len(s),
         \A i \in 1..Len(s) : Alike(s[i], t[i]),
         NEW k, NEW pend, NEW voi, Sound(s, k, pend, voi)
  PROVE  Sound(t, k, pend, voi)
<1> SUFFICES ASSUME NEW p \in 1..Len(t), t[p].epoch = k /\ Speaks(t[p])
             PROVE  Excused(t, p, ConfirmTicks, k, pend, voi)
  BY DEF Sound
<1>1. s[p].epoch = k /\ Speaks(s[p]) BY DEF Alike, Speaks
<1>2. Excused(s, p, ConfirmTicks, k, pend, voi) BY <1>1 DEF Sound
<1>3. p \in Nat /\ ConfirmTicks \in Nat /\ \A r \in 1..(p - 1) : Alike(s[r], t[r])
  OBVIOUS
<1> QED BY <1>2, <1>3, SameFront

LEMMA InferMovesOn ==
  ASSUME TurnInv, raw # <<>>, NEW h \in Known, Alike(Head(raw), h),
         events' = Append(events, h), raw' = Tail(raw),
         UNCHANGED <<enabled, epoch, epc, active, inSpeech, segment, pending, voiced>>
  PROVE  Announced'
<1>1. raw \in Seq(Known) /\ events \in Seq(Known) BY DEF TurnInv, Inv, Channels
<1>2. /\ Len(events) \in Nat /\ Len(raw) \in Nat \ {0}
      /\ Append(events, h) \in Seq(Known) /\ Tail(raw) \in Seq(Known)
      /\ Len(Append(events, h)) = Len(events) + 1 /\ Len(Tail(raw)) = Len(raw) - 1
      /\ \A i \in 1..Len(Tail(raw)) : Tail(raw)[i] = raw[i + 1]
      /\ \A i \in 1..Len(events) : Append(events, h)[i] = events[i]
      /\ Append(events, h)[Len(events) + 1] = h /\ Head(raw) = raw[1]
  BY <1>1, EmptySeq, LenProperties, HeadTailProperties, AppendProperties
<1> DEFINE a == Append(events, h)
           b == Tail(raw)
<1>3. Stream' = a \o b /\ a \in Seq(Known) /\ b \in Seq(Known)
      /\ Len(a) = Len(events) + 1 /\ Len(b) = Len(raw) - 1
      /\ (\A i \in 1..Len(b) : b[i] = raw[i + 1])
      /\ (\A i \in 1..Len(events) : a[i] = events[i]) /\ a[Len(events) + 1] = h
  BY <1>2 DEF Stream
<1> HIDE DEF a, b
<1>4. /\ Len(Stream) = Len(events) + Len(raw) /\ Len(Stream') = Len(Stream)
      /\ \A i \in 1..Len(events) : Stream[i] = events[i]
      /\ \A i \in 1..Len(raw) : Stream[Len(events) + i] = raw[i]
      /\ \A i \in 1..Len(a) : Stream'[i] = a[i]
      /\ \A i \in 1..Len(b) : Stream'[Len(a) + i] = b[i]
  <2>1. /\ Len(events \o raw) = Len(events) + Len(raw)
        /\ \A i \in 1..Len(events) : (events \o raw)[i] = events[i]
        /\ \A i \in 1..Len(raw) : (events \o raw)[Len(events) + i] = raw[i]
    BY <1>1, ConcatAt
  <2>2. /\ Len(a \o b) = Len(a) + Len(b)
        /\ \A i \in 1..Len(a) : (a \o b)[i] = a[i]
        /\ \A i \in 1..Len(b) : (a \o b)[Len(a) + i] = b[i]
    <3>1. a \in Seq(Known) /\ b \in Seq(Known) BY <1>3
    <3> QED BY ONLY <3>1, ConcatAt
  <2>3. Len(a \o b) = Len(events \o raw) BY <1>2, <1>3, <2>1, <2>2
  <2> QED BY <1>3, <2>1, <2>2, <2>3 DEF Stream
<1>5. ASSUME NEW i \in 1..Len(Stream) PROVE Alike(Stream[i], Stream'[i])
  <2>1. CASE i <= Len(events)
    <3>1. Stream[i] = Stream'[i] BY <1>2, <1>3, <1>4, <2>1
    <3> QED BY <3>1 DEF Alike
  <2>2. CASE i = Len(events) + 1
    <3>1. Stream[i] = Head(raw) BY <1>2, <1>4, <2>2
    <3>2. Stream'[i] = h BY <1>2, <1>3, <1>4, <2>2
    <3> QED BY <3>1, <3>2
  <2>3. CASE i > Len(events) + 1
    <3> DEFINE j == i - (Len(events) + 1)
    <3>1. j \in 1..Len(b) /\ j + 1 \in 1..Len(raw) /\ Len(a) + j = i
          /\ Len(events) + (j + 1) = i
      BY <1>2, <1>3, <1>4, <2>3
    <3> HIDE DEF j
    <3>2. Stream'[i] = b[j] /\ Stream[i] = raw[j + 1] BY <1>4, <3>1
    <3>3. Stream'[i] = Stream[i] BY <1>3, <3>1, <3>2
    <3> QED BY <3>3 DEF Alike
  <2> QED BY <1>2, <2>1, <2>2, <2>3
<1> SUFFICES ASSUME Live
             PROVE  /\ Sound(Stream', epoch, pending, voiced)
                    /\ active = epoch /\ inSpeech
                         => Aware(Stream', Len(Stream) + 1, epoch, pending, voiced)
                    /\ active = epoch /\ ~inSpeech
                         => Excused(Stream', Len(Stream) + 1, segment.len, epoch, pending, voiced)
  BY <1>4 DEF Announced, Live, MaySend
<1>6. /\ Sound(Stream, epoch, pending, voiced)
      /\ active = epoch => MaySend(Stream, segment.len)
  BY DEF TurnInv, Announced
<1>7. Len(Stream) \in Nat /\ Len(Stream) + 1 \in Nat /\ segment.len \in Nat
      /\ \A r \in 1..((Len(Stream) + 1) - 1) : Alike(Stream[r], Stream'[r])
  BY <1>2, <1>4, <1>5 DEF TurnInv, Inv, Captured
<1>8. Sound(Stream', epoch, pending, voiced) BY <1>4, <1>5, <1>6, <1>7, SoundAlike
<1>9. /\ Aware(Stream, Len(Stream) + 1, epoch, pending, voiced)
           => Aware(Stream', Len(Stream) + 1, epoch, pending, voiced)
      /\ Excused(Stream, Len(Stream) + 1, segment.len, epoch, pending, voiced)
           => Excused(Stream', Len(Stream) + 1, segment.len, epoch, pending, voiced)
  BY <1>7, SameFront
<1> QED BY <1>6, <1>8, <1>9 DEF MaySend
LEMMA InferDrops ==
  ASSUME TurnInv, raw # <<>>, Head(raw).epoch # epoch, raw' = Tail(raw),
         UNCHANGED <<events, enabled, epoch, epc, active, inSpeech, segment, pending,
                     voiced>>
  PROVE  Announced'
<1> DEFINE b == Tail(raw)
           m == Len(events) + 1
<1>1. raw \in Seq(Known) /\ events \in Seq(Known) BY DEF TurnInv, Inv, Channels
<1>2. /\ Len(events) \in Nat /\ Len(raw) \in Nat \ {0} /\ Head(raw) = raw[1]
      /\ b \in Seq(Known) /\ Len(b) = Len(raw) - 1
      /\ \A i \in 1..Len(b) : b[i] = raw[i + 1]
  BY <1>1, EmptySeq, LenProperties, HeadTailProperties
<1>3. Stream' = events \o b BY DEF Stream
<1> HIDE DEF b
<1>4. /\ Len(Stream) = Len(events) + Len(raw)
      /\ \A i \in 1..Len(events) : Stream[i] = events[i]
      /\ \A i \in 1..Len(raw) : Stream[Len(events) + i] = raw[i]
  BY <1>1, ConcatAt DEF Stream
<1>5. /\ Len(Stream') = Len(events) + Len(b)
      /\ \A i \in 1..Len(events) : Stream'[i] = events[i]
      /\ \A i \in 1..Len(b) : Stream'[Len(events) + i] = b[i]
  BY <1>1, <1>2, <1>3, ConcatAt
<1>6. /\ m \in 1..Len(Stream) /\ Len(Stream) \in Nat /\ Len(Stream') = Len(Stream) - 1
      /\ Stream[m].epoch # epoch
      /\ \A i \in 1..(m - 1) : Stream'[i] = Stream[i]
  <2>1. /\ m \in 1..Len(Stream) /\ Len(Stream) \in Nat /\ Len(Stream') = Len(Stream) - 1
    BY <1>2, <1>4, <1>5
  <2>2. Stream[m] = Head(raw)
    <3>1. 1 \in 1..Len(raw) BY <1>2
    <3> QED BY <1>2, <1>4, <3>1
  <2>3. \A i \in 1..(m - 1) : Stream'[i] = Stream[i]
    <3>1. 1..(m - 1) = 1..Len(events) BY <1>2
    <3> QED BY <1>4, <1>5, <3>1
  <2> QED BY <2>1, <2>2, <2>3
<1>7. \A i \in m..Len(Stream') : Stream'[i] = Stream[i + 1]
  <2> TAKE i \in m..Len(Stream')
  <2> DEFINE j == i - Len(events)
  <2>1. /\ j \in 1..Len(b) /\ j + 1 \in 1..Len(raw) /\ Len(events) + j = i
        /\ Len(events) + (j + 1) = i + 1
    BY <1>2, <1>5
  <2> HIDE DEF j
  <2>2. Stream'[i] = b[j] /\ b[j] = raw[j + 1] BY <1>2, <1>5, <2>1
  <2>3. Stream[i + 1] = raw[j + 1] BY <1>4, <2>1
  <2> QED BY <2>2, <2>3
<1> HIDE DEF m
<1>8. ASSUME NEW p \in 1..(Len(Stream) + 1), NEW n \in Nat, p # m
      PROVE  /\ p < m /\ Excused(Stream, p, n, epoch, pending, voiced)
                  => Excused(Stream', p, n, epoch, pending, voiced)
             /\ p > m /\ Aware(Stream, p, epoch, pending, voiced)
                  => Aware(Stream', p - 1, epoch, pending, voiced)
             /\ p > m /\ Excused(Stream, p, n, epoch, pending, voiced)
                  => Excused(Stream', p - 1, n, epoch, pending, voiced)
  BY <1>6, <1>7, <1>8, StaleGoes
<1> SUFFICES ASSUME Live
             PROVE  /\ Sound(Stream', epoch, pending, voiced)
                    /\ active = epoch /\ inSpeech
                         => Aware(Stream', Len(Stream), epoch, pending, voiced)
                    /\ active = epoch /\ ~inSpeech
                         => Excused(Stream', Len(Stream), segment.len, epoch, pending, voiced)
  <2>1. Len(Stream') + 1 = Len(Stream) BY <1>6
  <2> QED BY <2>1 DEF Announced, Live, MaySend
<1>9. /\ Sound(Stream, epoch, pending, voiced)
      /\ active = epoch => MaySend(Stream, segment.len)
  BY DEF TurnInv, Announced
<1>10. Sound(Stream', epoch, pending, voiced)
  <2> SUFFICES ASSUME NEW o \in 1..Len(Stream'), Stream'[o].epoch = epoch, Speaks(Stream'[o])
               PROVE  Excused(Stream', o, ConfirmTicks, epoch, pending, voiced)
    BY DEF Sound
  <2> DEFINE p == IF o >= m THEN o + 1 ELSE o
  <2>1. /\ p \in 1..Len(Stream) /\ Stream[p] = Stream'[o]
        /\ (p < m /\ o = p) \/ (p > m /\ o = p - 1)
    BY <1>6, <1>7
  <2> HIDE DEF p
  <2>2. Excused(Stream, p, ConfirmTicks, epoch, pending, voiced) BY <1>9, <2>1 DEF Sound
  <2>3. p \in 1..(Len(Stream) + 1) /\ p # m /\ ConfirmTicks \in Nat BY <1>6, <2>1
  <2>4. CASE p < m /\ o = p BY <1>8, <2>2, <2>3, <2>4
  <2>5. CASE p > m /\ o = p - 1 BY <1>8, <2>2, <2>3, <2>5
  <2> QED BY <2>1, <2>4, <2>5
<1>11. /\ Aware(Stream, Len(Stream) + 1, epoch, pending, voiced)
            => Aware(Stream', Len(Stream), epoch, pending, voiced)
       /\ Excused(Stream, Len(Stream) + 1, segment.len, epoch, pending, voiced)
            => Excused(Stream', Len(Stream), segment.len, epoch, pending, voiced)
  <2>1. /\ Len(Stream) + 1 \in 1..(Len(Stream) + 1) /\ Len(Stream) + 1 # m
        /\ Len(Stream) + 1 > m /\ (Len(Stream) + 1) - 1 = Len(Stream)
    BY <1>6
  <2>2. segment.len \in Nat BY DEF TurnInv, Inv, Captured
  <2> QED BY <1>8, <2>1, <2>2
<1>12. /\ active = epoch /\ inSpeech => Aware(Stream, Len(Stream) + 1, epoch, pending, voiced)
       /\ active = epoch /\ ~inSpeech
            => Excused(Stream, Len(Stream) + 1, segment.len, epoch, pending, voiced)
  BY <1>9 DEF MaySend
<1> QED BY <1>10, <1>11, <1>12

\* What the recogniser makes of a segment is alike.
LEMMA Transcribed ==
  ASSUME Inv, InferTranscribes
  PROVE  \E h \in Known : /\ raw # <<>> /\ Alike(Head(raw), h)
                          /\ events' = Append(events, h) /\ raw' = Tail(raw)
<1>1. raw # <<>> /\ Head(raw) \in Known
  BY HeadTailProperties DEF InferTranscribes, Inv, Channels
<1>2. PICK text \in BoundedSeq(Words, Head(raw).voiced) :
        events' = Append(events, [Head(raw) EXCEPT !.text = text])
  BY DEF InferTranscribes
<1>3. text \in Seq(Words)
  <2>1. PICK n \in 0..Head(raw).voiced : text \in [1..n -> Words]
    BY <1>2 DEF BoundedSeq, SeqOf
  <2>2. n \in Nat BY <1>1 DEF Known, Item
  <2> QED BY <2>1, <2>2
<1> DEFINE h == [Head(raw) EXCEPT !.text = text]
<1>4. h \in Known /\ Alike(Head(raw), h) BY <1>1, <1>3 DEF Known, Item, Alike
<1> QED BY <1>1, <1>2, <1>4 DEF InferTranscribes

LEMMA InferAnnounces == ASSUME TurnInv, Infer PROVE Announced'
<1>1. /\ UNCHANGED <<enabled, epoch, epc, active, inSpeech, segment, pending, voiced>>
      /\ raw # <<>> /\ Inv
  BY DEF Infer, InferForwards, InferSkipsStale, InferPasses, InferTakesSegment, InferTranscribes,
         inferKeeps, gateVars, captureVars, engineVars, turnHistory, TurnInv, Inv
<1>2. CASE InferSkipsStale BY <1>1, <1>2, InferDrops DEF InferSkipsStale
<1>3. CASE InferPasses
  <2>1. Head(raw) \in Known /\ Alike(Head(raw), Head(raw))
    BY <1>1, HeadTailProperties DEF Inv, Channels, Alike
  <2> QED BY <1>1, <1>3, <2>1, InferMovesOn DEF InferPasses
<1>4. CASE InferTakesSegment
  BY <1>1, <1>4, StillAnnounced DEF InferTakesSegment, TurnInv
<1>5. CASE InferTranscribes BY <1>1, <1>5, Transcribed, InferMovesOn
<1> QED BY <1>2, <1>3, <1>4, <1>5 DEF Infer, InferForwards
-----------------------------------------------------------------------------
(* The turn takes what comes, and every word of it.                        *)

LEMMA HeadOfStream ==
  ASSUME Inv, events # <<>>
  PROVE  /\ Len(events) \in Nat \ {0} /\ Head(events) \in Known
         /\ Stream[1] = Head(events) /\ Len(Stream) \in Nat \ {0}
<1>1. events \in Seq(Known) /\ raw \in Seq(Known) BY DEF Inv, Channels
<1>2. Len(events) \in Nat \ {0} /\ Head(events) \in Known /\ Head(events) = events[1]
  BY <1>1, EmptySeq, LenProperties, HeadTailProperties
<1>3. Len(Stream) = Len(events) + Len(raw) /\ Len(raw) \in Nat
      /\ \A i \in 1..Len(events) : Stream[i] = events[i]
  BY <1>1, ConcatAt DEF Stream
<1> QED BY <1>2, <1>3

\* What the turn takes is announced: no utterance, and no voice, meets a stop word
\* it does not know to be talked over.
LEMMA HeadIsAnnounced ==
  ASSUME TurnInv, Live, events # <<>>, Head(events).epoch = epoch, Speaks(Head(events))
  PROVE  Loose(pending, voiced)
<1>1. Excused(Stream, 1, ConfirmTicks, epoch, pending, voiced)
  BY HeadOfStream DEF TurnInv, Announced, Sound
<1>2. pending.elapsed \in Nat /\ pending.elapsed < ConfirmTicks /\ ConfirmTicks \in Nat \ {0}
  BY DEF TurnInv, Turn
<1>3. ~(pending.elapsed + (1 - 1) >= ConfirmTicks) /\ ~(1 - 1 >= ConfirmTicks)
      /\ \A j \in 1..1 : j = 1
  BY <1>2
<1>4. ~Opened(Stream, 1, epoch) BY DEF Opened
<1> QED BY <1>1, <1>3, <1>4 DEF Excused, Aware

\* A text is what is in front of its last word, and that.
LEMMA FrontAndLast ==
  ASSUME NEW S, NEW text \in Seq(S), text # <<>>
  PROVE  /\ Front(text) \in Seq(S) /\ Last(text) \in S
         /\ text = Append(Front(text), Last(text))
         /\ \A b \in Seq(S) : b \o text = Append(b \o Front(text), Last(text))
<1>1. Len(text) \in Nat \ {0} BY EmptySeq, LenProperties
<1>2. Last(text) \in S BY <1>1, ElementOfSeq DEF Last
<1>3. /\ Front(text) \in Seq(S) /\ Len(Front(text)) = Len(text) - 1
      /\ \A i \in 1..(Len(text) - 1) : Front(text)[i] = text[i]
  <2>1. /\ \A i \in 1..(Len(text) - 1) : text[i] \in S
        /\ 1 \in Int /\ Len(text) - 1 \in Int
    BY <1>1, ElementOfSeq
  <2>2. /\ SubSeq(text, 1, Len(text) - 1) \in Seq(S)
        /\ Len(SubSeq(text, 1, Len(text) - 1))
             = IF 1 <= Len(text) - 1 THEN (Len(text) - 1) - 1 + 1 ELSE 0
        /\ \A i \in 1..((Len(text) - 1) - 1 + 1) :
             SubSeq(text, 1, Len(text) - 1)[i] = text[1 + i - 1]
    BY ONLY <2>1, SubSeqProperties
  <2>3. ASSUME NEW n \in Nat \ {0}
        PROVE  /\ (n - 1) - 1 + 1 = n - 1
               /\ (IF 1 <= n - 1 THEN (n - 1) - 1 + 1 ELSE 0) = n - 1
               /\ \A i \in 1..(n - 1) : 1 + i - 1 = i
    OBVIOUS
  <2> QED BY <1>1, <2>2, <2>3 DEF Front
<1> DEFINE f == Front(text)
           l == Last(text)
<1>4. f \in Seq(S) /\ l \in S /\ l = text[Len(text)] /\ Len(f) = Len(text) - 1
      /\ \A i \in 1..(Len(text) - 1) : f[i] = text[i]
  BY <1>2, <1>3 DEF Last
<1> HIDE DEF f, l
<1>5. text = Append(f, l)
  <2>1. /\ Append(f, l) \in Seq(S) /\ Len(Append(f, l)) = Len(text)
        /\ \A i \in 1..(Len(text) - 1) : Append(f, l)[i] = f[i]
        /\ Append(f, l)[Len(text)] = l
    BY <1>1, <1>4, AppendProperties
  <2>2. \A i \in 1..Len(text) : text[i] = Append(f, l)[i]
    <3> TAKE i \in 1..Len(text)
    <3>1. CASE i = Len(text) BY <1>4, <2>1, <3>1
    <3>2. CASE i \in 1..(Len(text) - 1) BY <1>4, <2>1, <3>2
    <3>3. i = Len(text) \/ i \in 1..(Len(text) - 1) BY <1>1
    <3> QED BY <3>1, <3>2, <3>3
  <2> QED BY <2>1, <2>2, SeqEqual
<1>6. ASSUME NEW b \in Seq(S) PROVE b \o Append(f, l) = Append(b \o f, l)
  BY <1>4
<1> QED BY <1>2, <1>3, <1>5, <1>6 DEF f, l

LEMMA StopWordKinds ==
  ASSUME NEW text \in Seq(Words), StopWordOf(text) # Nothing
  PROVE  text # <<>> /\ StopWordOf(text) = Last(text) /\ Last(text) \in StopWords
BY DEF StopWordOf

\* The turn stays the same.
LEMMA TurnStays ==
  ASSUME Turn, UNCHANGED <<pending, buffer, heard, voiced>>
  PROVE  Turn'
BY DEF Turn, EveryWordIsKept
LEMMA Least ==
  ASSUME NEW T, T \subseteq Nat, T # {}
  PROVE  \E x \in T : \A y \in T : x <= y
<1> DEFINE R == {ss \in Nat \X Nat : ss[1] < ss[2]}
<1>1. IsWellFoundedOn(R, Nat) BY NatLessThanWellFounded DEF OpToRel
<1>2. \A y \in Nat, x \in Nat : y < x => <<y, x>> \in R OBVIOUS
<1> HIDE DEF R
<1>3. PICK x \in T : \A y \in T : ~(<<y, x>> \in R) BY <1>1, WFMin
<1>4. \A y \in T : ~(y < x) BY <1>2, <1>3
<1> QED BY <1>3, <1>4

LEMMA AfterStartType ==
  ASSUME NEW text \in Seq(Words), "start" \in ToSet(text)
  PROVE  AfterStart(text) \in Seq(Words)
<1> DEFINE First(i) == text[i] = "start" /\ \A j \in 1..(i - 1) : text[j] # "start"
           T == {i \in DOMAIN text : text[i] = "start"}
<1>1. DOMAIN text = 1..Len(text) /\ Len(text) \in Nat BY LenProperties
<1>2. T \subseteq Nat /\ T # {} BY <1>1 DEF ToSet
<1>3. PICK x \in T : \A y \in T : x <= y BY <1>2, Least
<1>4. First(x)
  <2>1. ASSUME NEW j \in 1..(x - 1) PROVE text[j] # "start"
    <3>1. j \in DOMAIN text /\ ~(x <= j) BY <1>1, <1>3
    <3> QED BY <1>3, <3>1
  <2> QED BY <1>3, <2>1
<1> DEFINE at == CHOOSE i \in DOMAIN text : First(i)
<1>5. at \in DOMAIN text BY <1>3, <1>4
<1>6. AfterStart(text) = SubSeq(text, at + 1, Len(text)) BY DEF AfterStart
<1> HIDE DEF at
<1>7. /\ at + 1 \in Int /\ Len(text) \in Int
      /\ \A i \in (at + 1)..Len(text) : text[i] \in Words
  BY <1>1, <1>5, ElementOfSeq
<1>8. SubSeq(text, at + 1, Len(text)) \in Seq(Words)
  BY ONLY <1>7, SubSeqProperties
<1> QED BY <1>6, <1>8

LEMMA TurnTypes ==
  ASSUME NEW p, NEW b, NEW h, NEW v,
         p \in [kind : StopWords \cup {Nothing}, elapsed : 0..(ConfirmTicks - 1)],
         p.kind = Nothing => p = NoPending, v \in {"none", "midspeech"},
         b \in Seq(Words), h = IF p = NoPending THEN b ELSE Append(b, p.kind),
         pending' = p, buffer' = b, heard' = h, voiced' = v
  PROVE  Turn'
BY DEF Turn, EveryWordIsKept

LEMMA NoPendingType ==
  NoPending \in [kind : StopWords \cup {Nothing}, elapsed : 0..(ConfirmTicks - 1)]
BY DEF NoPending

LEMMA ArmedType ==
  ASSUME NEW w \in StopWords, NEW n \in 0..(ConfirmTicks - 1)
  PROVE  LET p == [kind |-> w, elapsed |-> n] IN
         /\ p \in [kind : StopWords \cup {Nothing}, elapsed : 0..(ConfirmTicks - 1)]
         /\ p # NoPending /\ p.kind = w /\ p.kind # Nothing /\ p.elapsed = n
BY DEF NoPending, StopWords, Nothing

LEMMA SegmentKeepsTurn ==
  ASSUME Turn, NEW e, e.kind = "Segment", e.text \in Seq(Words), e.cut \in BOOLEAN,
         Loose(pending, voiced), OnSegment(e.text), VoicedSince(e)
  PROVE  Turn' /\ (e.cut => Loose(pending', voiced'))
<1> DEFINE text == e.text
<1>1. /\ text \in Seq(Words) /\ buffer \in Seq(Words) /\ <<>> \in Seq(Words)
      /\ OnSegment(text)
  BY EmptySeq DEF Turn
<1> HIDE DEF text
<1>2. Remembered = buffer
  BY DEF Remembered, Loose, Turn, EveryWordIsKept
<1>3. voiced' = IF pending' = NoPending THEN "none"
                ELSE IF e.cut THEN "midspeech" ELSE "none"
  BY DEF VoicedSince
<1>4. voiced' \in {"none", "midspeech"} /\ (e.cut => Loose(pending', voiced'))
  BY <1>3 DEF Loose
<1>5. ASSUME pending' = NoPending, buffer' \in Seq(Words), heard' = buffer'
      PROVE  Turn'
  BY <1>4, <1>5, NoPendingType, TurnTypes
<1>6. CASE text = <<>>
  <2>1. pending' = NoPending /\ heard' = buffer /\ buffer' = buffer
    BY <1>1, <1>2, <1>6 DEF OnSegment
  <2> QED BY <1>1, <1>4, <1>5, <2>1
<1>7. CASE text # <<>> /\ ~capturing
  <2>1. /\ capturing' = ("start" \in ToSet(text)) /\ heard' = buffer'
        /\ buffer' = IF capturing' THEN AfterStart(text) ELSE buffer
        /\ pending' = NoPending
    BY <1>1, <1>7 DEF OnSegment
  <2>2. CASE capturing'
    <3>1. "start" \in ToSet(text) BY <2>1, <2>2, Zenon
    <3> QED BY <1>1, <1>4, <1>5, <2>1, <2>2, <3>1, AfterStartType
  <2>3. CASE ~capturing' BY <1>1, <1>4, <1>5, <2>1, <2>3
  <2> QED BY <2>2, <2>3
<1>8. CASE text # <<>> /\ capturing /\ StopWordOf(text) = Nothing
  <2>1. buffer' = buffer \o text /\ heard' = buffer \o text /\ pending' = NoPending
    BY <1>1, <1>2, <1>8 DEF OnSegment
  <2>2. buffer \o text \in Seq(Words) BY <1>1
  <2> QED BY <1>4, <1>5, <2>1, <2>2
<1>9. CASE text # <<>> /\ capturing /\ StopWordOf(text) # Nothing
  <2> DEFINE p == [kind |-> StopWordOf(text), elapsed |-> 0]
  <2>1. buffer' = buffer \o Front(text) /\ heard' = buffer \o text /\ pending' = p
    BY <1>1, <1>2, <1>9 DEF OnSegment
  <2>2. StopWordOf(text) = Last(text) /\ Last(text) \in StopWords
    BY <1>1, <1>9, StopWordKinds
  <2>3. 0 \in 0..(ConfirmTicks - 1) OBVIOUS
  <2>4. /\ p \in [kind : StopWords \cup {Nothing}, elapsed : 0..(ConfirmTicks - 1)]
        /\ p # NoPending /\ p.kind = Last(text) /\ p.kind # Nothing
    BY <2>2, <2>3, ArmedType
  <2> HIDE DEF p
  <2>5. Front(text) \in Seq(Words) /\ buffer \o text = Append(buffer \o Front(text), Last(text))
    BY <1>1, <1>9, FrontAndLast
  <2>6. buffer \o Front(text) \in Seq(Words) BY <1>1, <2>5
  <2> QED BY <1>4, <2>1, <2>4, <2>5, <2>6, TurnTypes
<1>10. \/ text = <<>>
       \/ text # <<>> /\ ~capturing
       \/ text # <<>> /\ capturing /\ StopWordOf(text) = Nothing
       \/ text # <<>> /\ capturing /\ StopWordOf(text) # Nothing
  OBVIOUS
<1> QED BY <1>4, <1>6, <1>7, <1>8, <1>9, <1>10

LEMMA OnsetKeepsTurn ==
  ASSUME Turn, NEW e, e.kind = "SpeechOnset", OnSpeechOnset, VoicedSince(e)
  PROVE  Turn' /\ Loose(pending', voiced')
<1>1. pending' = NoPending /\ voiced' = "none" /\ heard' = heard
      /\ buffer' = IF pending = NoPending THEN buffer ELSE Append(buffer, pending.kind)
  BY DEF OnSpeechOnset, VoicedSince
<1>2. heard' = buffer' BY <1>1 DEF Turn, EveryWordIsKept
<1>3. buffer' \in Seq(Words)
  <2>1. pending # NoPending => pending.kind \in Words BY DEF Turn, Words
  <2> QED BY <1>1, <2>1, AppendProperties DEF Turn
<1> QED BY <1>1, <1>2, <1>3, NoPendingType, TurnTypes DEF Loose

LEMMA TickKeepsTurn ==
  ASSUME Turn, NEW e, e.kind = "Tick", e.voiced \in Nat,
         e.voiced > 0 => Loose(pending, voiced), OnTick, VoicedSince(e)
  PROVE  /\ Turn'
         /\ \/ pending' = NoPending
            \/ /\ pending # NoPending /\ pending'.elapsed = pending.elapsed + 1
               /\ voiced = "midspeech" => voiced' = "midspeech"
<1>1. CASE Confirms
  <2>1. pending' = NoPending /\ buffer' = <<>> /\ heard' = <<>>
    BY <1>1 DEF OnTick, TurnReset, Confirms
  <2>2. voiced' = "none" BY <2>1 DEF VoicedSince
  <2>3. <<>> \in Seq(Words) BY EmptySeq
  <2> QED BY <2>1, <2>2, <2>3, NoPendingType, TurnTypes
<1>2. CASE pending # NoPending /\ ~Confirms
  <2>1. /\ pending' = [pending EXCEPT !.elapsed = @ + 1]
        /\ UNCHANGED <<buffer, heard>>
    BY <1>2 DEF OnTick, Confirms
  <2>2. pending.elapsed \in 0..(ConfirmTicks - 1) /\ pending.elapsed + 1 \in 0..(ConfirmTicks - 1)
        /\ pending.kind \in StopWords
    BY <1>2 DEF Confirms, Turn
  <2>3. pending' = [kind |-> pending.kind, elapsed |-> pending.elapsed + 1]
    BY <2>1 DEF Turn
  <2>4. /\ pending' \in [kind : StopWords \cup {Nothing}, elapsed : 0..(ConfirmTicks - 1)]
        /\ pending' # NoPending /\ pending'.kind = pending.kind /\ pending'.kind # Nothing
        /\ pending'.elapsed = pending.elapsed + 1
    BY <2>2, <2>3, ArmedType
  <2>5. voiced' = IF voiced = "none" /\ e.voiced > 0 THEN "spoke" ELSE voiced
    BY <2>4 DEF VoicedSince
  <2>6. voiced' = voiced BY <1>2, <2>5 DEF Loose
  <2> QED BY <1>2, <2>1, <2>4, <2>6, TurnTypes DEF Turn, EveryWordIsKept
<1>3. CASE pending = NoPending
  <2>1. pending' = NoPending /\ UNCHANGED <<buffer, heard>>
    BY <1>3 DEF OnTick, Confirms, turnVars
  <2>2. voiced' = "none" BY <2>1 DEF VoicedSince
  <2> QED BY <1>3, <2>1, <2>2, NoPendingType, TurnTypes DEF Turn, EveryWordIsKept
<1> QED BY <1>1, <1>2, <1>3
\* The turn moves on with the head of the stream.
LEMMA ProcessTurns ==
  ASSUME TurnInv, TickProcesses
  PROVE  /\ Turn' /\ Live /\ events # <<>> /\ Head(events) \in Known
         /\ Moves(Head(events), epoch, pending, voiced, pending', voiced')
<1> DEFINE e == Head(events)
<1>1. Inv /\ Turn /\ epc = "process" /\ batch \in 1..Len(events)
  BY DEF TurnInv, TickProcesses, Inv, Gate
<1>2. Live /\ events # <<>>
  BY <1>1, EmptySeq, LenProperties DEF Inv, Gate, Channels, Live
<1>3. e \in Known BY <1>1, <1>2, HeadTailProperties DEF Inv, Channels
<1>4. e.kind \in {"Tick", "SpeechOnset", "Segment"} /\ e.epoch \in Nat /\ e.voiced \in Nat
      /\ e.text \in Seq(Words) /\ e.cut \in BOOLEAN
  BY <1>3 DEF Known, Item
<1>5. CASE IsStale(e)
  <2>1. UNCHANGED <<pending, buffer, heard, voiced>> /\ e.epoch # epoch
    BY <1>5 DEF TickProcesses, IsStale, turnVars, turnHistory
  <2> QED BY <1>1, <1>2, <1>3, <2>1, TurnStays DEF Moves
<1>6. CASE ~IsStale(e)
  <2>1. Drives(e) /\ e.epoch = epoch BY <1>6 DEF TickProcesses, IsStale
  <2>2. Speaks(e) => Loose(pending, voiced) BY <1>2, <2>1, HeadIsAnnounced
  <2>3. VoicedSince(e) BY <2>1 DEF Drives
  <2> HIDE DEF e
  <2>4. CASE e.kind = "Tick"
    <3>1. OnTick BY <2>1, <2>4 DEF Drives
    <3>2. e.voiced > 0 => Loose(pending, voiced) BY <2>2, <2>4 DEF Speaks
    <3>3. /\ Turn'
          /\ \/ pending' = NoPending
             \/ /\ pending # NoPending /\ pending'.elapsed = pending.elapsed + 1
                /\ voiced = "midspeech" => voiced' = "midspeech"
      BY <1>1, <1>4, <2>3, <2>4, <3>1, <3>2, TickKeepsTurn
    <3>4. ~Opens(e) BY <2>4 DEF Opens
    <3>5. Moves(e, epoch, pending, voiced, pending', voiced')
      BY <2>1, <2>4, <3>3, <3>4 DEF Moves
    <3> QED BY <1>2, <1>3, <3>3, <3>5 DEF e
  <2>5. CASE e.kind = "SpeechOnset"
    <3>1. OnSpeechOnset BY <2>1, <2>5 DEF Drives
    <3>2. Turn' /\ Loose(pending', voiced') BY <1>1, <2>3, <2>5, <3>1, OnsetKeepsTurn
    <3>3. Moves(e, epoch, pending, voiced, pending', voiced')
      BY <2>1, <2>5, <3>2 DEF Moves
    <3> QED BY <1>2, <1>3, <3>2, <3>3 DEF e
  <2>6. CASE e.kind = "Segment"
    <3>1. OnSegment(e.text) BY <2>1, <2>6 DEF Drives
    <3>2. Loose(pending, voiced) BY <2>2, <2>6 DEF Speaks
    <3>3. Turn' /\ (e.cut => Loose(pending', voiced'))
      BY <1>1, <1>4, <2>3, <2>6, <3>1, <3>2, SegmentKeepsTurn
    <3>4. Opens(e) => e.cut BY <2>6 DEF Opens
    <3>5. Moves(e, epoch, pending, voiced, pending', voiced')
      BY <2>1, <2>6, <3>3, <3>4 DEF Moves
    <3> QED BY <1>2, <1>3, <3>3, <3>5 DEF e
  <2> QED BY <1>4, <2>4, <2>5, <2>6
<1> QED BY <1>5, <1>6

LEMMA ProcessAnnounces ==
  ASSUME TurnInv, TickProcesses
  PROVE  Announced'
<1>1. /\ Inv /\ Turn' /\ Live /\ events # <<>>
      /\ Moves(Head(events), epoch, pending, voiced, pending', voiced')
      /\ events' = Tail(events)
      /\ UNCHANGED <<raw, epoch, active, inSpeech, segment>>
  BY ProcessTurns DEF TurnInv, TickProcesses, gateVars, engineKeeps, captureVars
<1>2. events \in Seq(Known) /\ raw \in Seq(Known) BY <1>1 DEF Inv, Channels
<1> DEFINE a == Tail(events)
<1>3. /\ a \in Seq(Known) /\ Len(a) = Len(events) - 1
      /\ \A i \in 1..Len(a) : a[i] = events[i + 1]
  BY <1>1, <1>2, HeadTailProperties
<1>4. Stream' = a \o raw BY <1>1 DEF Stream
<1> HIDE DEF a
<1>5. /\ Len(events) \in Nat \ {0} /\ Len(raw) \in Nat /\ Len(Stream) \in Nat \ {0}
      /\ Stream[1] = Head(events)
  BY <1>1, <1>2, HeadOfStream, LenProperties
<1>6. /\ Len(Stream) = Len(events) + Len(raw)
      /\ \A i \in 1..Len(events) : Stream[i] = events[i]
      /\ \A i \in 1..Len(raw) : Stream[Len(events) + i] = raw[i]
  BY <1>2, ConcatAt DEF Stream
<1>7. /\ Len(Stream') = Len(a) + Len(raw)
      /\ \A i \in 1..Len(a) : Stream'[i] = a[i]
      /\ \A i \in 1..Len(raw) : Stream'[Len(a) + i] = raw[i]
  <2>1. /\ Len(a \o raw) = Len(a) + Len(raw)
        /\ \A i \in 1..Len(a) : (a \o raw)[i] = a[i]
        /\ \A i \in 1..Len(raw) : (a \o raw)[Len(a) + i] = raw[i]
    <3>1. a \in Seq(Known) /\ raw \in Seq(Known) BY <1>2, <1>3
    <3> QED BY ONLY <3>1, ConcatAt
  <2> QED BY <1>4, <2>1
<1>8. Len(Stream') = Len(Stream) - 1 BY <1>3, <1>5, <1>6, <1>7
<1>9. \A i \in 1..Len(Stream') : Stream'[i] = Stream[i + 1]
  <2> TAKE i \in 1..Len(Stream')
  <2>1. CASE i \in 1..Len(a)
    <3>1. i + 1 \in 1..Len(events) BY <1>3, <1>5, <2>1
    <3> QED BY <1>3, <1>6, <1>7, <2>1, <3>1
  <2>2. CASE i > Len(a)
    <3> DEFINE j == i - Len(a)
    <3>1. j \in 1..Len(raw) /\ Len(a) + j = i /\ Len(events) + j = i + 1
      BY <1>3, <1>5, <1>7, <2>2
    <3> HIDE DEF j
    <3>2. Stream'[i] = raw[j] /\ Stream[i + 1] = raw[j] BY <1>6, <1>7, <3>1
    <3> QED BY <3>2
  <2>3. i \in 1..Len(a) \/ i > Len(a) BY <1>3, <1>5
  <2> QED BY <2>1, <2>2, <2>3
<1>10. pending.elapsed \in Nat /\ pending'.elapsed \in Nat
  BY <1>1 DEF TurnInv, Turn
<1>11. Moves(Stream[1], epoch, pending, voiced, pending', voiced') BY <1>1, <1>5
<1>12. ASSUME NEW p \in 2..(Len(Stream) + 1), NEW n \in Nat
       PROVE  /\ Aware(Stream, p, epoch, pending, voiced)
                   => Aware(Stream', p - 1, epoch, pending', voiced')
              /\ Excused(Stream, p, n, epoch, pending, voiced)
                   => Excused(Stream', p - 1, n, epoch, pending', voiced')
  BY <1>5, <1>8, <1>9, <1>10, <1>11, HeadGoes
<1>13. /\ Sound(Stream, epoch, pending, voiced)
       /\ active = epoch => MaySend(Stream, segment.len)
  BY <1>1 DEF TurnInv, Announced
<1>14. Sound(Stream', epoch, pending', voiced')
  <2> SUFFICES ASSUME NEW o \in 1..Len(Stream'), Stream'[o].epoch = epoch, Speaks(Stream'[o])
               PROVE  Excused(Stream', o, ConfirmTicks, epoch, pending', voiced')
    BY DEF Sound
  <2>1. o + 1 \in 1..Len(Stream) /\ o + 1 \in 2..(Len(Stream) + 1) /\ (o + 1) - 1 = o
        /\ Stream[o + 1] = Stream'[o] /\ ConfirmTicks \in Nat
    BY <1>5, <1>8, <1>9
  <2>2. Excused(Stream, o + 1, ConfirmTicks, epoch, pending, voiced)
    BY <1>13, <2>1 DEF Sound
  <2>3. Excused(Stream', (o + 1) - 1, ConfirmTicks, epoch, pending', voiced')
    BY <1>12, <2>1, <2>2
  <2> QED BY <2>1, <2>3
<1>15. /\ active = epoch /\ inSpeech
            => Aware(Stream', Len(Stream') + 1, epoch, pending', voiced')
       /\ active = epoch /\ ~inSpeech
            => Excused(Stream', Len(Stream') + 1, segment.len, epoch, pending', voiced')
  <2>1. Len(Stream) + 1 \in 2..(Len(Stream) + 1) /\ (Len(Stream) + 1) - 1 = Len(Stream') + 1
    BY <1>5, <1>8
  <2>2. segment.len \in Nat BY <1>1 DEF Inv, Captured
  <2>3. /\ Aware(Stream, Len(Stream) + 1, epoch, pending, voiced)
             => Aware(Stream', (Len(Stream) + 1) - 1, epoch, pending', voiced')
        /\ Excused(Stream, Len(Stream) + 1, segment.len, epoch, pending, voiced)
             => Excused(Stream', (Len(Stream) + 1) - 1, segment.len, epoch, pending', voiced')
    BY <1>12, <2>1, <2>2
  <2> QED BY <1>13, <2>1, <2>3 DEF MaySend
<1> QED BY <1>1, <1>14, <1>15 DEF Announced, MaySend

-----------------------------------------------------------------------------

LEMMA TickKeepsTurnInv == ASSUME TurnInv, Tick PROVE TurnInv'
<1>1. Inv' BY TickKeepsInv DEF TurnInv
<1>2. CASE TickProcesses
  BY <1>1, <1>2, ProcessTurns, ProcessAnnounces DEF TurnInv
<1>3. CASE TickListens \/ TickDiscards \/ TickSwitches \/ GateBumps
  <2>1. UNCHANGED <<pending, buffer, heard, voiced, raw, active, inSpeech, segment>>
    BY <1>3 DEF TickListens, TickDiscards, TickSwitches, GateBumps, turnVars,
                turnHistory, engineKeeps, captureVars
  <2>2. Turn' BY <2>1, TurnStays DEF TurnInv
  <2>3. CASE TickListens
    <3>1. UNCHANGED <<enabled, epoch, events>> /\ epc = "idle" /\ epc' # "bump"
      BY <2>3 DEF TickListens, gateVars, Collects
    <3>2. Announced' BY <2>1, <3>1 DEF TurnInv, Announced, Live, Stream, MaySend
    <3> QED BY <1>1, <2>2, <3>2 DEF TurnInv
  <2>4. CASE TickDiscards
    <3>1. ~Live' BY <2>4 DEF TickDiscards, gateVars, Live
    <3> QED BY <1>1, <2>2, <3>1 DEF TurnInv, Announced
  <2>5. CASE TickSwitches
    <3>1. ~Live' BY <2>5 DEF TickSwitches, Live
    <3> QED BY <1>1, <2>2, <3>1 DEF TurnInv, Announced
  <2>6. CASE GateBumps
    <3> SUFFICES ASSUME Live' PROVE Sound(Stream, epoch', pending, voiced) /\ active # epoch'
      <4>1. Live' => Stream' = Stream
        BY <2>1, <2>6 DEF GateBumps, Live, Stream
      <4> QED BY <1>1, <2>1, <2>2, <4>1 DEF TurnInv, Announced
    <3>1. epoch' = epoch + 1 /\ epoch \in Nat /\ active \in Nat /\ active <= epoch
      BY <2>6 DEF GateBumps, TurnInv, Inv, Gate
    <3>2. \A p \in 1..Len(Stream) : Stream[p] \in Known
      BY StreamType, ElementOfSeq DEF TurnInv
    <3>3. \A p \in 1..Len(Stream) : Stream[p].epoch # epoch'
      BY <3>1, <3>2 DEF Known, Item
    <3> QED BY <3>1, <3>3 DEF Sound
  <2> QED BY <1>3, <2>3, <2>4, <2>5, <2>6
<1> QED BY <1>2, <1>3 DEF Tick

LEMMA TurnInvAtFirst == Init => TurnInv
<1> SUFFICES ASSUME Init PROVE Turn /\ Announced
  BY InvAtFirst DEF TurnInv
<1>1. ~Live BY DEF Init, Live
<1>2. pending = NoPending /\ buffer = <<>> /\ heard = <<>> /\ voiced = "none"
  BY DEF Init
<1>3. <<>> \in Seq(Words) BY EmptySeq
<1> QED BY <1>1, <1>2, <1>3, NoPendingType DEF Announced, Turn, EveryWordIsKept

LEMMA TurnInvNext == ASSUME TurnInv, [Next]_vars PROVE TurnInv'
<1>1. Inv' BY InvNext DEF TurnInv
<1>2. CASE Capture
  <2>1. UNCHANGED <<pending, buffer, heard, voiced>>
    BY <1>2 DEF Capture, CaptureDrains, CaptureCloses, CaptureOpens, CaptureNoSamples, CaptureFrame,
                captureKeeps, engineVars, turnHistory
  <2> QED BY <1>1, <1>2, <2>1, TurnStays, CaptureAnnounces DEF TurnInv
<1>3. CASE Infer
  <2>1. UNCHANGED <<pending, buffer, heard, voiced>>
    BY <1>3 DEF Infer, InferForwards, InferSkipsStale, InferPasses, InferTakesSegment,
                InferTranscribes, inferKeeps, engineVars, turnHistory
  <2> QED BY <1>1, <1>3, <2>1, TurnStays, InferAnnounces DEF TurnInv
<1>4. CASE Tick BY <1>4, TickKeepsTurnInv
<1>5. CASE VoiceStarts \/ VoiceStops \/ UNCHANGED vars
  <2>1. UNCHANGED <<pending, buffer, heard, voiced, enabled, epoch, epc, raw, events,
                    active, inSpeech, segment>>
    BY <1>5 DEF VoiceStarts, VoiceStops, vars, gateVars, captureVars, engineVars,
                turnHistory
  <2> QED BY <1>1, <2>1, TurnStays, StillAnnounced DEF TurnInv
<1>6. CASE Reload
  <2>1. /\ pending' = NoPending /\ buffer' = <<>> /\ heard' = <<>>
        /\ voiced' = "none" /\ enabled' = FALSE
    BY <1>6 DEF Reload, FreshWorker, TurnReset
  <2>2. ~Live' BY <2>1 DEF Live
  <2>3. <<>> \in Seq(Words) BY EmptySeq
  <2>4. Turn' BY <2>1, <2>3, NoPendingType, TurnTypes
  <2> QED BY <1>1, <2>2, <2>4 DEF TurnInv, Announced
<1> QED BY <1>2, <1>3, <1>4, <1>5, <1>6 DEF Next

LEMMA TurnInvHolds == Spec => []TurnInv
BY TurnInvAtFirst, TurnInvNext, PTL DEF Spec

\* Every recognised word since the start word is in the buffer, in order, or is the
\* stop word being confirmed: no segment reaches a stop word that is still armed,
\* other than one armed by a cut, since an onset or its confirmation comes first.
THEOREM WordsKept == Spec => []EveryWordIsKept
<1>1. TurnInv => EveryWordIsKept BY DEF TurnInv, Turn
<1> QED BY <1>1, TurnInvHolds, PTL

\* A turn ends on a stop word and the silence after it: a voiced frame that reaches
\* the turn was preceded by the onset that takes the stop word back.
THEOREM SilenceEnds == Spec => EndsInSilence
<1> DEFINE Ends == capturing /\ ~capturing' /\ epc = "process"
                     => voiced = "midspeech" \/ (voiced = "none" /\ Head(events).voiced = 0)
<1>1. TurnInv /\ [Next]_vars => [Ends]_vars
  <2> SUFFICES ASSUME TurnInv, Next, capturing, ~capturing', epc = "process"
               PROVE  voiced = "midspeech" \/ (voiced = "none" /\ Head(events).voiced = 0)
    OBVIOUS
  <2>1. TickProcesses
    <3>1. ~Reload BY DEF Reload
    <3>2. ~(VoiceStarts \/ VoiceStops \/ Capture \/ Infer)
      BY DEF VoiceStarts, VoiceStops, Capture, CaptureDrains, CaptureCloses, CaptureOpens,
             CaptureNoSamples, CaptureFrame, captureKeeps, Infer, InferForwards, InferSkipsStale,
             InferPasses, InferTakesSegment, InferTranscribes, inferKeeps, engineVars
    <3>3. ~(TickListens \/ TickDiscards \/ TickSwitches \/ GateBumps)
      BY DEF TickListens, TickDiscards, TickSwitches, GateBumps
    <3> QED BY <3>1, <3>2, <3>3 DEF Next, Tick
  <2>2. Live /\ events # <<>> /\ Head(events) \in Known BY <2>1, ProcessTurns
  <2>3. ~IsStale(Head(events)) /\ Drives(Head(events))
    BY <2>1 DEF TickProcesses, turnVars
  <2>4. Head(events).kind = "Tick" /\ Confirms
    BY <2>3 DEF Drives, OnTick, OnSpeechOnset, OnSegment, turnVars
  <2>5. pending # NoPending /\ Head(events).epoch = epoch
    BY <2>3, <2>4 DEF Confirms, IsStale
  <2>6. Head(events).voiced > 0 => voiced = "midspeech"
    BY <2>2, <2>4, <2>5, HeadIsAnnounced DEF Speaks, Loose
  <2>7. Head(events).voiced \in Nat BY <2>2 DEF Known, Item
  <2> QED BY <2>6, <2>7 DEF TurnInv, Turn
<1> QED BY <1>1, TurnInvHolds, PTL DEF Spec, EndsInSilence

-----------------------------------------------------------------------------
(* Types.                                                                  *)

Counters ==
  /\ spoken \in 0..MaxVoiced /\ upsets \in 0..MaxUpsets
  /\ epoch \in Nat \ {0} /\ active \in Nat \ {0}
  /\ silence \in 0..(EndpointSilence - 1)
  /\ segment.voiced <= spoken /\ segment.len \in 0..MaxSegment

Flags ==
  /\ busy \in BOOLEAN /\ enabled \in BOOLEAN /\ mic \in BOOLEAN
  /\ inSpeech \in BOOLEAN /\ transcribing \in BOOLEAN /\ capturing \in BOOLEAN
  /\ sttActive \in BOOLEAN /\ pendingEnter \in BOOLEAN

Steps ==
  /\ cpc \in {"check", "drain"} /\ epc \in {"idle", "bump", "process"}
  /\ batch \in 0..Len(events) /\ ((epc = "process") = (batch > 0))

InChannels ==
  /\ raw \in Seq(Events) /\ events \in Seq(Events) /\ Len(raw) <= RawCapacity
  /\ transcribing => raw # <<>> /\ Head(raw).kind = "Segment"

TypesInv == TurnInv /\ Counters /\ Flags /\ Steps /\ InChannels

-----------------------------------------------------------------------------

LEMMA FrameCounts ==
  ASSUME TypesInv, NEW voice \in {0, 1}, CaptureFrame(voice)
  PROVE  Counters' /\ Grown(voice).voiced \in 0..MaxVoiced
<1>1. /\ spoken' = spoken + voice /\ spoken + voice <= MaxVoiced /\ spoken \in Nat
      /\ UNCHANGED <<upsets, epoch, active>>
  BY DEF CaptureFrame, gateVars, TypesInv, Counters
<1>2. /\ Grown(voice).voiced = segment.voiced + voice /\ segment.voiced <= spoken
      /\ Grown(voice).len = segment.len + 1
      /\ segment.voiced \in Nat /\ segment.len \in Nat
  BY DEF Grown, TypesInv, Counters, TurnInv, Inv, Captured
<1>3. NoSegment.voiced = 0 /\ NoSegment.len = 0 BY DEF NoSegment
<1>4. ASSUME NEW rest, NEW cuts, Endpoint(voice, rest, cuts)
      PROVE  /\ segment' = rest \/ segment' = NoSegment
             /\ silence' \in 0..(EndpointSilence - 1)
  <2>1. segment' = rest \/ segment' = NoSegment BY <1>4 DEF Endpoint
  <2>2. silence \in 0..(EndpointSilence - 1) /\ EndpointSilence \in Nat \ {0}
    BY DEF TypesInv, Counters
  <2>3. \/ silence' = 0 \/ silence' = silence
        \/ silence' = silence + 1 /\ ~(silence + 1 >= EndpointSilence)
    BY <1>4 DEF Endpoint
  <2>4. silence' \in 0..(EndpointSilence - 1) BY <2>2, <2>3
  <2> QED BY <2>1, <2>4
<1>5. /\ segment'.voiced <= spoken' /\ segment'.len \in 0..MaxSegment
      /\ silence' \in 0..(EndpointSilence - 1)
  <2>1. CASE Grown(voice).len > MaxSegment
    <3>1. segment' = NoSegment /\ silence' \in 0..(EndpointSilence - 1)
      BY <1>4, <2>1 DEF CaptureFrame
    <3> QED BY <1>1, <1>3, <3>1
  <2>2. CASE ~(Grown(voice).len > MaxSegment)
    <3>1. (segment' = Grown(voice) \/ segment' = NoSegment)
          /\ silence' \in 0..(EndpointSilence - 1)
      BY <1>4, <2>2 DEF CaptureFrame
    <3> QED BY <1>1, <1>2, <1>3, <2>2, <3>1
  <2> QED BY <2>1, <2>2
<1> QED BY <1>1, <1>2, <1>5 DEF Counters, TypesInv

LEMMA CountersHold == ASSUME TypesInv, [Next]_vars PROVE Counters'
<1>1. /\ epoch \in Nat \ {0} /\ active \in Nat \ {0} /\ EndpointSilence \in Nat \ {0}
      /\ spoken \in Nat /\ MaxSegment \in Nat /\ upsets \in Nat
  BY DEF TypesInv, Counters
<1>2. NoSegment.voiced = 0 /\ NoSegment.len = 0 BY DEF NoSegment
<1>3. CASE \E voice \in {0, 1} : CaptureFrame(voice) BY <1>3, FrameCounts
<1>4. CASE CaptureCloses
  <2>1. /\ UNCHANGED <<spoken, upsets, epoch>> /\ active' = epoch /\ silence' = 0
        /\ segment' = NoSegment
    BY <1>4 DEF CaptureCloses, captureKeeps, userVars, gateVars
  <2> QED BY <1>1, <1>2, <2>1 DEF Counters, TypesInv
<1>5. CASE Reload
  <2>1. /\ spoken' = spoken /\ upsets' = upsets + 1 /\ upsets < MaxUpsets /\ epoch' = 1
        /\ active' = 1 /\ silence' = 0 /\ segment' = NoSegment
    BY <1>5 DEF Reload, FreshWorker
  <2> QED BY <1>1, <1>2, <2>1 DEF Counters, TypesInv
<1>6. CASE GateBumps
  <2>1. UNCHANGED <<spoken, upsets, active, silence, segment>> /\ epoch' = epoch + 1
    BY <1>6 DEF GateBumps, engineKeeps, userVars, captureVars
  <2> QED BY <1>1, <2>1 DEF Counters, TypesInv
<1>7. CASE VoiceStarts
  <2>1. UNCHANGED <<spoken, epoch, active, silence, segment>> /\ upsets' = upsets + 1
        /\ upsets < MaxUpsets
    BY <1>7 DEF VoiceStarts, gateVars, captureVars
  <2> QED BY <1>1, <2>1 DEF Counters, TypesInv
<1>8. CASE VoiceStops \/ CaptureOpens \/ CaptureNoSamples \/ Infer \/ TickListens
           \/ TickDiscards \/ TickSwitches \/ TickProcesses \/ UNCHANGED vars
  <2>1. UNCHANGED <<spoken, upsets, epoch, active, silence, segment>>
    BY <1>8 DEF VoiceStops, CaptureOpens, CaptureNoSamples, Infer, InferForwards, InferSkipsStale,
                InferPasses, InferTakesSegment, InferTranscribes, inferKeeps,
                TickListens, TickDiscards, TickSwitches, TickProcesses, captureKeeps,
                engineKeeps, userVars, gateVars, captureVars, endpointVars, vars
  <2> QED BY <2>1 DEF Counters, TypesInv
<1> QED BY <1>3, <1>4, <1>5, <1>6, <1>7, <1>8 DEF Next, Capture, CaptureDrains, Tick

LEMMA TruthValue == ASSUME NEW c, NEW x, NEW S, c = (x \in S) PROVE c \in BOOLEAN
BY SMT

\* The flags of the turn and of the capture.
LEMMA FlagsHold == ASSUME TypesInv, [Next]_vars PROVE Flags'
<1> USE DEF Flags
<1>1. Flags BY DEF TypesInv
<1>2. CASE CaptureCloses
  <2>1. UNCHANGED <<busy, enabled, transcribing, capturing, sttActive, pendingEnter>>
        /\ mic' = FALSE /\ inSpeech' = FALSE
    BY <1>2 DEF CaptureCloses, captureKeeps, gateVars, engineVars
  <2> QED BY <1>1, <2>1, Zenon
<1>3. CASE CaptureOpens
  <2>1. UNCHANGED <<busy, enabled, transcribing, capturing, sttActive, pendingEnter, inSpeech>>
        /\ (mic' = TRUE \/ mic' = mic)
    BY <1>3 DEF CaptureOpens, captureKeeps, gateVars, engineVars, endpointVars
  <2> QED BY <1>1, <2>1, Zenon
<1>4. CASE CaptureNoSamples \/ \E voice \in {0, 1} : CaptureFrame(voice)
  <2>1. UNCHANGED <<busy, enabled, transcribing, capturing, sttActive, pendingEnter, mic>>
    BY <1>4 DEF CaptureNoSamples, CaptureFrame, captureKeeps, gateVars, engineVars
  <2>2. inSpeech' = inSpeech \/ inSpeech' = TRUE \/ inSpeech' = FALSE
    BY <1>4 DEF CaptureNoSamples, CaptureFrame, Endpoint, endpointVars
  <2>3. inSpeech' \in BOOLEAN BY <1>1, <2>2, Zenon
  <2> QED BY <1>1, <2>1, <2>3, Zenon
<1>5. CASE Infer
  <2>1. UNCHANGED <<busy, enabled, capturing, sttActive, pendingEnter, mic, inSpeech>>
    BY <1>5 DEF Infer, InferForwards, InferSkipsStale, InferPasses, InferTakesSegment, InferTranscribes,
                inferKeeps, gateVars, captureVars, engineVars
  <2>2. transcribing' = transcribing \/ transcribing' = TRUE \/ transcribing' = FALSE
    BY <1>5 DEF Infer, InferForwards, InferSkipsStale, InferPasses, InferTakesSegment, InferTranscribes
  <2>3. transcribing' \in BOOLEAN BY <1>1, <2>2, Zenon
  <2> QED BY <1>1, <2>1, <2>3, Zenon
<1>6. CASE VoiceStarts \/ VoiceStops \/ UNCHANGED vars
  <2>1. UNCHANGED <<enabled, transcribing, capturing, sttActive, pendingEnter, mic, inSpeech>>
    BY <1>6 DEF VoiceStarts, VoiceStops, gateVars, captureVars, engineVars, vars
  <2>2. busy' = busy \/ busy' = TRUE \/ busy' = FALSE
    BY <1>6 DEF VoiceStarts, VoiceStops, vars
  <2>3. busy' \in BOOLEAN BY <1>1, <2>2, Zenon
  <2> QED BY <1>1, <2>1, <2>3, Zenon
<1>7. CASE Reload
  <2>1. /\ UNCHANGED <<busy, sttActive>> /\ enabled' = FALSE /\ mic' = FALSE
        /\ inSpeech' = FALSE /\ transcribing' = FALSE /\ capturing' = FALSE
        /\ pendingEnter' = FALSE
    BY <1>7 DEF Reload, FreshWorker, TurnReset
  <2> QED BY <1>1, <2>1, Zenon
<1>8. CASE Tick
  <2>1. UNCHANGED <<busy, transcribing, mic, inSpeech>>
    BY <1>8 DEF Tick, TickListens, TickDiscards, TickSwitches, GateBumps, TickProcesses,
                engineKeeps, captureVars
  <2>2. enabled' = enabled \/ enabled' = ~busy
    BY <1>8 DEF Tick, TickListens, TickDiscards, TickSwitches, GateBumps, TickProcesses,
                gateVars
  <2>3. enabled' \in BOOLEAN BY <1>1, <2>2, Zenon
  <2>4. CASE TickProcesses /\ Drives(Head(events))
    <3>1. capturing' \in BOOLEAN
      <4>1. \/ capturing' = capturing \/ capturing' = FALSE
            \/ capturing' = ("start" \in ToSet(Head(events).text))
        BY <2>4 DEF Drives, OnTick, OnSpeechOnset, OnSegment, TurnReset, turnVars
      <4>2. capturing' = ("start" \in ToSet(Head(events).text)) => capturing' \in BOOLEAN
        BY TruthValue
      <4> QED BY <1>1, <4>1, <4>2, Zenon
    <3>2. sttActive' = capturing' /\ pendingEnter' = (pendingEnter \/ Submits(Head(events)))
      BY <2>4 DEF Drives
    <3>3. sttActive' \in BOOLEAN BY <3>1, <3>2, Zenon
    <3>4. pendingEnter' \in BOOLEAN BY <3>2, Zenon
    <3> QED BY <1>1, <2>1, <2>3, <3>1, <3>3, <3>4, Zenon
  <2>5. CASE ~(TickProcesses /\ Drives(Head(events)))
    <3>1. UNCHANGED <<capturing, sttActive>> /\ pendingEnter' \in {FALSE, pendingEnter}
      BY <1>8, <2>5 DEF Tick, TickListens, TickDiscards, TickSwitches, GateBumps,
                        TickProcesses, turnVars, EnterIsDue
    <3>2. pendingEnter' \in BOOLEAN BY <1>1, <3>1, Zenon
    <3> QED BY <1>1, <2>1, <2>3, <3>1, <3>2, Zenon
  <2> QED BY <2>4, <2>5
<1> QED BY <1>2, <1>3, <1>4, <1>5, <1>6, <1>7, <1>8 DEF Next, Capture, CaptureDrains
\* What the capture thread sends has a type, and stays within the channel.
LEMMA SendTypes ==
  ASSUME TypesInv, NEW sent \in Seq(Events), Sends(sent), UNCHANGED <<transcribing, events>>
  PROVE  InChannels'
<1>1. raw \in Seq(Events) /\ raw' = raw \o sent /\ Len(raw) + Len(sent) <= RawCapacity
  BY DEF TypesInv, InChannels, Sends
<1>2. raw \o sent \in Seq(Events) /\ Len(raw \o sent) = Len(raw) + Len(sent)
  BY <1>1, ConcatProperties
<1>3. raw # <<>> => raw \o sent # <<>> /\ Head(raw \o sent) = Head(raw)
  <2> SUFFICES ASSUME raw # <<>> PROVE raw \o sent # <<>> /\ Head(raw \o sent) = Head(raw)
    OBVIOUS
  <2>1. Len(raw) \in Nat \ {0} /\ Head(raw) = raw[1] /\ Len(sent) \in Nat
    BY <1>1, EmptySeq, LenProperties, HeadTailProperties
  <2>2. raw \o sent # <<>> BY <1>2, <2>1, EmptySeq
  <2>3. Head(raw \o sent) = (raw \o sent)[1] BY <1>2, <2>2, HeadTailProperties
  <2>4. (raw \o sent)[1] = raw[1] BY <1>1, <2>1, ConcatAt
  <2> QED BY <2>1, <2>2, <2>3, <2>4
<1> QED BY <1>1, <1>2, <1>3 DEF InChannels, TypesInv, Events

LEMMA EventType ==
  ASSUME TypesInv, NEW kind \in {"Tick", "SpeechOnset", "Segment"}, NEW n \in 0..MaxVoiced,
         NEW cut \in BOOLEAN, NEW from \in Nat
  PROVE  Event(kind, n, cut, from) \in Events
<1>1. <<>> \in Seq(Words) /\ active \in Nat \ {0} BY EmptySeq DEF TypesInv, Counters
<1> QED BY <1>1 DEF Event, Events

LEMMA FrameTypes ==
  ASSUME TypesInv, NEW voice \in {0, 1}, CaptureFrame(voice)
  PROVE  InChannels'
<1>1. /\ spoken + voice <= MaxVoiced /\ spoken \in Nat /\ MaxVoiced \in Nat
      /\ UNCHANGED <<transcribing, events>>
  BY DEF CaptureFrame, TypesInv, Counters
<1>2. ring \in Nat /\ Now \in Nat /\ segment \in [voiced : Nat, len : Nat, from : Nat]
  BY NowIsNat DEF TypesInv, TurnInv, Inv, Captured
<1>3. /\ Grown(voice).voiced \in 0..MaxVoiced /\ Grown(voice).from \in Nat
      /\ NoSegment.voiced \in 0..MaxVoiced /\ NoSegment.from \in Nat
  BY <1>1, <1>2, FrameCounts DEF Grown, Both, NoSegment
<1>4. ASSUME NEW s, s.voiced \in 0..MaxVoiced, s.from \in Nat, NEW cut \in BOOLEAN
      PROVE  SegmentOf(s, cut) \in Events
  BY <1>2, <1>4, EventType DEF SegmentOf
<1>5. Event("Tick", voice, FALSE, ring) \in Events
  <2>1. voice \in 0..MaxVoiced BY <1>1
  <2> QED BY <1>2, <2>1, EventType
<1>6. ASSUME NEW rest, rest.voiced \in 0..MaxVoiced, rest.from \in Nat,
             NEW cuts \in Seq(Events), Endpoint(voice, rest, cuts)
      PROVE  InChannels'
  <2>1. \E x \in Events : Sends(Append(cuts, x))
    <3>1. SegmentOf(rest, FALSE) \in Events BY <1>4, <1>6
    <3>2. voice = 1 => Event("SpeechOnset", 1, FALSE, ring) \in Events
      <4> SUFFICES ASSUME voice = 1 PROVE Event("SpeechOnset", 1, FALSE, ring) \in Events
        OBVIOUS
      <4>1. 1 \in 0..MaxVoiced BY <1>1
      <4> QED BY <1>2, <4>1, EventType
    <3>3. voice = 1 \/ ~(voice = 1 /\ Sends(Append(cuts, Event("SpeechOnset", 1, FALSE, ring))))
      OBVIOUS
    <3> QED BY <1>5, <1>6, <3>1, <3>2, <3>3 DEF Endpoint
  <2>2. PICK x \in Events : Sends(Append(cuts, x)) BY <2>1
  <2>3. Append(cuts, x) \in Seq(Events) BY <1>6, <2>2, AppendProperties
  <2> QED BY <1>1, <2>2, <2>3, SendTypes
<1>7. <<>> \in Seq(Events) BY EmptySeq
<1>8. <<SegmentOf(Grown(voice), TRUE)>> \in Seq(Events) BY <1>3, <1>4, Singleton
<1> QED BY <1>3, <1>6, <1>7, <1>8 DEF CaptureFrame

LEMMA InferTypes ==
  ASSUME TypesInv, Infer
  PROVE  InChannels' /\ Steps'
<1>1. /\ raw \in Seq(Events) /\ events \in Seq(Events) /\ Len(raw) <= RawCapacity
      /\ transcribing => Head(raw).kind = "Segment"
      /\ raw # <<>> /\ UNCHANGED <<cpc, epc, batch>>
  BY DEF TypesInv, InChannels, TurnInv, Inv, Infer, InferForwards, InferSkipsStale, InferPasses,
         InferTakesSegment, InferTranscribes, inferKeeps, captureVars, engineVars
<1>2. /\ Len(raw) \in Nat \ {0} /\ Head(raw) \in Events /\ Tail(raw) \in Seq(Events)
      /\ Len(Tail(raw)) = Len(raw) - 1 /\ RawCapacity \in Nat
      /\ Len(events) \in Nat
  BY <1>1, EmptySeq, LenProperties, HeadTailProperties
<1>3. ASSUME NEW e \in Events, events' = Append(events, e), raw' = Tail(raw), ~transcribing'
      PROVE  InChannels' /\ Steps'
  <2>1. Append(events, e) \in Seq(Events) /\ Len(Append(events, e)) = Len(events) + 1
    BY <1>1, AppendProperties
  <2>2. Len(Tail(raw)) <= RawCapacity BY <1>1, <1>2
  <2>3. InChannels' BY <1>2, <1>3, <2>1, <2>2 DEF InChannels, Events
  <2>4. batch \in 0..Len(events') BY <1>2, <1>3, <2>1 DEF TypesInv, Steps
  <2> QED BY <1>1, <2>3, <2>4 DEF TypesInv, Steps
<1>4. CASE InferSkipsStale
  <2>1. raw' = Tail(raw) /\ ~transcribing' /\ events' = events
    BY <1>4 DEF InferSkipsStale
  <2>2. Len(Tail(raw)) <= RawCapacity BY <1>1, <1>2
  <2> QED BY <1>1, <1>2, <2>1, <2>2 DEF TypesInv, InChannels, Steps, Events
<1>5. CASE InferPasses BY <1>2, <1>3, <1>5 DEF InferPasses
<1>6. CASE InferTakesSegment
  BY <1>1, <1>6 DEF InferTakesSegment, TypesInv, InChannels, Steps, Events
<1>7. CASE InferTranscribes
  <2>1. PICK text \in BoundedSeq(Words, Head(raw).voiced) :
          events' = Append(events, [Head(raw) EXCEPT !.text = text])
    BY <1>7 DEF InferTranscribes
  <2>2. text \in Seq(Words)
    <3>1. PICK n \in 0..Head(raw).voiced : text \in [1..n -> Words]
      BY <2>1 DEF BoundedSeq, SeqOf
    <3>2. n \in Nat BY <1>2 DEF Events
    <3> QED BY <3>1, <3>2
  <2>3. [Head(raw) EXCEPT !.text = text] \in Events BY <1>2, <2>2 DEF Events
  <2> QED BY <1>3, <1>7, <2>1, <2>3 DEF InferTranscribes
<1> QED BY <1>4, <1>5, <1>6, <1>7 DEF Infer, InferForwards

LEMMA TickTypes ==
  ASSUME TypesInv, Tick
  PROVE  InChannels' /\ Steps'
<1>1. /\ UNCHANGED <<raw, transcribing, cpc>> /\ events \in Seq(Events) /\ <<>> \in Seq(Events)
      /\ Len(events) \in Nat /\ (events # <<>> => Len(events) >= 1) /\ Len(<<>>) = 0
      /\ cpc \in {"check", "drain"} /\ batch \in 0..Len(events)
      /\ (epc = "process") = (batch > 0)
  BY EmptySeq, LenProperties
     DEF Tick, TickListens, TickDiscards, TickSwitches, GateBumps, TickProcesses,
         engineKeeps, captureVars, TypesInv, InChannels, Steps
<1>2. ASSUME events' \in Seq(Events) PROVE InChannels'
  BY <1>1, <1>2 DEF TypesInv, InChannels, Events
<1>3. CASE TickListens \/ (GateBumps /\ enabled)
  <2>1. events' = events /\ Collects BY <1>3 DEF TickListens, GateBumps
  <2>2. /\ batch' = Len(events) /\ (events = <<>> => Len(events) = 0)
        /\ epc' = IF events = <<>> THEN "idle" ELSE "process"
    BY <1>1, <2>1 DEF Collects
  <2>3. Steps' BY <1>1, <2>1, <2>2 DEF Steps
  <2> QED BY <1>1, <1>2, <2>1, <2>3
<1>4. CASE TickDiscards \/ (GateBumps /\ ~enabled)
  <2>1. events' = <<>> /\ batch' = batch /\ epc' = "idle" /\ epc # "process"
    BY <1>4 DEF TickDiscards, GateBumps
  <2>2. batch = 0 BY <1>1, <2>1
  <2>3. Steps' BY <1>1, <2>1, <2>2 DEF Steps
  <2> QED BY <1>1, <1>2, <2>1, <2>3
<1>5. CASE TickSwitches
  <2>1. events' = events /\ batch' = batch /\ epc' = "bump" /\ epc # "process"
    BY <1>5 DEF TickSwitches
  <2> QED BY <1>1, <1>2, <2>1 DEF Steps
<1>6. CASE TickProcesses
  <2>1. events' = Tail(events) /\ batch' = batch - 1 /\ epc = "process"
        /\ epc' = IF batch = 1 THEN "idle" ELSE "process"
    BY <1>6 DEF TickProcesses
  <2>2. batch > 0 /\ batch \in Nat /\ events # <<>> BY <1>1, <2>1
  <2>3. Tail(events) \in Seq(Events) /\ Len(Tail(events)) = Len(events) - 1
    BY <1>1, <2>2, HeadTailProperties
  <2>4. Steps' BY <1>1, <2>1, <2>2, <2>3 DEF Steps
  <2> QED BY <1>2, <2>1, <2>3, <2>4
<1> QED BY <1>3, <1>4, <1>5, <1>6 DEF Tick

LEMMA TypesNext == ASSUME TypesInv, [Next]_vars PROVE TypesInv'
<1>1. TurnInv' BY TurnInvNext DEF TypesInv
<1>2. Counters' /\ Flags' BY CountersHold, FlagsHold
<1>3. InChannels' /\ Steps'
  <2>1. CASE Infer BY <2>1, InferTypes
  <2>2. CASE Tick BY <2>2, TickTypes
  <2>3. CASE Reload
    <3>1. /\ raw' = <<>> /\ events' = <<>> /\ transcribing' = FALSE /\ cpc' = "check"
          /\ UNCHANGED <<epc, batch>> /\ epc = "idle"
      BY <2>3 DEF Reload, FreshWorker
    <3>2. <<>> \in Seq(Events) /\ Len(<<>>) = 0 /\ RawCapacity \in Nat BY EmptySeq
    <3>3. batch = 0
      <4>1. (epc = "process") = (batch > 0) /\ batch \in Nat
        BY EmptySeq, LenProperties DEF TypesInv, Steps, InChannels
      <4> QED BY <3>1, <4>1
    <3>4. InChannels' BY <3>1, <3>2 DEF InChannels, Events
    <3> QED BY <3>1, <3>2, <3>3, <3>4 DEF Steps
  <2>4. CASE Capture
    <3>1. /\ UNCHANGED <<events, epc, batch, transcribing>>
          /\ cpc' = cpc \/ cpc' \in {"check", "drain"}
      BY <2>4 DEF Capture, CaptureDrains, CaptureCloses, CaptureOpens, CaptureNoSamples, CaptureFrame,
                  captureKeeps, engineVars
    <3>2. Steps' BY <3>1 DEF Steps, TypesInv
    <3>3. CASE CaptureCloses \/ CaptureOpens
      <4>1. raw' = raw BY <3>3 DEF CaptureCloses, CaptureOpens
      <4> QED BY <3>1, <3>2, <4>1 DEF InChannels, TypesInv, Events
    <3>4. CASE CaptureNoSamples
      <4>1. 0 \in 0..MaxVoiced /\ ring \in Nat
        BY DEF TypesInv, TurnInv, Inv, Captured
      <4>2. <<Event("Tick", 0, FALSE, ring)>> \in Seq(Events)
        BY <4>1, EventType, Singleton
      <4> QED BY <3>1, <3>2, <3>4, <4>2, SendTypes DEF CaptureNoSamples
    <3>5. CASE \E voice \in {0, 1} : CaptureFrame(voice) BY <3>2, <3>5, FrameTypes
    <3> QED BY <2>4, <3>3, <3>4, <3>5 DEF Capture, CaptureDrains
  <2>5. CASE VoiceStarts \/ VoiceStops \/ UNCHANGED vars
    <3>1. UNCHANGED <<raw, events, transcribing, cpc, epc, batch>>
      BY <2>5 DEF VoiceStarts, VoiceStops, captureVars, engineVars, vars
    <3> QED BY <3>1 DEF InChannels, Steps, TypesInv, Events
  <2> QED BY <2>1, <2>2, <2>3, <2>4, <2>5 DEF Next
<1> QED BY <1>1, <1>2, <1>3 DEF TypesInv

\* The variables stay in their ranges, the channels within their limits and an
\* utterance within the minute after which it is cut.
THEOREM HandsFreeTypes == Spec => []TypeOK
<1>1. Init => TypesInv
  <2> SUFFICES ASSUME Init PROVE TypesInv OBVIOUS
  <2>1. TurnInv BY TurnInvAtFirst
  <2>2. Flags BY Zenon DEF Init, Flags
  <2>3. <<>> \in Seq(Events) /\ Len(<<>>) = 0 /\ RawCapacity \in Nat BY EmptySeq
  <2>4. InChannels BY <2>3 DEF Init, InChannels
  <2>5. Steps BY <2>3 DEF Init, Steps
  <2>6. Counters BY DEF Init, Counters, NoSegment
  <2> QED BY <2>1, <2>2, <2>4, <2>5, <2>6 DEF TypesInv
<1>2. TypesInv => TypeOK
  <2> SUFFICES ASSUME TypesInv PROVE TypeOK OBVIOUS
  <2>1. {busy, enabled, mic, inSpeech, transcribing, capturing, sttActive, pendingEnter}
          \subseteq BOOLEAN
    BY Zenon DEF TypesInv, Flags
  <2>2. heard \in Seq(Words)
    <3>1. heard = IF pending = NoPending THEN buffer ELSE Append(buffer, pending.kind)
      BY DEF TypesInv, TurnInv, Turn, EveryWordIsKept
    <3>2. pending # NoPending => pending.kind \in Words
      BY DEF TypesInv, TurnInv, Turn, Words
    <3> QED BY <3>1, <3>2, AppendProperties DEF TypesInv, TurnInv, Turn
  <2>3. segment.voiced \in 0..MaxVoiced
    BY DEF TypesInv, Counters, TurnInv, Inv, Captured
  <2>4. /\ pending.kind \in StopWords \cup {Nothing} /\ pending.elapsed \in 0..(ConfirmTicks - 1)
        /\ voiced \in {"none", "spoke", "midspeech"} /\ buffer \in Seq(Words)
    BY DEF TypesInv, TurnInv, Turn
  <2>5. ring \in Nat BY DEF TypesInv, TurnInv, Inv, Captured
  <2>6. {epoch, active} \subseteq Nat \ {0} BY DEF TypesInv, Counters
  <2> QED BY <2>1, <2>2, <2>3, <2>4, <2>5, <2>6
          DEF TypeOK, TypesInv, Counters, Steps, InChannels
<1> QED BY <1>1, <1>2, TypesNext, PTL DEF Spec
==============================================================================
