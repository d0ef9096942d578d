------------------------------ MODULE Narration ------------------------------
(***************************************************************************)
(* From the text a coding agent displays to the lines its voice queue      *)
(* accepts (ds-narrate: Accum, step, deliver_batch, with_state_lock; the   *)
(* MessageDisplay and Stop hooks; TtsQueue::enqueue_narration).            *)
(*                                                                         *)
(* Every batch of a message runs a process of its own; the processes meet  *)
(* in a state file guarded by a lock file.  The holder selects the lines   *)
(* the batch completes, saves them as pending, and offers them one by one  *)
(* to the engine, which may refuse, or accept and fail to say so.  A       *)
(* process may die anywhere, waits for the lock only so long, and removes  *)
(* one that is old, whoever is inside; and the disk may fail it.           *)
(*                                                                         *)
(* A text is a sequence of fragments and line ends; a line that does not   *)
(* begin with Prose is a block quote.  Batch k of a message shows the text *)
(* from where the batch before it ended up to its own end, or all of it up *)
(* to there when it is a snapshot.  The language corpus sent along with a  *)
(* line is left out, and so is gate_set: no message has the key NoKey.     *)
(* Narration of shorts is on throughout; that of digests may change.       *)
(***************************************************************************)
EXTENDS Integers, FiniteSetsExt, SequencesExt

CONSTANTS Fragments,      \* what texts are made of
          Text,           \* the messages of one session, in order
          Batches,        \* their batches, [upTo, whole]; the last is final
          Procs,          \* hook processes alive at once
          AcceptedMax,    \* narration ids the engine remembers
          MaxUpsets       \* bound: batches that come again, changes of the
                          \* microphone or the setting, deaths of a process,
                          \* spins given up, locks found stale, disk errors

Keys  == DOMAIN Text
NoKey == 0
NL    == "nl"
Prose == "prose"

IsFinal(m, k) == k = Len(Batches[m])

\* The batches of a message are cut from one text.  Chunks after a snapshot do
\* not make up a message, so it ends in a snapshot if it has one (debug_assert
\* in Accum::feed).  A blank snapshot counts as an empty chunk and is left out.
ASSUME NarrationAssumption ==
  /\ Text \in Seq(Seq(Fragments))
  /\ Batches \in Seq(Seq([upTo : Nat, whole : BOOLEAN]))
  /\ Len(Batches) = Len(Text)
  /\ \A m \in Keys :
       /\ Batches[m] # <<>>
       /\ \A j, k \in DOMAIN Batches[m] :
            /\ j <= k => Batches[m][j].upTo <= Batches[m][k].upTo
            /\ IsFinal(m, k) => Batches[m][k].upTo = Len(Text[m])
            /\ IsFinal(m, k) /\ Batches[m][j].whole => Batches[m][k].whole
            /\ Batches[m][k].whole => \E i \in 1..Batches[m][k].upTo : Text[m][i] # NL
  /\ AcceptedMax \in Nat \ {0} /\ MaxUpsets \in Nat

Max2(a, b) == IF a > b THEN a ELSE b

\* The members of a set of numbers in increasing order: SetToSortSeq, said by
\* rank and not through the permutations of the set.
Ascending(S) ==
  [n \in 1..Cardinality(S) |-> CHOOSE i \in S : Cardinality({j \in S : j <= i}) = n]

-----------------------------------------------------------------------------
(* Which lines are speakable: all_blockquotes_state and Accum.             *)

LineEnd(s, i) == Max({j \in i..Len(s) : \A k \in i..j : s[k] # NL})

Starts(s) == {i \in DOMAIN s : s[i] \notin {NL, Prose} /\ (i > 1 => s[i - 1] = NL)}

\* The block quotes of a text, the last one complete once its line has ended.
Quotes(s, final) ==
  LET at == Ascending(Starts(s))
  IN  [n \in DOMAIN at |-> [text     |-> SubSeq(s, at[n], LineEnd(s, at[n])),
                            complete |-> final \/ LineEnd(s, at[n]) < Len(s)]]

Leading(quotes) == Cardinality({n \in DOMAIN quotes : \A i \in 1..n : quotes[i].complete})

\* Where in the text of m its batch k begins and ends.
Slice(m, k) == (IF k = 1 THEN 1 ELSE Batches[m][k - 1].upTo + 1)..Batches[m][k].upTo

\* The chunks ks of m put together in the order of their indices.
Joined(m, ks) ==
  LET at == Ascending(UNION {Slice(m, k) : k \in ks})
  IN  [n \in DOMAIN at |-> Text[m][at[n]]]

\* What batch k of m says with the chunks ks.
Shown(m, k, ks) ==
  IF Batches[m][k].whole THEN SubSeq(Text[m], 1, Batches[m][k].upTo) ELSE Joined(m, ks)

\* The indices before the first gap.
Dense(parts) == {k \in parts : 1..k \subseteq parts}

\* Wrong on purpose: lines behind a gap count as well.
SpeakableBeyondGaps(m, parts, text, final) == Leading(Quotes(text, final))

\* How many lines may be spoken: the complete ones in front, before the final
\* batch those before the first gap only.
Speakable(m, parts, text, final) ==
  IF final \/ Dense(parts) = parts
    THEN Leading(Quotes(text, final))
    ELSE Min({Leading(Quotes(text, final)),
              Leading(Quotes(Joined(m, Dense(parts)), FALSE))})

\* parts: the indices of the chunks held, whose texts those are.
Accum0 == [parts |-> {}, seenFinal |-> FALSE, emitted |-> 0, shortDone |-> FALSE]

\* Accum::feed: the accumulator after batch k of m, and what it selects.
Feed(acc, m, k, digests) ==
  LET final   == acc.seenFinal \/ IsFinal(m, k)
      parts   == IF Batches[m][k].whole THEN acc.parts ELSE acc.parts \cup {k}
      text    == Shown(m, k, parts)
      quotes  == Quotes(text, final)
      upTo    == Speakable(m, parts, text, final)
      emitted == Max2(upTo, acc.emitted)
      short   == final /\ quotes = <<>> /\ ~acc.shortDone
  IN  [acc |-> [parts     |-> IF final /\ emitted >= Len(quotes) THEN {} ELSE parts,
                seenFinal |-> final,
                emitted   |-> emitted,
                shortDone |-> acc.shortDone \/ short],
       speak |-> IF short /\ ToSet(text) \ {NL} # {} THEN <<text>>
                 ELSE IF digests
                 THEN [n \in 1..(upTo - acc.emitted) |-> quotes[acc.emitted + n].text]
                 ELSE <<>>]

-----------------------------------------------------------------------------
(* The state file of the session (DisplayState) and one batch's effect.    *)

Short == 0    \* DeliveryCheckpoint: an offset, or the short of the message

Fresh == [offset |-> 0, key |-> NoKey, parts |-> {}, seenFinal |-> FALSE,
          shortDone |-> FALSE, gateMsg |-> NoKey, gateOn |-> FALSE, pending |-> <<>>]

\* Wrong on purpose: the mark of a pending line is one too far.
PassedTooFar(state, u) ==
  IF state.key # u.key THEN state
  ELSE IF u.after = Short THEN [state EXCEPT !.shortDone = TRUE]
  ELSE [state EXCEPT !.offset = Max2(@, u.after + 1)]

\* A pending utterance passed its checkpoint, in the state of its own message.
Passed(state, u) ==
  IF state.key # u.key THEN state
  ELSE IF u.after = Short THEN [state EXCEPT !.shortDone = TRUE]
  ELSE [state EXCEPT !.offset = Max2(@, u.after)]

\* What counts as selected: the saved marks and those of the pending lines.
Shadow(state) ==
  LET marks == {u.after : u \in {v \in ToSet(state.pending) : v.key = state.key}}
  IN  [state EXCEPT !.offset    = Max({state.offset} \cup marks),
                    !.shortDone = state.shortDone \/ Short \in marks]

GateOpen(state, m, mic) == IF state.gateMsg = m THEN state.gateOn ELSE ~mic

\* Wrong on purpose: the state of a gated message forgets what is pending.
GatedForgetting(state, m) == [Fresh EXCEPT !.gateMsg = m]

\* A gated message leaves nothing but the gate and what was pending.
Gated(state, m) == [Fresh EXCEPT !.gateMsg = m, !.pending = state.pending]

\* The accumulator a batch of m is fed to: another message's is dropped.
AccumOf(state, m) ==
  IF state.key = m
    THEN [parts |-> state.parts, seenFinal |-> state.seenFinal,
          emitted |-> state.offset, shortDone |-> state.shortDone]
    ELSE Accum0

\* The selected lines become pending, each with the mark it commits.  The
\* offset moves by itself when nothing is to be admitted for it.
Selected(state, m, k, digests) ==
  LET acc    == AccumOf(Shadow(state), m)
      fed    == Feed(acc, m, k, digests)
      blocks == fed.acc.emitted - acc.emitted
      new    == [n \in DOMAIN fed.speak |->
                   [key |-> m, text |-> fed.speak[n],
                    after |-> IF blocks = 0 THEN Short ELSE acc.emitted + n]]
      pending == state.pending \o new
      saved   == AccumOf(state, m)
  IN  [offset    |-> IF new = <<>> THEN fed.acc.emitted ELSE saved.emitted,
       key       |-> m,
       parts     |-> fed.acc.parts,
       seenFinal |-> fed.acc.seenFinal,
       shortDone |-> \/ saved.shortDone
                     \/ /\ fed.acc.shortDone /\ ~acc.shortDone
                        /\ ~\E u \in ToSet(pending) : u.key = m /\ u.after = Short,
       gateMsg   |-> m,
       gateOn    |-> TRUE,
       pending   |-> pending]

-----------------------------------------------------------------------------
VARIABLES
  file,      \* the state file: a DisplayState
  lock,      \* the lock file exists
  proc,      \* each hook process: [pc, batch, mic, digests, held, mem]
  sent,      \* the batches the client has delivered for the first time
  micActive, \* a recording is on: ds_platform::is_mic_active
  digestsOn, \* the narrate setting
  accepted,  \* AcceptedNarrations: ids, oldest first
  spoken,    \* the narrations the engine has enqueued, of each message
  counted,   \* history: the batches whose effect was written
  fate,      \* history: how each message went, see Outcome
  hushed,    \* history: lines consumed while the setting was off
  patient,   \* history: no waiter has gone in, or removed a lock, on a time-out
  sound,     \* history: no two processes have been inside at once, and the
             \* disk has failed none
  upsets     \* how many of MaxUpsets have happened

vars == <<file, lock, proc, sent, micActive, digestsOn, accepted, spoken,
          counted, fate, hushed, patient, sound, upsets>>

Upset == upsets < MaxUpsets /\ upsets' = upsets + 1

\* The disk serves a step, or fails it: a state that cannot be read counts as a
\* fresh one, and the failure to write one is only logged.
Disk(serves) ==
  IF serves THEN UNCHANGED <<sound, upsets>> ELSE Upset /\ sound' = FALSE

\* The batches of the session, and the order in which the client sends them.
AllBatches == UNION {{m} \X DOMAIN Batches[m] : m \in Keys}
Precedes(a, b) == a[1] < b[1] \/ (a[1] = b[1] /\ a[2] < b[2])

NoBatch == <<NoKey, 0>>

Idle == [pc |-> "idle", batch |-> NoBatch, mic |-> FALSE, digests |-> FALSE,
         held |-> FALSE, mem |-> Fresh]

Inside(p) == proc[p].pc \in {"entered", "offer", "commit", "leave"}

\* What a message promises, told from its whole text: a line for each block
\* quote, or its text for a short that is not blank.
Line(m, n) ==
  [key |-> m, after |-> n,
   text |-> IF n = Short THEN Text[m] ELSE Quotes(Text[m], TRUE)[n].text]

Marks(m) ==
  IF Quotes(Text[m], TRUE) # <<>> THEN DOMAIN Quotes(Text[m], TRUE)
  ELSE IF ToSet(Text[m]) \subseteq {NL} THEN {} ELSE {Short}

-----------------------------------------------------------------------------
Init ==
  /\ file = Fresh /\ lock = FALSE
  /\ proc = [p \in Procs |-> Idle]
  /\ sent = {} /\ micActive = FALSE /\ digestsOn = TRUE
  /\ accepted = <<>> /\ spoken = [m \in Keys |-> <<>>]
  /\ counted = {} /\ fate = [m \in Keys |-> "new"] /\ hushed = {}
  /\ patient = TRUE /\ sound = TRUE /\ upsets = 0

Start(p, batch) ==
  /\ proc[p].pc = "idle"
  /\ proc' = [proc EXCEPT ![p] = [Idle EXCEPT !.pc = "spin", !.batch = batch,
                                              !.mic = micActive, !.digests = digestsOn]]

\* The client delivers its next batch (message_display); the process reads the
\* setting and the microphone before it goes for the lock.
Deliver(p) ==
  /\ \E next \in AllBatches \ sent :
       /\ \A batch \in AllBatches : Precedes(batch, next) => batch \in sent
       /\ Start(p, next)
       /\ sent' = sent \cup {next}
  /\ UNCHANGED <<file, lock, micActive, digestsOn, accepted, spoken, counted,
                 fate, hushed, patient, sound, upsets>>

\* A batch comes a second time (a client that reconnects and replays).
Repeat(p) ==
  /\ Upset
  /\ \E batch \in sent : Start(p, batch)
  /\ UNCHANGED <<file, lock, sent, micActive, digestsOn, accepted, spoken,
                 counted, fate, hushed, patient, sound>>

\* A Stop hook retries what is pending (retry_pending); without pending lines
\* it changes nothing.
Retry(p) ==
  /\ file.pending # <<>>
  /\ Start(p, NoBatch)
  /\ UNCHANGED <<file, lock, sent, micActive, digestsOn, accepted, spoken,
                 counted, fate, hushed, patient, sound, upsets>>

Enter(p, held) ==
  /\ proc[p].pc = "spin"
  /\ proc' = [proc EXCEPT ![p].pc = "entered", ![p].held = held]
  /\ sound' = (sound /\ \A q \in Procs : ~Inside(q))

\* with_state_lock: the lock file is created if it is not there.
Acquire(p) ==
  /\ ~lock /\ lock' = TRUE
  /\ Enter(p, TRUE)
  /\ UNCHANGED <<file, sent, micActive, digestsOn, accepted, spoken, counted,
                 fate, hushed, patient, upsets>>

\* SPIN_TRIES are used up: the process goes on without the lock, whether its
\* owner is dead or slow or the file cannot be made, and whether or not another
\* waiter has done the same.
GiveUp(p) ==
  /\ Upset
  /\ Enter(p, FALSE)
  /\ patient' = FALSE
  /\ UNCHANGED <<file, lock, sent, micActive, digestsOn, accepted, spoken,
                 counted, fate, hushed>>

\* A waiter finds the lock older than STALE_MS ...
FindStale(p) ==
  /\ lock /\ Upset
  /\ proc[p].pc = "spin"
  /\ proc' = [proc EXCEPT ![p].pc = "breaking"]
  /\ UNCHANGED <<file, lock, sent, micActive, digestsOn, accepted, spoken,
                 counted, fate, hushed, patient, sound>>

\* ... and removes the lock file, by then perhaps the fresh one of another.
BreakStale(p) ==
  /\ proc[p].pc = "breaking"
  /\ proc' = [proc EXCEPT ![p].pc = "spin"]
  /\ lock' = FALSE /\ patient' = FALSE
  /\ UNCHANGED <<file, sent, micActive, digestsOn, accepted, spoken, counted,
                 fate, hushed, sound, upsets>>

\* A batch of a message that is closed starts a buffer of its own, and the final
\* flag stays.  It is silent as long as it shows no more block quotes than were
\* selected; and if it shows none, it is a short that was not told.
Outruns(m, k) ==
  LET acc   == AccumOf(Shadow(file), m)
      shown == Quotes(Shown(m, k, {k}), TRUE)
  IN  acc.seenFinal /\ IF shown = <<>> THEN ~acc.shortDone ELSE Len(shown) > acc.emitted

\* How the message of a batch goes once the batch is counted: it is gated as a
\* whole by the microphone; it is holed when its final chunk comes before an
\* earlier one, when it comes back after another message took the file, or when
\* a batch that comes in after the final one is told again.
Outcome(m, k, mic) ==
  IF \/ fate[m] = "holed"
     \/ fate[m] # "new" /\ file.gateMsg # m
     \/ /\ IsFinal(m, k) /\ ~Batches[m][k].whole
        /\ \E i \in 1..(k - 1) : <<m, i>> \notin counted
     \/ Outruns(m, k)
    THEN "holed"
  ELSE IF GateOpen(file, m, mic) THEN "open" ELSE "gated"

\* deliver_batch up to the write before the first offer.
SelectLines(p) ==
  /\ proc[p].pc = "entered" /\ proc[p].batch # NoBatch
  /\ \E prev \in {file, Fresh}, written \in BOOLEAN :
       LET m    == proc[p].batch[1]
           k    == proc[p].batch[2]
           next == IF GateOpen(prev, m, proc[p].mic)
                     THEN Selected(prev, m, k, proc[p].digests)
                     ELSE Gated(prev, m)
       IN  /\ Disk(prev = file /\ written)
           /\ file' = IF written THEN next ELSE file
           /\ proc' = [proc EXCEPT ![p].pc = "offer", ![p].mem = next]
           /\ counted' = counted \cup {<<m, k>>}
           /\ fate' = [fate EXCEPT ![m] = Outcome(m, k, proc[p].mic)]
           /\ hushed' = IF proc[p].digests \/ next.key # m THEN hushed
                        ELSE hushed \cup {<<m, n>> :
                               n \in (AccumOf(Shadow(prev), m).emitted + 1)..next.offset}
  /\ UNCHANGED <<lock, sent, micActive, digestsOn, accepted, spoken, patient>>

\* retry_pending reads the file; admit_pending works on what was read.
ReadPending(p) ==
  /\ proc[p].pc = "entered" /\ proc[p].batch = NoBatch
  /\ \E read \in {file, Fresh} :
       /\ Disk(read = file)
       /\ proc' = [proc EXCEPT ![p].pc = "offer", ![p].mem = read]
  /\ UNCHANGED <<file, lock, sent, micActive, digestsOn, accepted, spoken,
                 counted, fate, hushed, patient>>

\* AcceptedNarrations::insert
Remember(id) ==
  LET all == Append(accepted, id) IN IF Len(all) > AcceptedMax THEN Tail(all) ELSE all

\* enqueue_narration: an id seen before is a success whatever the queue holds.
EnqueueNarration(u) ==
  IF Contains(accepted, u) THEN UNCHANGED <<accepted, spoken>>
  ELSE /\ accepted' = Remember(u)
       /\ spoken' = [spoken EXCEPT ![u.key] = Append(@, u)]

\* The head of the pending lines is offered.  The engine takes it and says
\* so, or takes it and the answer is lost; or it refuses: its queue is full,
\* or it does not run.
Offer(p) ==
  /\ proc[p].pc = "offer" /\ proc[p].mem.pending # <<>>
  /\ \/ /\ EnqueueNarration(Head(proc[p].mem.pending))
        /\ \E pc \in {"commit", "leave"} : proc' = [proc EXCEPT ![p].pc = pc]
     \/ /\ proc' = [proc EXCEPT ![p].pc = "leave"]
        /\ UNCHANGED <<accepted, spoken>>
  /\ UNCHANGED <<file, lock, sent, micActive, digestsOn, counted, fate, hushed,
                 patient, sound, upsets>>

\* admit_pending: the admitted head is dropped and its mark committed.
Admitted(state) ==
  LET u == Head(state.pending) IN Passed([state EXCEPT !.pending = Tail(@)], u)

Commit(p) ==
  /\ proc[p].pc = "commit"
  /\ \E written \in BOOLEAN :
       /\ Disk(written)
       /\ file' = IF written THEN Admitted(proc[p].mem) ELSE file
  /\ proc' = [proc EXCEPT ![p].pc = "offer", ![p].mem = Admitted(@)]
  /\ UNCHANGED <<lock, sent, micActive, digestsOn, accepted, spoken, counted,
                 fate, hushed, patient>>

\* The lock file is removed, even if by now it is another's.
Leave(p) ==
  /\ \/ proc[p].pc = "leave"
     \/ proc[p].pc = "offer" /\ proc[p].mem.pending = <<>>
  /\ lock' = (lock /\ ~proc[p].held)
  /\ proc' = [proc EXCEPT ![p] = Idle]
  /\ UNCHANGED <<file, sent, micActive, digestsOn, accepted, spoken, counted,
                 fate, hushed, patient, sound, upsets>>

\* A process dies: the lock file it made stays.
Crash(p) ==
  /\ Upset
  /\ proc[p].pc # "idle"
  /\ proc' = [proc EXCEPT ![p] = Idle]
  /\ UNCHANGED <<file, lock, sent, micActive, digestsOn, accepted, spoken,
                 counted, fate, hushed, patient, sound>>

Flip ==
  /\ Upset
  /\ \/ micActive' = ~micActive /\ UNCHANGED digestsOn
     \/ digestsOn' = ~digestsOn /\ UNCHANGED micActive
  /\ UNCHANGED <<file, lock, proc, sent, accepted, spoken, counted, fate,
                 hushed, patient, sound>>

Next ==
  \/ \E p \in Procs :
       \/ Deliver(p) \/ Repeat(p) \/ Retry(p)
       \/ Acquire(p) \/ GiveUp(p) \/ FindStale(p) \/ BreakStale(p)
       \/ SelectLines(p) \/ ReadPending(p)
       \/ Offer(p) \/ Commit(p) \/ Leave(p) \/ Crash(p)
  \/ Flip

Spec == Init /\ [][Next]_vars

-----------------------------------------------------------------------------
\* The state file, and each copy of it, is a state of the session: chunks of its
\* message, pending lines of messages, and, while the file is sound, an offset within the
\* lines of its message unless that is holed.
Utterances == [key : Keys, text : Seq(Fragments), after : Nat]

States == [offset : Nat, key : Keys \cup {NoKey}, parts : SUBSET Nat,
           seenFinal : BOOLEAN, shortDone : BOOLEAN, gateMsg : Keys \cup {NoKey},
           gateOn : BOOLEAN, pending : Seq(Utterances)]

StateOK(state) ==
  /\ state \in States
  /\ IF state.key = NoKey THEN state.offset = 0 /\ state.parts = {}
     ELSE /\ state.parts \subseteq DOMAIN Batches[state.key]
          /\ sound /\ fate[state.key] # "holed" => state.offset \in {0} \cup Marks(state.key)

\* Types of every variable (DisplayState, Accum, AcceptedNarrations, and what a
\* hook process holds).
TypeOK ==
  /\ StateOK(file)
  /\ proc \in [Procs -> [pc : {"idle", "spin", "breaking", "entered", "offer", "commit", "leave"},
                         batch : sent \cup {NoBatch}, mic : BOOLEAN,
                         digests : BOOLEAN, held : BOOLEAN, mem : States]]
  /\ \A p \in Procs : StateOK(proc[p].mem)
  /\ lock \in BOOLEAN /\ micActive \in BOOLEAN /\ digestsOn \in BOOLEAN
  /\ sent \subseteq AllBatches /\ counted \subseteq sent
  /\ fate \in [Keys -> {"new", "open", "gated", "holed"}]
  /\ accepted \in Seq(Utterances) /\ Len(accepted) <= AcceptedMax
  /\ spoken \in [Keys -> Seq(Utterances)]
  /\ patient \in BOOLEAN /\ sound \in BOOLEAN
  /\ upsets \in 0..MaxUpsets

\* The lines of m a listener is owed: not those consumed while narration of
\* digests was off.
Owed(m) ==
  LET kept == Ascending({n \in Marks(m) : <<m, n>> \notin hushed})
  IN  [i \in DOMAIN kept |-> Line(m, kept[i])]

\* The engine is handed each completed line of a message once and in document
\* order, skipping none, and nothing of a message the microphone has gated:
\* whatever the order and the number of times its batches come in (the cases of
\* Outcome aside), whichever process dies where and whoever takes over from it,
\* however often a line is refused, or taken without an answer (Accum,
\* DeliveryCheckpoint, the stable id, AcceptedNarrations).  It lasts until two
\* processes have been inside at once, which with_state_lock does not exclude,
\* or the disk has failed one.
OnceInDocumentOrder ==
  sound =>
    \A m \in Keys :
      /\ fate[m] \in {"new", "gated"} => spoken[m] = <<>>
      /\ fate[m] = "open" => IsPrefix(spoken[m], Owed(m))

\* Nothing is lost, whoever dies where: once the final batch of a message has
\* been counted, each of its lines has been spoken or waits in the state file
\* for the next process (write_state before the first offer, mark and pending
\* in one file).  Until the same moment.
NothingForgotten ==
  sound =>
    \A m \in Keys :
      fate[m] = "open" /\ <<m, Len(Batches[m])>> \in counted =>
        ToSet(Owed(m)) \subseteq ToSet(spoken[m]) \cup ToSet(file.pending)

\* A process inside has the lock file to itself.
Owner(p) == lock /\ proc[p].held /\ \A q \in Procs : Inside(q) => q = p

\* What with_state_lock is for ("Lock through admission so races don't
\* double-offer"), and what it gives: until a waiter's patience has run out, each
\* process inside has made the lock file, and is there alone, owners that died
\* included.
LockKeepsApart == patient => \A p \in Procs : Inside(p) => Owner(p)

=============================================================================
