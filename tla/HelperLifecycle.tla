--------------------------- MODULE HelperLifecycle ---------------------------
(* The life of the warm ds-helper process in the engine's TtsManager         *)
(* (dontspeakd/src/tts/mod.rs, child_slot.rs, tts/reader.rs).                *)
(*                                                                           *)
(* One mutex, `lifecycle`, serializes starting and tearing down the child.   *)
(* What a request needs -- the slot's generation, the stdin pipe, the        *)
(* answer slots -- is read and written without it, so every store of a start *)
(* or a teardown that a request can see is a step of its own here.           *)
(*                                                                           *)
(* A thread calls one operation at a time: play, cue, listen, capture        *)
(* (diarize and enroll share one shape), start (ensure_started), stop        *)
(* (stop_child), reload (reload_models, restart_child) and heal              *)
(* (restart_if_crashed).  Model residency, stats, mute, the spawn            *)
(* preferences and the content of requests are left out.  A request is       *)
(* written under the lock of stdin, and a helper that no longer reads leaves *)
(* its writer there, in the middle of the line, for as long as it lives.     *)
EXTENDS Naturals, FiniteSets

CONSTANTS
  Threads,    \* threads of the engine that use the manager
  OpsOf,      \* OpsOf[t]: the operations thread t calls
  NoThread,   \* a value that is not a thread
  MaxSpawns,  \* bound: processes spawned
  MaxCalls,   \* bound: operations called
  MaxCrashes  \* bound: processes that fail of themselves

Kinds == {"play", "cue", "listen", "capture"}
Ops == Kinds \cup {"start", "stop", "reload", "heal"}

\* Why a thread takes the lifecycle mutex.
Wants == {"none", "start", "stop", "dead", "deadIfCurrent", "heal"}

ASSUME LifecycleAssumption ==
  /\ NoThread \notin Threads
  /\ OpsOf \in [Threads -> SUBSET Ops]
  /\ MaxSpawns \in Nat
  /\ MaxCalls \in Nat
  /\ MaxCrashes \in Nat

Procs == 1..MaxSpawns
NoProc == 0

VARIABLES
  lifecycle,    \* who holds the lifecycle mutex
  child,        \* ChildCell.child: the process in the slot
  generation,   \* ChildCell.generation
  expectedEof,  \* ChildSlot.expected_eof
  stdin,        \* the process whose stdin the manager holds
  reader,       \* TtsManager.reader: whose reader the next teardown joins
  readerPc,     \* the demux reader of each process' stdout
  lastError,    \* last_error is set
  slot,         \* the answer slots the reader fills: [done, dead]
  lease,        \* listen_lease and cue_lease
  thr,          \* per thread: where it is, and its locals
  proc,         \* what the operating system knows of each process
  asked,        \* requests in a process or its pipe, not answered
  spawned,      \* processes spawned so far
  crashed,      \* processes that died of themselves, or whose output broke
  reported,     \* processes whose end the reader reported as unexpected
  calls         \* operations called so far

vars == <<lifecycle, child, generation, expectedEof, stdin, reader, readerPc,
          lastError, slot, lease, thr, proc, asked, spawned, crashed,
          reported, calls>>

slotVars == <<child, generation, expectedEof, stdin>>
readerVars == <<reader, readerPc, reported>>
worldVars == <<proc, asked, spawned, crashed>>

\* Steps a thread takes while it holds the mutex.
Section == {"begin", "unwire", "reap", "kill", "join",
            "spawn", "handshake", "unmark", "wire", "read"}
Steps == Section \cup
  {"idle", "ensure", "lock", "check", "lease", "gen", "reset", "write",
   "blocked", "wait"}

CallState == [pc : Steps, op : Ops, want : Wants, gen : 0..MaxSpawns,
              mine : 0..MaxSpawns, sentTo : 0..MaxSpawns]

EmptySlot == [done |-> FALSE, dead |-> FALSE]
\* `mine` is the process this thread is starting or tearing down; `sentTo` is
\* the process its request was written to, which the code does not keep.
Resting == [pc |-> "idle", op |-> "start", want |-> "none", gen |-> 0,
            mine |-> NoProc, sentTo |-> NoProc]

\* The lock of stdin is held across a write: until it ends, when it is blocked.
StdinFree == \A t \in Threads : thr[t].pc # "blocked"

Alive(p) == p # NoProc /\ proc[p] \in {"starting", "up"}

TypeOK ==
  /\ lifecycle \in Threads \cup {NoThread}
  /\ child \in 0..MaxSpawns
  /\ generation \in 0..MaxSpawns
  /\ expectedEof \in BOOLEAN
  /\ stdin \in 0..MaxSpawns
  /\ reader \in 0..MaxSpawns
  /\ readerPc \in [Procs -> {"none", "reading", "classify", "done"}]
  /\ lastError \in BOOLEAN
  /\ slot \in [Kinds -> [done : BOOLEAN, dead : BOOLEAN]]
  /\ lease \in [{"cue", "listen"} -> Threads \cup {NoThread}]
  /\ thr \in [Threads -> CallState]
  /\ proc \in [Procs -> {"none", "starting", "up", "exited"}]
  /\ asked \in [Procs -> SUBSET Kinds]
  /\ spawned \in 0..MaxSpawns
  /\ crashed \subseteq Procs
  /\ reported \subseteq Procs
  /\ calls \in 0..MaxCalls

Init ==
  /\ lifecycle = NoThread
  /\ child = NoProc /\ generation = 0 /\ expectedEof = FALSE
  /\ stdin = NoProc
  /\ reader = NoProc /\ readerPc = [p \in Procs |-> "none"]
  /\ lastError = FALSE
  /\ slot = [k \in Kinds |-> EmptySlot]
  /\ lease = [k \in {"cue", "listen"} |-> NoThread]
  /\ thr = [t \in Threads |-> Resting]
  /\ proc = [p \in Procs |-> "none"]
  /\ asked = [p \in Procs |-> {}]
  /\ spawned = 0 /\ crashed = {} /\ reported = {}
  /\ calls = 0

-----------------------------------------------------------------------------
(* Calls.                                                                    *)

Goto(t, pc) == thr' = [thr EXCEPT ![t].pc = pc]

\* Leave for the mutex to do `want`.
LockFor(t, want) == thr' = [thr EXCEPT ![t].pc = "lock", ![t].want = want]

\* The call returns; its lease is dropped.
Return(t) ==
  /\ thr' = [thr EXCEPT ![t] = Resting]
  /\ lease' = [k \in DOMAIN lease |->
                 IF lease[k] = t THEN NoThread ELSE lease[k]]

\* An operation is called.  listen tries its lease and fails if it is taken
\* (it then returns at once: not a step here); cue waits for its own.
Call(t, op) ==
  /\ thr[t].pc = "idle" /\ op \in OpsOf[t]
  /\ calls < MaxCalls
  /\ op = "listen" => lease["listen"] = NoThread
  /\ calls' = calls + 1
  /\ lease' = [lease EXCEPT !["listen"] = IF op = "listen" THEN t ELSE @]
  /\ LET pc == CASE op \in {"start", "listen", "capture"} -> "ensure"
                 [] op = "reload" -> IF child = NoProc THEN "ensure" ELSE "lock"
                 [] op \in {"stop", "heal"} -> "lock"
                 [] op = "play" -> "reset"
                 [] op = "cue" -> "lease"
     IN thr' = [thr EXCEPT ![t] = [Resting EXCEPT
                  !.pc = pc, !.op = op,
                  !.want = CASE op = "heal" -> "heal"
                             [] op \in {"stop", "reload"} -> "stop"
                             [] OTHER -> "none"]]
  /\ UNCHANGED <<lifecycle, slotVars, readerVars, lastError, slot, worldVars>>

\* ensure_started looks at the slot without the mutex.
Ensure(t) ==
  /\ thr[t].pc = "ensure"
  /\ IF child = NoProc
     THEN LockFor(t, "start") /\ UNCHANGED lease
     ELSE IF thr[t].op \in Kinds
     THEN Goto(t, "check") /\ UNCHANGED lease
     ELSE Return(t)
  /\ UNCHANGED <<lifecycle, slotVars, readerVars, lastError, slot, worldVars,
                 calls>>

\* A listen or a capture fails when the start did not succeed.
Check(t) ==
  /\ thr[t].pc = "check"
  /\ IF child = NoProc THEN Return(t)
                       ELSE Goto(t, "reset") /\ UNCHANGED lease
  /\ UNCHANGED <<lifecycle, slotVars, readerVars, lastError, slot, worldVars,
                 calls>>

TakeCueLease(t) ==
  /\ thr[t].pc = "lease" /\ lease["cue"] = NoThread
  /\ lease' = [lease EXCEPT !["cue"] = t]
  /\ Goto(t, "gen")
  /\ UNCHANGED <<lifecycle, slotVars, readerVars, lastError, slot, worldVars,
                 calls>>

\* running_gen: the generation this request belongs to.  play takes it after
\* it has emptied its slot, cue before.
TakeGeneration(t) ==
  /\ thr[t].pc = "gen"
  /\ IF child = NoProc
     THEN Return(t)
     ELSE /\ thr' = [thr EXCEPT ![t].gen = generation,
                       ![t].pc = IF thr[t].op = "cue" THEN "reset" ELSE "write"]
          /\ UNCHANGED lease
  /\ UNCHANGED <<lifecycle, slotVars, readerVars, lastError, slot, worldVars,
                 calls>>

ResetSlot(t) ==
  /\ thr[t].pc = "reset"
  /\ slot' = [slot EXCEPT ![thr[t].op] = EmptySlot]
  /\ Goto(t, IF thr[t].op = "play" THEN "gen" ELSE "write")
  /\ UNCHANGED <<lifecycle, slotVars, readerVars, lastError, lease, worldVars,
                 calls>>

\* write_request, under the lock of stdin: an error when the pipe is gone or
\* its process has exited, and every kind of request then marks the child dead
\* unconditionally.  The write blocks when the helper has left its pipe full.
WriteRequest(t) ==
  /\ thr[t].pc = "write" /\ StdinFree
  /\ \/ /\ stdin # NoProc /\ proc[stdin] = "up"
        /\ thr' = [thr EXCEPT ![t].pc = "wait", ![t].sentTo = stdin]
        /\ asked' = [asked EXCEPT ![stdin] = @ \cup {thr[t].op}]
     \/ /\ stdin # NoProc /\ proc[stdin] = "up"
        /\ thr' = [thr EXCEPT ![t].pc = "blocked", ![t].sentTo = stdin]
        /\ UNCHANGED asked
     \/ /\ stdin # NoProc => proc[stdin] # "up"
        /\ LockFor(t, "dead")
        /\ UNCHANGED asked
  /\ UNCHANGED <<lifecycle, slotVars, readerVars, lastError, slot, lease, proc,
                 spawned, crashed, calls>>

\* A blocked write fails when its process is gone: the pipe is broken.
WriteBreaks(t) ==
  /\ thr[t].pc = "blocked" /\ proc[thr[t].sentTo] = "exited"
  /\ LockFor(t, "dead")
  /\ UNCHANGED <<lifecycle, slotVars, readerVars, lastError, slot, lease,
                 worldVars, calls>>

\* Which teardown a waiter that saw its child die, or timed out, asks for.
DeathVerdict(op) ==
  IF op \in {"play", "cue"} THEN "deadIfCurrent" ELSE "dead"

\* play and cue look at `fatal`/`dead` first, listen and capture take the
\* answer first.
Answered(t) ==
  LET s == slot[thr[t].op] IN
    s.done /\ (thr[t].op \in {"play", "cue"} => ~s.dead)

WakeAnswered(t) ==
  /\ thr[t].pc = "wait" /\ Answered(t)
  /\ Return(t)
  /\ UNCHANGED <<lifecycle, slotVars, readerVars, lastError, slot, worldVars,
                 calls>>

WakeDead(t) ==
  /\ thr[t].pc = "wait" /\ slot[thr[t].op].dead /\ ~Answered(t)
  /\ LockFor(t, DeathVerdict(thr[t].op))
  /\ UNCHANGED <<lifecycle, slotVars, readerVars, lastError, slot, lease,
                 worldVars, calls>>

\* The speak, cue, capture and listen-finalization deadlines.
Timeout(t) ==
  /\ thr[t].pc = "wait"
  /\ slot[thr[t].op] = EmptySlot
  /\ LockFor(t, DeathVerdict(thr[t].op))
  /\ UNCHANGED <<lifecycle, slotVars, readerVars, lastError, slot, lease,
                 worldVars, calls>>

-----------------------------------------------------------------------------
(* Under the mutex.                                                          *)

\* Wrong on purpose: the generation of the caller's child is not compared.
NeverSuperseded(t) == FALSE

\* A replacement was installed since the request took its generation.
Superseded(t) == thr[t].want = "deadIfCurrent" /\ generation # thr[t].gen

\* What a thread does once it holds the mutex.  heal observes and acts in one
\* section; HEAL_COOLDOWN may refuse it.  mark_dead_if_current gives up when a
\* replacement was installed meanwhile.
Acquire(t) ==
  /\ thr[t].pc = "lock" /\ lifecycle = NoThread
  /\ CASE thr[t].want = "start" ->
            lifecycle' = t /\ Goto(t, "spawn") /\ UNCHANGED lease
       [] thr[t].want \in {"stop", "dead"} ->
            lifecycle' = t /\ Goto(t, "begin") /\ UNCHANGED lease
       [] thr[t].want = "deadIfCurrent" ->
            IF Superseded(t)
            THEN Return(t) /\ UNCHANGED lifecycle
            ELSE lifecycle' = t /\ Goto(t, "begin") /\ UNCHANGED lease
       [] thr[t].want = "heal" ->
            \/ Return(t) /\ UNCHANGED lifecycle
            \/ /\ child # NoProc /\ ~Alive(child)
               /\ lifecycle' = t /\ Goto(t, "begin") /\ UNCHANGED lease
            \/ /\ child = NoProc /\ ~lastError
               /\ lifecycle' = t /\ Goto(t, "spawn") /\ UNCHANGED lease
  /\ UNCHANGED <<slotVars, readerVars, lastError, slot, worldVars, calls>>

\* Wrong on purpose: the teardown is marked deliberate only when it reaps.
BeginUnmarked(t) ==
  /\ thr[t].pc = "begin"
  /\ lastError' = (lastError /\ thr[t].want # "stop")
  /\ Goto(t, "unwire")
  /\ UNCHANGED <<lifecycle, slotVars, readerVars, slot, lease,
                 worldVars, calls>>

\* begin_deliberate_stop.  Only stop_child clears the error of an earlier start.
BeginTeardown(t) ==
  /\ thr[t].pc = "begin"
  /\ expectedEof' = TRUE
  /\ lastError' = (lastError /\ thr[t].want # "stop")
  /\ Goto(t, "unwire")
  /\ UNCHANGED <<lifecycle, child, generation, stdin, readerVars, slot,
                 lease, worldVars, calls>>

\* The pipe is dropped, under its lock: not before a write in it has ended.
DropStdin(t) ==
  /\ thr[t].pc = "unwire" /\ StdinFree
  /\ stdin' = NoProc
  /\ Goto(t, "reap")
  /\ UNCHANGED <<lifecycle, child, generation, expectedEof, readerVars,
                 lastError, slot, lease, worldVars, calls>>

\* Wrong on purpose: a teardown counts as a generation too.
ReapCounting(t) ==
  /\ thr[t].pc = "reap"
  /\ expectedEof' = TRUE
  /\ child' = NoProc
  /\ generation' = generation + 1
  /\ thr' = [thr EXCEPT ![t].pc = IF child = NoProc THEN "join" ELSE "kill",
                        ![t].mine = child]
  /\ UNCHANGED <<lifecycle, stdin, readerVars, lastError, slot, lease,
                 worldVars, calls>>

\* ChildSlot::reap.
Reap(t) ==
  /\ thr[t].pc = "reap"
  /\ expectedEof' = TRUE
  /\ child' = NoProc
  /\ thr' = [thr EXCEPT ![t].pc = IF child = NoProc THEN "join" ELSE "kill",
                        ![t].mine = child]
  /\ UNCHANGED <<lifecycle, generation, stdin, readerVars, lastError, slot,
                 lease, worldVars, calls>>

\* Wrong on purpose: the closed pipe is trusted to end the helper.
KillByEof(t) ==
  /\ thr[t].pc = "kill"
  /\ Goto(t, "join")
  /\ UNCHANGED <<lifecycle, slotVars, readerVars, lastError, slot, lease,
                 worldVars, calls>>

Kill(t) ==
  /\ thr[t].pc = "kill"
  /\ proc' = [proc EXCEPT ![thr[t].mine] = "exited"]
  /\ Goto(t, "join")
  /\ UNCHANGED <<lifecycle, slotVars, readerVars, lastError, slot, lease,
                 asked, spawned, crashed, calls>>

\* The mutex is released.  restart_child goes on to ensure_started; a request
\* that needed a child goes on to look for it; the rest return.
Release(t) ==
  /\ lifecycle' = NoThread
  /\ IF thr[t].want = "stop" /\ thr[t].op = "reload"
     THEN /\ thr' = [thr EXCEPT ![t].pc = "ensure", ![t].mine = NoProc]
          /\ UNCHANGED lease
     ELSE IF thr[t].want = "start" /\ thr[t].op \in Kinds
     THEN /\ thr' = [thr EXCEPT ![t].pc = "check", ![t].mine = NoProc]
          /\ UNCHANGED lease
     ELSE Return(t)

\* join_reader blocks until the reader of the dead child has returned.
JoinReader(t) ==
  /\ thr[t].pc = "join"
  /\ reader # NoProc => readerPc[reader] = "done"
  /\ reader' = NoProc
  /\ IF thr[t].want = "heal"
     THEN Goto(t, "spawn") /\ UNCHANGED <<lifecycle, lease>>
     ELSE Release(t)
  /\ UNCHANGED <<slotVars, readerPc, reported, lastError, slot, worldVars,
                 calls>>

\* Wrong on purpose: the gate outside the mutex is not repeated inside it.
SpawnUnchecked(t) ==
  /\ thr[t].pc = "spawn" /\ spawned < MaxSpawns
  /\ spawned' = spawned + 1
  /\ proc' = [proc EXCEPT ![spawned + 1] = "starting"]
  /\ thr' = [thr EXCEPT ![t].pc = "handshake", ![t].mine = spawned + 1]
  /\ UNCHANGED <<lifecycle, slotVars, readerVars, lastError, slot, lease, asked,
                 crashed, calls>>

\* start_locked: nothing when a child is there already, an error when the
\* model is missing or the process cannot be spawned.
Spawn(t) ==
  /\ thr[t].pc = "spawn"
  /\ \/ /\ child # NoProc
        /\ Release(t)
        /\ UNCHANGED <<lastError, worldVars>>
     \/ /\ child = NoProc
        /\ lastError' = TRUE
        /\ Release(t)
        /\ UNCHANGED worldVars
     \/ /\ child = NoProc /\ spawned < MaxSpawns
        /\ spawned' = spawned + 1
        /\ proc' = [proc EXCEPT ![spawned + 1] = "starting"]
        /\ thr' = [thr EXCEPT ![t].pc = "handshake", ![t].mine = spawned + 1]
        /\ UNCHANGED <<lifecycle, lease, lastError, asked, crashed>>
  /\ UNCHANGED <<slotVars, readerVars, slot, calls>>

\* READY in time: the child is installed, its handle and its generation under
\* one lock.
InstallReady(t) ==
  /\ thr[t].pc = "handshake" /\ proc[thr[t].mine] = "starting"
  /\ proc' = [proc EXCEPT ![thr[t].mine] = "up"]
  /\ lastError' = FALSE
  /\ child' = thr[t].mine
  /\ generation' = generation + 1
  /\ Goto(t, "unmark")
  /\ UNCHANGED <<lifecycle, expectedEof, stdin, readerVars, slot, lease, asked,
                 spawned, crashed, calls>>

\* Wrong on purpose: a helper that is not ready in time is left alone.
HandshakeForgets(t) ==
  /\ thr[t].pc = "handshake"
  /\ lastError' = TRUE
  /\ Release(t)
  /\ UNCHANGED <<slotVars, readerVars, slot, worldVars, calls>>

\* ERR, an end of file or no answer in time: the child is killed and waited for.
HandshakeFails(t) ==
  /\ thr[t].pc = "handshake"
  /\ proc' = [proc EXCEPT ![thr[t].mine] = "exited"]
  /\ lastError' = TRUE
  /\ Release(t)
  /\ UNCHANGED <<slotVars, readerVars, slot, asked, spawned, crashed, calls>>

\* The rest of install, then the pipe, then the reader.
ClearExpectedEof(t) ==
  /\ thr[t].pc = "unmark"
  /\ expectedEof' = FALSE
  /\ Goto(t, "wire")
  /\ UNCHANGED <<lifecycle, child, generation, stdin, readerVars, lastError,
                 slot, lease, worldVars, calls>>

WireStdin(t) ==
  /\ thr[t].pc = "wire" /\ StdinFree
  /\ stdin' = thr[t].mine
  /\ Goto(t, "read")
  /\ UNCHANGED <<lifecycle, child, generation, expectedEof, readerVars,
                 lastError, slot, lease, worldVars, calls>>

StartReader(t) ==
  /\ thr[t].pc = "read"
  /\ reader' = thr[t].mine
  /\ readerPc' = [readerPc EXCEPT ![thr[t].mine] = "reading"]
  /\ Release(t)
  /\ UNCHANGED <<slotVars, reported, lastError, slot, worldVars, calls>>

-----------------------------------------------------------------------------
(* The process, and the reader of its output.                                *)

\* The helper reads on, and a blocked write ends.
HelperReads(t) ==
  /\ thr[t].pc = "blocked" /\ proc[thr[t].sentTo] = "up"
  /\ asked' = [asked EXCEPT ![thr[t].sentTo] = @ \cup {thr[t].op}]
  /\ Goto(t, "wait")
  /\ UNCHANGED <<lifecycle, slotVars, readerVars, lastError, slot, lease, proc,
                 spawned, crashed, calls>>

\* The helper's terminal line for a request reaches its slot.  It may have
\* been in the pipe when the process died.
Answer(p, k) ==
  /\ readerPc[p] = "reading" /\ k \in asked[p]
  /\ slot' = [slot EXCEPT ![k].done = TRUE]
  /\ asked' = [asked EXCEPT ![p] = @ \ {k}]
  /\ UNCHANGED <<lifecycle, slotVars, readerVars, lastError, lease, thr, proc,
                 spawned, crashed, calls>>

Crash(p) ==
  /\ Alive(p) /\ Cardinality(crashed) < MaxCrashes
  /\ proc' = [proc EXCEPT ![p] = "exited"]
  /\ crashed' = crashed \cup {p}
  /\ UNCHANGED <<lifecycle, slotVars, readerVars, lastError, slot, lease, thr,
                 asked, spawned, calls>>

\* The helper leaves by itself when its stdin is closed, before the kill.
QuitOnEof(p) ==
  /\ proc[p] = "up"
  /\ \E t \in Threads : \/ thr[t].pc = "reap" /\ child = p
                        \/ thr[t].pc = "kill" /\ thr[t].mine = p
  /\ proc' = [proc EXCEPT ![p] = "exited"]
  /\ UNCHANGED <<lifecycle, slotVars, readerVars, lastError, slot, lease, thr,
                 asked, spawned, crashed, calls>>

\* The reader is done with the output of p: every waiter is released, whatever
\* it waits for, and what p still had to answer is lost.
Hangup(p) ==
  /\ readerPc[p] = "reading"
  /\ slot' = [k \in Kinds |-> [slot[k] EXCEPT !.dead = TRUE]]
  /\ readerPc' = [readerPc EXCEPT ![p] = "classify"]
  /\ asked' = [asked EXCEPT ![p] = {}]
  /\ UNCHANGED <<lifecycle, slotVars, reader, reported, lastError, lease,
                 thr, proc, spawned, calls>>

ReaderEof(p) == proc[p] = "exited" /\ Hangup(p) /\ UNCHANGED crashed

\* A read error, such as a line that is not UTF-8, ends the reader of a process
\* that lives on: what is asked of it from now on is never answered.
ReaderError(p) ==
  /\ proc[p] = "up" /\ Cardinality(crashed) < MaxCrashes
  /\ Hangup(p)
  /\ crashed' = crashed \cup {p}

\* Was the end deliberate?  If not it is reported as a crash.
ReaderClassify(p) ==
  /\ readerPc[p] = "classify"
  /\ reported' = IF expectedEof THEN reported ELSE reported \cup {p}
  /\ readerPc' = [readerPc EXCEPT ![p] = "done"]
  /\ UNCHANGED <<lifecycle, slotVars, reader, lastError, slot, lease, thr,
                 worldVars, calls>>

-----------------------------------------------------------------------------
Request(t) ==
  \/ Ensure(t) \/ Check(t) \/ TakeCueLease(t) \/ TakeGeneration(t)
  \/ ResetSlot(t) \/ WriteRequest(t) \/ WriteBreaks(t)
  \/ WakeAnswered(t) \/ WakeDead(t) \/ Timeout(t)

Transition(t) ==
  \/ Acquire(t) \/ BeginTeardown(t) \/ DropStdin(t) \/ Reap(t) \/ Kill(t)
  \/ JoinReader(t)
  \/ Spawn(t) \/ InstallReady(t) \/ HandshakeFails(t)
  \/ ClearExpectedEof(t) \/ WireStdin(t) \/ StartReader(t)

ReadEnd(p) == ReaderEof(p) \/ ReaderClassify(p)

Next ==
  \/ \E t \in Threads : \/ \E op \in Ops : Call(t, op)
                         \/ Request(t) \/ Transition(t) \/ HelperReads(t)
  \/ \E p \in Procs : \/ \E k \in Kinds : Answer(p, k)
                      \/ Crash(p) \/ QuitOnEof(p) \/ ReadEnd(p) \/ ReaderError(p)

\* The threads and the readers run; deadlines expire (a listen has one once
\* it is stopped).  Nothing obliges the helper to read, to answer, to live or
\* to die.
Fairness ==
  /\ \A t \in Threads : WF_vars(Request(t) \/ Transition(t))
  /\ \A p \in Procs : WF_vars(ReadEnd(p))

Spec == Init /\ [][Next]_vars /\ Fairness

-----------------------------------------------------------------------------
(* Properties.                                                               *)

\* With the mutex free the manager's pieces agree: a child is there exactly
\* when its pipe and its reader are, and nothing that was spawned and is not
\* in the slot still runs.  A teardown or a start that forgets one of them
\* leaves an orphan process, a deaf child or a reader of the wrong stream.
SlotIsCoherent ==
  lifecycle = NoThread =>
    /\ stdin = child /\ reader = child
    /\ \A p \in Procs : /\ Alive(p) => p = child
                        /\ readerPc[p] \in {"reading", "classify"} => p = child

\* A waiter's word is good for its own child only: the teardown a cue asks for
\* after the end of its output or a deadline never hits a process installed
\* since, and the healer never kills a process that lives.
OnlyItsOwnChild ==
  \A t \in Threads : thr[t].pc = "kill" =>
    /\ thr[t].want = "deadIfCurrent" /\ thr[t].op = "cue" =>
         /\ thr[t].mine = thr[t].sentTo
         /\ slot["cue"].dead => ~Alive(thr[t].mine) \/ thr[t].mine \in crashed
    /\ thr[t].want = "heal" => ~Alive(thr[t].mine)

\* An end the engine brought about is never taken for a failure of
\* the helper, although reader and teardown run side by side and the helper may
\* leave on its own as soon as its stdin closes.
NoFalseCrash == reported \subseteq crashed

\* tts/mod.rs:1070: a listen that wakes on the end of an old child must not
\* "silently kill the brand-new child".
ListenSparesReplacement ==
  \A t \in Threads :
    thr[t].pc = "kill" /\ thr[t].op = "listen" /\ thr[t].sentTo # NoProc
      => thr[t].mine = thr[t].sentTo \/ ~Alive(thr[t].mine)

\* A helper that lives and does not read holds a writer, and its teardown with it.
WriterStuck == ~StdinFree

\* Every operation returns, whatever the helper does, unless it lives and leaves
\* a writer in a full pipe for ever (the teardown that would kill it needs the
\* lock that writer holds): nobody waits for ever for an answer, for the mutex,
\* or for a reader that does not end.
EveryCallReturns ==
  <>[]WriterStuck \/ \A t \in Threads : []<>(thr[t].pc = "idle")

\* At most one helper process lives, each a new one.
LivingProc == IF \E p \in Procs : Alive(p)
              THEN CHOOSE p \in Procs : Alive(p) ELSE NoProc

Abstract == INSTANCE OneHelper WITH living <- LivingProc, born <- spawned
AbstractSpec == Abstract!Spec
=============================================================================
