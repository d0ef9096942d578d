----------------------- MODULE HelperLifecycleProofs -----------------------
(***************************************************************************)
(* Theorems about HelperLifecycle, for any threads, operations and bounds. *)
(*                                                                         *)
(* Everything rests on who holds the lifecycle mutex and how far its       *)
(* holder is: Stage says, for each step of a start or a teardown, which of *)
(* the child, its pipe and its reader are in place.                        *)
(***************************************************************************)
EXTENDS HelperLifecycle, TLAPS

Active(p) == readerPc[p] \in {"reading", "classify"}

\* No process but q lives or is read from.
Only(q) == \A p \in Procs : Alive(p) \/ Active(p) => p = q

\* q, if it is a process at all, is one that was spawned.
Born(q) == q # NoProc => proc[q] # "none"

Coherent == stdin = child /\ reader = child /\ Only(child) /\ Born(child)

Mutex == \A t \in Threads : thr[t].pc \in Section <=> lifecycle = t

\* What a call may be doing where.
Callers ==
  \A t \in Threads :
    /\ thr[t].pc \in {"check", "lease", "gen", "reset", "write", "blocked", "wait"}
         => thr[t].op \in Kinds
    /\ thr[t].pc = "lock" => thr[t].want # "none"

\* Processes are numbered as they are spawned, and a generation is counted for
\* a spawn at most.
Numbered ==
  /\ generation <= spawned
  /\ \A p \in Procs : /\ p > spawned => proc[p] = "none"
                      /\ proc[p] = "none" => ~Active(p) /\ p \notin crashed

Stage(t) ==
  /\ thr[t].pc \in {"begin", "unwire", "spawn"} => Coherent
  /\ thr[t].pc = "unwire" => expectedEof
  /\ thr[t].pc = "reap" =>
       /\ expectedEof /\ stdin = NoProc
       /\ reader = child /\ Only(child) /\ Born(child)
  /\ thr[t].pc = "kill" =>
       /\ expectedEof /\ child = NoProc /\ stdin = NoProc
       /\ thr[t].mine \in Procs /\ reader = thr[t].mine
       /\ Only(thr[t].mine) /\ Born(thr[t].mine)
  /\ thr[t].pc = "join" =>
       /\ expectedEof /\ child = NoProc /\ stdin = NoProc
       /\ \A p \in Procs : ~Alive(p) /\ (Active(p) => p = reader)
  /\ thr[t].pc \in {"handshake", "unmark", "wire", "read"} =>
       /\ thr[t].mine \in Procs /\ reader = NoProc
       /\ \A p \in Procs : ~Active(p) /\ (Alive(p) => p = thr[t].mine)
       /\ proc[thr[t].mine] # "none"
  /\ thr[t].pc = "handshake" =>
       child = NoProc /\ stdin = NoProc /\ generation < spawned
  /\ thr[t].pc \in {"unmark", "wire", "read"} =>
       /\ child = thr[t].mine
       /\ stdin = IF thr[t].pc = "read" THEN child ELSE NoProc
       /\ Alive(child) \/ child \in crashed

Held == /\ lifecycle = NoThread => Coherent
        /\ \A t \in Threads : Stage(t)

\* While a reader still has to classify the end of its process, either that
\* process failed of itself or the mark stands.
Marked ==
  \A p \in Procs :
    /\ readerPc[p] = "classify" => proc[p] = "exited" \/ p \in crashed
    /\ Active(p) /\ ~Alive(p) => expectedEof \/ p \in crashed

\* Until its verdict is acted on, a cue's generation tells whether the child in
\* the slot is the one its request went to, and the one whose end it saw.
Waiting(t) ==
  /\ thr[t].op = "cue"
  /\ \/ thr[t].pc \in {"write", "blocked", "wait"}
     \/ /\ thr[t].want = "deadIfCurrent"
        /\ thr[t].pc \in {"lock", "begin", "unwire", "reap"}

\* The output of q has ended: it is dead, or it failed and lives on.
Silent(q) == ~Alive(q) \/ q \in crashed

Verdict(t) ==
  /\ thr[t].gen <= generation
  /\ Waiting(t) /\ thr[t].gen = generation /\ child # NoProc =>
       /\ thr[t].pc # "write" => thr[t].sentTo = child
       /\ slot["cue"].dead => Silent(child)
  /\ Waiting(t) /\ thr[t].pc \in {"begin", "unwire", "reap"} => thr[t].gen = generation
  /\ thr[t].pc \in {"begin", "unwire", "reap"} /\ thr[t].want = "heal" => ~Alive(child)
  /\ thr[t].pc = "kill" =>
       /\ thr[t].want = "deadIfCurrent" /\ thr[t].op = "cue" =>
            /\ thr[t].mine = thr[t].sentTo
            /\ slot["cue"].dead => Silent(thr[t].mine)
       /\ thr[t].want = "heal" => ~Alive(thr[t].mine)

Verdicts == \A t \in Threads : Verdict(t)

\* A step of the helper or of the reader of its output.
HelperStep(p) ==
  \/ \E k \in Kinds : Answer(p, k)
  \/ Crash(p) \/ QuitOnEof(p) \/ ReadEnd(p) \/ ReaderError(p)

IInv == TypeOK /\ Mutex /\ Callers /\ Numbered /\ Held /\ Marked /\ Verdicts
        /\ NoFalseCrash

-----------------------------------------------------------------------------
(* Types.                                                                  *)

LEMMA TypeInit == Init => TypeOK
<1> SUFFICES ASSUME Init PROVE TypeOK
  OBVIOUS
<1>1. Resting \in CallState
  BY LifecycleAssumption
     DEF LifecycleAssumption, Resting, CallState, NoProc, Steps, Ops, Wants
<1>2. EmptySlot \in [done : BOOLEAN, dead : BOOLEAN]
  BY DEF EmptySlot
<1>3. /\ thr \in [Threads -> CallState]
      /\ slot \in [Kinds -> [done : BOOLEAN, dead : BOOLEAN]]
  BY <1>1, <1>2 DEF Init
<1>4. NoProc \in 0..MaxSpawns /\ 0 \in 0..MaxCalls
  BY LifecycleAssumption DEF LifecycleAssumption, NoProc
<1> QED
  BY <1>3, <1>4 DEF Init, TypeOK, NoProc

LEMMA EditType ==
  ASSUME thr \in [Threads -> CallState], NEW t \in Threads, NEW pc \in Steps,
         NEW p \in 0..MaxSpawns
  PROVE  /\ [thr EXCEPT ![t].pc = pc, ![t].mine = p] \in [Threads -> CallState]
         /\ [thr EXCEPT ![t].pc = pc, ![t].sentTo = p] \in [Threads -> CallState]
BY DEF CallState

LEMMA GotoType ==
  ASSUME thr \in [Threads -> CallState], NEW t \in Threads, NEW pc \in Steps,
         Goto(t, pc)
  PROVE  thr' \in [Threads -> CallState]
BY DEF CallState, Goto

LEMMA LockForType ==
  ASSUME thr \in [Threads -> CallState], NEW t \in Threads, NEW want \in Wants,
         LockFor(t, want)
  PROVE  thr' \in [Threads -> CallState]
BY DEF CallState, LockFor, Steps

LEMMA ReturnType ==
  ASSUME TypeOK, NEW t \in Threads, Return(t)
  PROVE  /\ thr' \in [Threads -> CallState]
         /\ lease' \in [{"cue", "listen"} -> Threads \cup {NoThread}]
<1>1. Resting \in CallState
  BY LifecycleAssumption
     DEF LifecycleAssumption, Resting, CallState, NoProc, Steps, Ops, Wants
<1> QED BY <1>1 DEF TypeOK, Return

LEMMA ReleaseType ==
  ASSUME TypeOK, NEW t \in Threads, Release(t)
  PROVE  /\ thr' \in [Threads -> CallState]
         /\ lease' \in [{"cue", "listen"} -> Threads \cup {NoThread}]
         /\ lifecycle' \in Threads \cup {NoThread}
<1>1. ASSUME NEW pc \in Steps,
             thr' = [thr EXCEPT ![t].pc = pc, ![t].mine = NoProc]
      PROVE  thr' \in [Threads -> CallState]
  <2>1. NoProc \in 0..MaxSpawns /\ thr \in [Threads -> CallState]
    BY LifecycleAssumption DEF LifecycleAssumption, NoProc, TypeOK
  <2> QED BY <1>1, <2>1, EditType
<1> QED BY <1>1, ReturnType DEF Release, TypeOK, Steps

LEMMA RequestType ==
  ASSUME TypeOK, Callers, NEW t \in Threads,
         Request(t) \/ HelperReads(t)
  PROVE  TypeOK'
<1> USE LifecycleAssumption DEF LifecycleAssumption, TypeOK, slotVars, readerVars, worldVars
<1>1. CASE Ensure(t)
  <2>1. thr' \in [Threads -> CallState]
    BY <1>1, GotoType, LockForType, ReturnType DEF Ensure, Steps, Wants
  <2> QED BY <1>1, <2>1, ReturnType DEF Ensure
<1>2. CASE Check(t)
  <2>1. thr' \in [Threads -> CallState]
    BY <1>2, GotoType, ReturnType DEF Check, Steps
  <2> QED BY <1>2, <2>1, ReturnType DEF Check
<1>3. CASE TakeCueLease(t)
  <2>1. thr' \in [Threads -> CallState]
    BY <1>3, GotoType DEF TakeCueLease, Steps
  <2> QED BY <1>3, <2>1 DEF TakeCueLease
<1>4. CASE TakeGeneration(t)
  <2>1. thr' \in [Threads -> CallState]
    BY <1>4, ReturnType DEF TakeGeneration, CallState, Steps
  <2> QED BY <1>4, <2>1, ReturnType DEF TakeGeneration
<1>5. CASE ResetSlot(t)
  <2>1. thr' \in [Threads -> CallState]
    BY <1>5, GotoType DEF ResetSlot, Steps
  <2> QED BY <1>5, <2>1 DEF ResetSlot, EmptySlot
<1>6. CASE WriteRequest(t)
  <2>1. thr' \in [Threads -> CallState]
    <3>1. ASSUME NEW pc \in {"wait", "blocked"},
                 thr' = [thr EXCEPT ![t].pc = pc, ![t].sentTo = stdin]
          PROVE  thr' \in [Threads -> CallState]
      BY <3>1, EditType DEF Steps
    <3> QED BY <1>6, <3>1, LockForType DEF WriteRequest, Wants
  <2>2. thr[t].op \in Kinds
    BY <1>6 DEF WriteRequest, Callers
  <2>3. asked' \in [Procs -> SUBSET Kinds]
    BY <1>6, <2>2 DEF WriteRequest
  <2> QED BY <1>6, <2>1, <2>3 DEF WriteRequest
<1>7. CASE WriteBreaks(t)
  <2>1. thr' \in [Threads -> CallState]
    BY <1>7, LockForType DEF WriteBreaks, Wants
  <2> QED BY <1>7, <2>1 DEF WriteBreaks
<1>8. CASE HelperReads(t)
  <2>1. thr' \in [Threads -> CallState]
    BY <1>8, GotoType DEF HelperReads, Steps
  <2>2. asked' \in [Procs -> SUBSET Kinds]
    BY <1>8 DEF HelperReads, Callers
  <2> QED BY <1>8, <2>1, <2>2 DEF HelperReads
<1>9. CASE WakeAnswered(t)
  <2>1. thr' \in [Threads -> CallState]
    BY <1>9, ReturnType DEF WakeAnswered
  <2> QED BY <1>9, <2>1, ReturnType DEF WakeAnswered
<1>10. CASE WakeDead(t)
  <2>1. thr' \in [Threads -> CallState]
    BY <1>10, LockForType DEF WakeDead, DeathVerdict, Wants
  <2> QED BY <1>10, <2>1 DEF WakeDead
<1>11. CASE Timeout(t)
  <2>1. thr' \in [Threads -> CallState]
    BY <1>11, LockForType DEF Timeout, DeathVerdict, Wants
  <2> QED BY <1>11, <2>1 DEF Timeout
<1> QED
  BY <1>1, <1>2, <1>3, <1>4, <1>5, <1>6, <1>7, <1>8, <1>9, <1>10, <1>11 DEF Request

LEMMA TransitionType ==
  ASSUME TypeOK, Callers, Numbered, Held, NEW t \in Threads, Transition(t)
  PROVE  TypeOK'
<1> USE LifecycleAssumption DEF LifecycleAssumption, TypeOK, slotVars, readerVars, worldVars
<1>1. CASE Acquire(t)
  <2>1. thr' \in [Threads -> CallState]
    BY <1>1, GotoType, ReturnType DEF Acquire, Callers, CallState, Wants, Steps, Section
  <2> QED BY <1>1, <2>1, ReturnType DEF Acquire, Callers, CallState, Wants
<1>2. CASE BeginTeardown(t)
  <2>1. thr' \in [Threads -> CallState]
    BY <1>2, GotoType DEF BeginTeardown, Steps, Section
  <2> QED BY <1>2, <2>1 DEF BeginTeardown
<1>3. CASE DropStdin(t)
  <2>1. thr' \in [Threads -> CallState]
    BY <1>3, GotoType DEF DropStdin, Steps, Section
  <2> QED BY <1>3, <2>1 DEF DropStdin, NoProc
<1>4. CASE Reap(t)
  <2>1. thr' \in [Threads -> CallState]
    <3>1. ASSUME NEW pc \in {"join", "kill"},
                 thr' = [thr EXCEPT ![t].pc = pc, ![t].mine = child]
          PROVE  thr' \in [Threads -> CallState]
      BY <3>1, EditType DEF Steps, Section
    <3> QED BY <1>4, <3>1 DEF Reap
  <2> QED BY <1>4, <2>1 DEF Reap, NoProc
<1>5. CASE Kill(t)
  <2>1. thr' \in [Threads -> CallState]
    BY <1>5, GotoType DEF Kill, Steps, Section
  <2> QED BY <1>5, <2>1 DEF Kill
<1>6. CASE JoinReader(t)
  <2>1. thr' \in [Threads -> CallState]
    BY <1>6, GotoType, ReleaseType DEF JoinReader, Steps, Section
  <2> QED BY <1>6, <2>1, ReleaseType DEF JoinReader, NoProc
<1>7. CASE Spawn(t)
  <2>1. thr' \in [Threads -> CallState]
    BY <1>7, ReleaseType DEF Spawn, CallState, Steps, Section
  <2>2. /\ lifecycle' \in Threads \cup {NoThread}
        /\ lease' \in [{"cue", "listen"} -> Threads \cup {NoThread}]
    BY <1>7, ReleaseType DEF Spawn
  <2>3. spawned' \in 0..MaxSpawns
    BY <1>7 DEF Spawn
  <2>4. proc' \in [Procs -> {"none", "starting", "up", "exited"}]
    BY <1>7 DEF Spawn
  <2> QED BY <1>7, <2>1, <2>2, <2>3, <2>4 DEF Spawn
<1>8. CASE InstallReady(t)
  <2>1. thr' \in [Threads -> CallState]
    BY <1>8, GotoType DEF InstallReady, Steps, Section
  <2>2. generation' \in 0..MaxSpawns
    BY <1>8 DEF InstallReady, Held, Stage
  <2>3. child' \in 0..MaxSpawns
    BY <1>8 DEF InstallReady, CallState
  <2> QED BY <1>8, <2>1, <2>2, <2>3 DEF InstallReady
<1>9. CASE HandshakeFails(t)
  <2>1. thr' \in [Threads -> CallState]
    BY <1>9, ReleaseType DEF HandshakeFails
  <2> QED BY <1>9, <2>1, ReleaseType DEF HandshakeFails
<1>10. CASE ClearExpectedEof(t)
  <2>1. thr' \in [Threads -> CallState]
    BY <1>10, GotoType DEF ClearExpectedEof, Steps, Section
  <2> QED BY <1>10, <2>1 DEF ClearExpectedEof
<1>11. CASE WireStdin(t)
  <2>1. thr' \in [Threads -> CallState]
    BY <1>11, GotoType DEF WireStdin, Steps, Section
  <2> QED BY <1>11, <2>1 DEF WireStdin, CallState
<1>12. CASE StartReader(t)
  <2>1. thr' \in [Threads -> CallState]
    BY <1>12, ReleaseType DEF StartReader
  <2> QED BY <1>12, <2>1, ReleaseType DEF StartReader, CallState
<1> QED
  BY <1>1, <1>2, <1>3, <1>4, <1>5, <1>6, <1>7, <1>8, <1>9, <1>10, <1>11, <1>12
     DEF Transition

LEMMA CallType ==
  ASSUME TypeOK, NEW t \in Threads, NEW op \in Ops, Call(t, op)
  PROVE  TypeOK'
<1>1. \E r \in CallState : thr' = [thr EXCEPT ![t] = r]
  <2>1. Resting \in CallState
    BY LifecycleAssumption
       DEF LifecycleAssumption, Resting, CallState, NoProc, Steps, Ops, Wants
  <2> DEFINE pc == CASE op \in {"start", "listen", "capture"} -> "ensure"
                 [] op = "reload" -> IF child = NoProc THEN "ensure" ELSE "lock"
                 [] op \in {"stop", "heal"} -> "lock"
                 [] op = "play" -> "reset"
                 [] op = "cue" -> "lease"
             want == CASE op = "heal" -> "heal"
                       [] op \in {"stop", "reload"} -> "stop"
                       [] OTHER -> "none"
  <2>2. pc \in Steps
    BY DEF Steps, Ops, Kinds
  <2>3. want \in Wants
    BY DEF Wants
  <2>4. thr' = [thr EXCEPT ![t] = [Resting EXCEPT !.pc = pc, !.op = op, !.want = want]]
    BY DEF Call
  <2> HIDE DEF pc, want
  <2>5. [Resting EXCEPT !.pc = pc, !.op = op, !.want = want] \in CallState
    BY <2>1, <2>2, <2>3 DEF CallState
  <2> QED BY <2>4, <2>5
<1>2. thr' \in [Threads -> CallState]
  BY <1>1 DEF TypeOK
<1>3. calls' \in 0..MaxCalls
  BY LifecycleAssumption DEF LifecycleAssumption, Call, TypeOK
<1> QED
  BY <1>2, <1>3 DEF TypeOK, Call, slotVars, readerVars, worldVars

LEMMA HelperType ==
  ASSUME TypeOK, NEW p \in Procs,
         HelperStep(p)
  PROVE  TypeOK'
<1> USE DEF TypeOK, slotVars, readerVars, worldVars
<1>1. ASSUME NEW k \in Kinds, Answer(p, k)
      PROVE  TypeOK'
  BY <1>1 DEF Answer
<1>2. CASE Crash(p)
  BY <1>2 DEF Crash
<1>3. CASE QuitOnEof(p)
  BY <1>3 DEF QuitOnEof
<1>4. CASE ReaderEof(p)
  BY <1>4 DEF ReaderEof, Hangup
<1>5. CASE ReaderClassify(p)
  BY <1>5 DEF ReaderClassify
<1>6. CASE ReaderError(p)
  BY <1>6 DEF ReaderError, Hangup
<1> QED BY <1>1, <1>2, <1>3, <1>4, <1>5, <1>6 DEF HelperStep, ReadEnd

-----------------------------------------------------------------------------
(* What a step does to the call that takes it.                             *)

Moved(t, pc) ==
  /\ \A u \in Threads \ {t} : thr'[u] = thr[u]
  /\ thr'[t].pc = pc

Kept(t) ==
  /\ thr'[t].op = thr[t].op /\ thr'[t].want = thr[t].want
  /\ thr'[t].gen = thr[t].gen /\ thr'[t].mine = thr[t].mine
  /\ thr'[t].sentTo = thr[t].sentTo

LEMMA GotoFacts ==
  ASSUME TypeOK, NEW t \in Threads, NEW pc, Goto(t, pc)
  PROVE  Moved(t, pc) /\ Kept(t)
BY DEF TypeOK, CallState, Goto, Moved, Kept

LEMMA LockForFacts ==
  ASSUME TypeOK, NEW t \in Threads, NEW want, LockFor(t, want)
  PROVE  /\ Moved(t, "lock") /\ thr'[t].want = want
         /\ thr'[t].op = thr[t].op /\ thr'[t].gen = thr[t].gen
         /\ thr'[t].sentTo = thr[t].sentTo
BY DEF TypeOK, CallState, LockFor, Moved

LEMMA ReturnFacts ==
  ASSUME TypeOK, NEW t \in Threads, Return(t)
  PROVE  Moved(t, "idle") /\ thr'[t] = Resting
BY DEF TypeOK, CallState, Return, Moved, Resting

LEMMA ReleaseFacts ==
  ASSUME TypeOK, NEW t \in Threads, Release(t)
  PROVE  /\ lifecycle' = NoThread
         /\ \E pc \in {"idle", "ensure", "check"} : Moved(t, pc)
         /\ thr'[t].pc = "check" => thr'[t].op \in Kinds
<1>1. CASE thr[t].want = "stop" /\ thr[t].op = "reload"
  BY <1>1 DEF TypeOK, CallState, Release, Moved
<1>2. CASE ~(thr[t].want = "stop" /\ thr[t].op = "reload")
           /\ thr[t].want = "start" /\ thr[t].op \in Kinds
  BY <1>2 DEF TypeOK, CallState, Release, Moved
<1>3. CASE Return(t) /\ lifecycle' = NoThread
  BY <1>3, ReturnFacts DEF Moved
<1> QED BY <1>1, <1>2, <1>3 DEF Release

\* A request, and the call that begins it, leave the child alone.
Outside(t) ==
  /\ \E pc \in Steps \ Section : Moved(t, pc)
  /\ thr[t].pc \notin Section
  /\ UNCHANGED <<lifecycle, slotVars, readerVars, proc, spawned, crashed>>

CallerOK(t) ==
  /\ thr[t].pc \in {"check", "lease", "gen", "reset", "write", "blocked", "wait"}
       => thr[t].op \in Kinds
  /\ thr[t].pc = "lock" => thr[t].want # "none"

LEMMA CallersStep ==
  ASSUME Callers, NEW t \in Threads, NEW pc, Moved(t, pc), CallerOK(t)'
  PROVE  Callers'
BY DEF Callers, Moved, CallerOK

LEMMA CallMoves ==
  ASSUME TypeOK, Callers, NEW t \in Threads, NEW op \in Ops, Call(t, op)
  PROVE  Outside(t) /\ Callers'
<1> DEFINE pc == CASE op \in {"start", "listen", "capture"} -> "ensure"
                 [] op = "reload" -> IF child = NoProc THEN "ensure" ELSE "lock"
                 [] op \in {"stop", "heal"} -> "lock"
                 [] op = "play" -> "reset"
                 [] op = "cue" -> "lease"
           want == CASE op = "heal" -> "heal"
                     [] op \in {"stop", "reload"} -> "stop"
                     [] OTHER -> "none"
<1>1. /\ pc \in Steps \ Section
      /\ pc = "lock" => op \in {"reload", "stop", "heal"}
      /\ pc \in {"check", "lease", "gen", "reset", "write", "blocked", "wait"} => op \in Kinds
  BY DEF Steps, Section, Ops, Kinds
<1>2. thr' = [thr EXCEPT ![t] = [Resting EXCEPT !.pc = pc, !.op = op, !.want = want]]
  BY DEF Call
<1>3. op \in {"reload", "stop", "heal"} => want # "none"
  OBVIOUS
<1> HIDE DEF pc, want
<1>4. Moved(t, pc) /\ thr'[t].op = op /\ thr'[t].want = want
  BY <1>2 DEF TypeOK, Moved, Resting
<1>5. Callers'
  BY <1>1, <1>3, <1>4, CallersStep DEF CallerOK, Moved
<1> QED BY <1>1, <1>4, <1>5 DEF Call, Outside, Section, worldVars

LEMMA RequestMoves ==
  ASSUME TypeOK, Callers, NEW t \in Threads,
         Request(t) \/ HelperReads(t)
  PROVE  Outside(t) /\ Callers'
<1>1. CASE Ensure(t)
  BY <1>1, GotoFacts, LockForFacts, ReturnFacts, CallersStep
     DEF Ensure, Moved, Kept, Outside, CallerOK, Resting, Steps, Section, worldVars
<1>2. CASE Check(t)
  BY <1>2, GotoFacts, ReturnFacts, CallersStep
     DEF Check, Moved, Kept, Outside, Callers, CallerOK, Resting, DeathVerdict, Steps,
         Section, worldVars
<1>3. CASE TakeCueLease(t)
  BY <1>3, GotoFacts, CallersStep
     DEF TakeCueLease, Moved, Kept, Outside, Callers, CallerOK, Resting, DeathVerdict, Steps,
         Section, worldVars
<1>4. CASE TakeGeneration(t)
  <2>1. CASE child = NoProc
    BY <1>4, <2>1, ReturnFacts, CallersStep
       DEF TakeGeneration, Moved, Outside, CallerOK, Resting, Steps, Section, worldVars
  <2>2. CASE child # NoProc
    <3>1. /\ Moved(t, IF thr[t].op = "cue" THEN "reset" ELSE "write")
          /\ thr'[t].op = thr[t].op
      BY <1>4, <2>2 DEF TakeGeneration, TypeOK, CallState, Moved
    <3>2. Callers'
      BY <1>4, <3>1, CallersStep DEF TakeGeneration, Callers, CallerOK, Moved
    <3> QED BY <1>4, <3>1, <3>2 DEF TakeGeneration, Outside, Steps, Section, worldVars
  <2> QED BY <2>1, <2>2
<1>5. CASE ResetSlot(t)
  BY <1>5, GotoFacts, CallersStep
     DEF ResetSlot, Moved, Kept, Outside, Callers, CallerOK, Resting, DeathVerdict, Steps,
         Section, worldVars
<1>6. CASE WriteRequest(t)
  <2>1. ASSUME NEW pc \in {"wait", "blocked"},
               thr' = [thr EXCEPT ![t].pc = pc, ![t].sentTo = stdin]
        PROVE  Outside(t) /\ Callers'
    <3>1. Moved(t, pc) /\ thr'[t].op = thr[t].op
      BY <2>1 DEF TypeOK, CallState, Moved
    <3>2. Callers'
      BY <1>6, <3>1, CallersStep DEF WriteRequest, Callers, CallerOK, Moved
    <3> QED BY <1>6, <3>1, <3>2 DEF WriteRequest, Outside, Steps, Section
  <2>2. CASE LockFor(t, "dead")
    BY <1>6, <2>2, LockForFacts, CallersStep
       DEF WriteRequest, Moved, Outside, CallerOK, Steps, Section
  <2> QED BY <1>6, <2>1, <2>2 DEF WriteRequest
<1>7. CASE WriteBreaks(t)
  BY <1>7, LockForFacts, CallersStep
     DEF WriteBreaks, Moved, Outside, CallerOK, Steps, Section, worldVars
<1>8. CASE HelperReads(t)
  BY <1>8, GotoFacts, CallersStep
     DEF HelperReads, Moved, Kept, Outside, Callers, CallerOK, Steps, Section
<1>9. CASE WakeAnswered(t)
  BY <1>9, ReturnFacts, CallersStep
     DEF WakeAnswered, Moved, Kept, Outside, Callers, CallerOK, Resting, DeathVerdict, Steps,
         Section, worldVars
<1>10. CASE WakeDead(t)
  BY <1>10, LockForFacts, CallersStep
     DEF WakeDead, Moved, Kept, Outside, Callers, CallerOK, Resting, DeathVerdict, Steps,
         Section, worldVars
<1>11. CASE Timeout(t)
  BY <1>11, LockForFacts, CallersStep
     DEF Timeout, Moved, Kept, Outside, Callers, CallerOK, Resting, DeathVerdict, Steps,
         Section, worldVars
<1> QED
  BY <1>1, <1>2, <1>3, <1>4, <1>5, <1>6, <1>7, <1>8, <1>9, <1>10, <1>11 DEF Request

LEMMA TransitionMoves ==
  ASSUME TypeOK, Callers, Mutex, NEW t \in Threads, Transition(t)
  PROVE  /\ \E pc \in Steps : /\ Moved(t, pc)
                              /\ lifecycle' = IF pc \in Section THEN t ELSE NoThread
         /\ Callers'
<1> USE DEF Mutex
<1>1. CASE Acquire(t)
  <2>1. lifecycle = NoThread /\ thr[t].pc = "lock"
    BY <1>1 DEF Acquire
  <2>2. thr[t].want \in Wants \ {"none"}
    BY <2>1 DEF TypeOK, CallState, Callers
  <2>3. \/ Return(t) /\ UNCHANGED lifecycle
        \/ lifecycle' = t /\ Goto(t, "spawn")
        \/ lifecycle' = t /\ Goto(t, "begin")
    BY <1>1, <2>2 DEF Acquire, Wants
  <2>4. CASE Return(t) /\ UNCHANGED lifecycle
    BY <2>1, <2>4, ReturnFacts, CallersStep
       DEF Moved, CallerOK, Resting, Steps, Section
  <2>5. CASE lifecycle' = t /\ Goto(t, "spawn")
    BY <2>5, GotoFacts, CallersStep DEF Moved, CallerOK, Steps, Section
  <2>6. CASE lifecycle' = t /\ Goto(t, "begin")
    BY <2>6, GotoFacts, CallersStep DEF Moved, CallerOK, Steps, Section
  <2> QED BY <2>3, <2>4, <2>5, <2>6
<1>2. CASE BeginTeardown(t)
  BY <1>2, GotoFacts, CallersStep
     DEF BeginTeardown, Moved, CallerOK, Callers, Resting, Steps, Section
<1>3. CASE DropStdin(t)
  BY <1>3, GotoFacts, CallersStep
     DEF DropStdin, Moved, CallerOK, Callers, Resting, Steps, Section
<1>4. CASE Reap(t)
  <2>1. CASE thr' = [thr EXCEPT ![t].pc = IF child = NoProc THEN "join" ELSE "kill",
                                 ![t].mine = child]
    <3>1. Moved(t, IF child = NoProc THEN "join" ELSE "kill")
      BY <2>1 DEF TypeOK, CallState, Moved
    <3> QED BY <1>4, <2>1, <3>1, CallersStep DEF Reap, CallerOK, Moved, Steps, Section
  <2> QED BY <1>4, <2>1 DEF Reap
<1>5. CASE Kill(t)
  BY <1>5, GotoFacts, CallersStep
     DEF Kill, Moved, CallerOK, Callers, Resting, Steps, Section
<1>6. CASE JoinReader(t)
  BY <1>6, GotoFacts, ReleaseFacts, CallersStep
     DEF JoinReader, Moved, CallerOK, Callers, Resting, Steps, Section
<1>7. CASE Spawn(t)
  <2>1. CASE /\ thr' = [thr EXCEPT ![t].pc = "handshake", ![t].mine = spawned + 1]
            /\ UNCHANGED lifecycle
    <3>1. Moved(t, "handshake")
      BY <2>1 DEF TypeOK, CallState, Moved
    <3> QED BY <1>7, <2>1, <3>1, CallersStep DEF Spawn, CallerOK, Moved, Steps, Section
  <2>2. CASE Release(t)
    BY <1>7, <2>2, ReleaseFacts, CallersStep DEF CallerOK, Moved, Steps, Section
  <2> QED BY <1>7, <2>1, <2>2 DEF Spawn
<1>8. CASE InstallReady(t)
  BY <1>8, GotoFacts, CallersStep
     DEF InstallReady, Moved, CallerOK, Callers, Resting, Steps, Section
<1>9. CASE HandshakeFails(t)
  BY <1>9, ReleaseFacts, CallersStep
     DEF HandshakeFails, Moved, CallerOK, Callers, Resting, Steps, Section
<1>10. CASE ClearExpectedEof(t)
  BY <1>10, GotoFacts, CallersStep
     DEF ClearExpectedEof, Moved, CallerOK, Callers, Resting, Steps, Section
<1>11. CASE WireStdin(t)
  BY <1>11, GotoFacts, CallersStep
     DEF WireStdin, Moved, CallerOK, Callers, Resting, Steps, Section
<1>12. CASE StartReader(t)
  BY <1>12, ReleaseFacts, CallersStep
     DEF StartReader, Moved, CallerOK, Callers, Resting, Steps, Section
<1> QED
  BY <1>1, <1>2, <1>3, <1>4, <1>5, <1>6, <1>7, <1>8, <1>9, <1>10, <1>11, <1>12
     DEF Transition

-----------------------------------------------------------------------------
(* The mutex, and what its holder has in place.                            *)

Shared == <<lifecycle, slotVars, readerVars, proc, spawned, crashed>>

LEMMA MutexFacts ==
  ASSUME TypeOK, Mutex, NEW t \in Threads
  PROVE  /\ thr[t].pc \in Section => lifecycle = t
         /\ thr[t].pc \in Section \/ lifecycle = NoThread =>
              \A u \in Threads \ {t} : thr[u].pc \notin Section
BY LifecycleAssumption DEF LifecycleAssumption, Mutex

LEMMA OutsideKeeps ==
  ASSUME TypeOK, Mutex, Numbered, Held, Marked, NEW t \in Threads, Outside(t)
  PROVE  (Mutex /\ Numbered /\ Held /\ Marked)'
<1>1. \A u \in Threads : /\ thr'[u].pc \in Section <=> thr[u].pc \in Section
                         /\ thr[u].pc \in Section => thr'[u] = thr[u]
  BY DEF Outside, Moved
<1>2. UNCHANGED <<lifecycle, child, generation, expectedEof, stdin, reader, readerPc,
                  reported, proc, spawned, crashed>>
  BY DEF Outside, slotVars, readerVars
<1>3. Mutex'
  BY <1>1, <1>2 DEF Mutex
<1>4. Numbered'
  BY <1>2 DEF Numbered, Active
<1>5. Marked'
  BY <1>2 DEF Marked, Active, Alive
<1>6. Coherent' <=> Coherent
  BY <1>2 DEF Coherent, Only, Alive, Active, Born
<1>7. ASSUME NEW u \in Threads PROVE Stage(u)'
  <2>1. Stage(u)
    BY DEF Held
  <2>2. CASE thr'[u].pc \in Section
    <3>1. thr'[u] = thr[u]
      BY <1>1, <2>2
    <3> QED BY <1>2, <2>1, <3>1 DEF Stage, Coherent, Only, Alive, Active, Born
  <2>3. CASE thr'[u].pc \notin Section
    BY <2>3 DEF Stage, Section
  <2> QED BY <2>2, <2>3
<1>8. Held'
  BY <1>2, <1>6, <1>7 DEF Held
<1> QED BY <1>3, <1>4, <1>5, <1>8

LEMMA TransitionMutex ==
  ASSUME TypeOK, Callers, Mutex, NEW t \in Threads, Transition(t)
  PROVE  Mutex'
<1>1. thr[t].pc \in Section \/ lifecycle = NoThread
  BY DEF Transition, Acquire, BeginTeardown, DropStdin, Reap, Kill, JoinReader,
         Spawn, InstallReady, HandshakeFails, ClearExpectedEof, WireStdin, StartReader,
         Section
<1>2. \A u \in Threads \ {t} : thr[u].pc \notin Section
  BY <1>1, MutexFacts
<1> QED
  BY <1>2, TransitionMoves, LifecycleAssumption
     DEF LifecycleAssumption, Mutex, Moved

LEMMA TransitionNumbered ==
  ASSUME TypeOK, Numbered, Held, NEW t \in Threads, Transition(t)
  PROVE  Numbered'
<1> USE DEF Numbered, Active, TypeOK, slotVars, readerVars, worldVars
<1>1. CASE Acquire(t)
  BY <1>1 DEF Acquire
<1>2. CASE BeginTeardown(t)
  BY <1>2 DEF BeginTeardown
<1>3. CASE DropStdin(t)
  BY <1>3 DEF DropStdin
<1>4. CASE Reap(t)
  BY <1>4 DEF Reap
<1>5. CASE Kill(t)
  <2>1. thr[t].mine \in Procs /\ proc[thr[t].mine] # "none"
    BY <1>5 DEF Kill, Held, Stage, Born, Procs, NoProc
  <2> QED BY <1>5, <2>1 DEF Kill
<1>6. CASE JoinReader(t)
  BY <1>6 DEF JoinReader
<1>7. CASE Spawn(t)
  <2>1. CASE UNCHANGED <<proc, spawned, crashed>>
    BY <1>7, <2>1 DEF Spawn
  <2>2. CASE /\ spawned < MaxSpawns /\ spawned' = spawned + 1
             /\ proc' = [proc EXCEPT ![spawned + 1] = "starting"]
             /\ UNCHANGED crashed
    BY <1>7, <2>2, LifecycleAssumption DEF LifecycleAssumption, Spawn, Procs
  <2> QED BY <1>7, <2>1, <2>2 DEF Spawn
<1>8. CASE InstallReady(t)
  BY <1>8 DEF InstallReady, Held, Stage
<1>9. CASE HandshakeFails(t)
  BY <1>9 DEF HandshakeFails, Held, Stage
<1>10. CASE ClearExpectedEof(t)
  BY <1>10 DEF ClearExpectedEof
<1>11. CASE WireStdin(t)
  BY <1>11 DEF WireStdin
<1>12. CASE StartReader(t)
  BY <1>12 DEF StartReader, Held, Stage
<1> QED
  BY <1>1, <1>2, <1>3, <1>4, <1>5, <1>6, <1>7, <1>8, <1>9, <1>10, <1>11, <1>12
     DEF Transition

LEMMA TransitionMarked ==
  ASSUME TypeOK, Numbered, Held, Marked, NEW t \in Threads, Transition(t)
  PROVE  Marked'
<1> USE DEF Marked, Active, Alive, TypeOK, slotVars, readerVars, worldVars
<1>1. CASE Acquire(t)
  BY <1>1 DEF Acquire
<1>2. CASE BeginTeardown(t)
  BY <1>2 DEF BeginTeardown
<1>3. CASE DropStdin(t)
  BY <1>3 DEF DropStdin
<1>4. CASE Reap(t)
  BY <1>4 DEF Reap
<1>5. CASE Kill(t)
  BY <1>5 DEF Kill, Held, Stage
<1>6. CASE JoinReader(t)
  BY <1>6 DEF JoinReader
<1>7. CASE Spawn(t)
  BY <1>7 DEF Spawn, Numbered
<1>8. CASE InstallReady(t)
  BY <1>8 DEF InstallReady, Held, Stage
<1>9. CASE HandshakeFails(t)
  BY <1>9 DEF HandshakeFails, Held, Stage
<1>10. CASE ClearExpectedEof(t)
  BY <1>10 DEF ClearExpectedEof, Held, Stage
<1>11. CASE WireStdin(t)
  BY <1>11 DEF WireStdin
<1>12. CASE StartReader(t)
  BY <1>12 DEF StartReader, Held, Stage
<1> QED
  BY <1>1, <1>2, <1>3, <1>4, <1>5, <1>6, <1>7, <1>8, <1>9, <1>10, <1>11, <1>12
     DEF Transition

\* A thread outside the mutex has nothing in place.
LEMMA Unstaged ==
  ASSUME NEW u \in Threads, thr[u].pc \notin Section
  PROVE  Stage(u)
BY DEF Stage, Section

LEMMA UnstagedNext ==
  ASSUME NEW u \in Threads, thr'[u].pc \notin Section
  PROVE  Stage(u)'
BY DEF Stage, Section

LEMMA TransitionHeld ==
  ASSUME TypeOK, Callers, Mutex, Numbered, Held, Verdicts,
         NEW t \in Threads, Transition(t)
  PROVE  Held'
<1> SUFFICES /\ Stage(t)'
             /\ lifecycle' = NoThread => Coherent'
  <2>1. thr[t].pc \in Section \/ lifecycle = NoThread
    BY DEF Transition, Acquire, BeginTeardown, DropStdin, Reap, Kill, JoinReader,
           Spawn, InstallReady, HandshakeFails, ClearExpectedEof, WireStdin, StartReader,
           Section
  <2>2. \A u \in Threads \ {t} : thr'[u].pc \notin Section
    BY <2>1, MutexFacts, TransitionMoves DEF Moved
  <2> QED BY <2>2, UnstagedNext DEF Held
<1>1. Stage(t) /\ (lifecycle = NoThread => Coherent)
  BY DEF Held
<1> USE <1>1 DEF TypeOK, Procs, NoProc
<1>2. CASE Acquire(t)
  <2>1. Coherent
    BY <1>2 DEF Acquire
  <2>2. Coherent'
    BY <1>2, <2>1 DEF Acquire, slotVars, readerVars, worldVars, Coherent, Only,
                      Alive, Active, Born
  <2>3. \E pc \in {"idle", "spawn", "begin"} : Moved(t, pc)
    <3>1. lifecycle = NoThread /\ thr[t].pc = "lock"
      BY <1>2 DEF Acquire
    <3>2. thr[t].want \in Wants \ {"none"}
      BY <3>1 DEF CallState, Callers
    <3>3. Return(t) \/ Goto(t, "spawn") \/ Goto(t, "begin")
      BY <1>2, <3>2 DEF Acquire, Wants
    <3> QED BY <3>3, ReturnFacts, GotoFacts
  <2> QED BY <2>2, <2>3 DEF Stage, Moved, Section
<1>3. CASE BeginTeardown(t)
  <2>1. Moved(t, "unwire")
    BY <1>3, GotoFacts DEF BeginTeardown
  <2>2. Coherent /\ lifecycle # NoThread
    BY <1>3, LifecycleAssumption, MutexFacts
       DEF LifecycleAssumption, BeginTeardown, Stage, Section
  <2> QED
    BY <1>3, <2>1, <2>2
       DEF BeginTeardown, Stage, Moved, Coherent, Only, Alive, Active, Born,
           readerVars, worldVars
<1>4. CASE DropStdin(t)
  <2>1. Moved(t, "reap")
    BY <1>4, GotoFacts DEF DropStdin
  <2>2. Coherent /\ expectedEof /\ lifecycle # NoThread
    BY <1>4, LifecycleAssumption, MutexFacts
       DEF LifecycleAssumption, DropStdin, Stage, Section
  <2> QED
    BY <1>4, <2>1, <2>2
       DEF DropStdin, Stage, Moved, Coherent, Only, Alive, Active, Born,
           readerVars, worldVars
<1>5. CASE Reap(t)
  <2>1. Moved(t, IF child = NoProc THEN "join" ELSE "kill") /\ thr'[t].mine = child
    BY <1>5 DEF Reap, CallState, Moved
  <2>2. lifecycle # NoThread
    BY <1>5, LifecycleAssumption, MutexFacts
       DEF LifecycleAssumption, Reap, Section
  <2>3. /\ reader = child /\ Only(child) /\ Born(child)
        /\ expectedEof' /\ child' = NoProc /\ stdin' = NoProc
        /\ UNCHANGED <<lifecycle, readerVars, worldVars>>
    BY <1>5 DEF Reap, Stage
  <2>4. CASE child = NoProc
    BY <2>1, <2>2, <2>3, <2>4 DEF Stage, Moved, Only, Alive, Active, readerVars, worldVars
  <2>5. CASE child # NoProc
    BY <2>1, <2>2, <2>3, <2>5
       DEF Stage, Moved, Only, Alive, Active, Born, readerVars, worldVars
  <2> QED BY <2>4, <2>5
<1>6. CASE Kill(t)
  <2>1. Moved(t, "join")
    BY <1>6, GotoFacts DEF Kill
  <2>2. lifecycle # NoThread
    BY <1>6, LifecycleAssumption, MutexFacts
       DEF LifecycleAssumption, Kill, Section
  <2> QED
    BY <1>6, <2>1, <2>2
       DEF Kill, Stage, Moved, Only, Alive, Active, Born, slotVars, readerVars
<1>7. CASE JoinReader(t)
  <2>1. Coherent'
    BY <1>7 DEF JoinReader, Stage, Coherent, Only, Alive, Active, Born, slotVars,
                worldVars
  <2>2. \E pc \in {"spawn", "idle", "ensure", "check"} : Moved(t, pc)
    BY <1>7, GotoFacts, ReleaseFacts DEF JoinReader
  <2> QED BY <2>1, <2>2 DEF Stage, Moved
<1>8. CASE Spawn(t)
  <2>1. Coherent
    BY <1>8 DEF Spawn, Stage
  <2>2. CASE Release(t) /\ UNCHANGED worldVars
    <3>1. Coherent'
      BY <1>8, <2>1, <2>2 DEF Spawn, Coherent, Only, Alive, Active, Born, slotVars,
                  readerVars, worldVars
    <3> QED BY <2>2, <3>1, ReleaseFacts DEF Stage, Moved
  <2>3. CASE /\ child = NoProc /\ spawned < MaxSpawns
             /\ spawned' = spawned + 1
             /\ proc' = [proc EXCEPT ![spawned + 1] = "starting"]
             /\ thr' = [thr EXCEPT ![t].pc = "handshake", ![t].mine = spawned + 1]
             /\ UNCHANGED lifecycle
    <3>1. Moved(t, "handshake") /\ thr'[t].mine = spawned + 1
      BY <2>3 DEF CallState, Moved
    <3>2. /\ spawned + 1 \in Procs /\ generation < spawned'
          /\ stdin = NoProc /\ reader = NoProc
          /\ \A p \in Procs : ~Alive(p) /\ ~Active(p)
      BY <2>1, <2>3, LifecycleAssumption
         DEF LifecycleAssumption, Coherent, Only, Numbered
    <3>3. UNCHANGED <<slotVars, readerVars>>
      BY <1>8 DEF Spawn
    <3>4. lifecycle # NoThread
      BY <1>8, LifecycleAssumption, MutexFacts
         DEF LifecycleAssumption, Spawn, Section
    <3>5. \A p \in Procs : ~Active(p)' /\ (Alive(p)' => p = spawned + 1)
      BY <2>3, <3>2, <3>3 DEF Alive, Active, readerVars
    <3>6. proc'[spawned + 1] = "starting"
      BY <2>3, <3>2
    <3> QED
      BY <2>3, <3>1, <3>2, <3>3, <3>4, <3>5, <3>6 DEF Stage, Moved, slotVars, readerVars
  <2> QED BY <1>8, <2>2, <2>3 DEF Spawn
<1>9. CASE InstallReady(t)
  <2>1. Moved(t, "unmark") /\ thr'[t].mine = thr[t].mine
    BY <1>9, GotoFacts DEF InstallReady, Kept
  <2>2. lifecycle # NoThread
    BY <1>9, LifecycleAssumption, MutexFacts
       DEF LifecycleAssumption, InstallReady, Section
  <2> QED
    BY <1>9, <2>1, <2>2
       DEF InstallReady, Stage, Moved, Alive, Active, readerVars
<1>10. CASE HandshakeFails(t)
  <2>1. Coherent'
    BY <1>10 DEF HandshakeFails, Stage, Coherent, Only, Alive, Active, Born,
                slotVars, readerVars
  <2> QED BY <1>10, <2>1, ReleaseFacts DEF HandshakeFails, Stage, Moved
<1>11. CASE ClearExpectedEof(t)
  <2>1. Moved(t, "wire") /\ thr'[t].mine = thr[t].mine
    BY <1>11, GotoFacts DEF ClearExpectedEof, Kept
  <2>2. lifecycle # NoThread
    BY <1>11, LifecycleAssumption, MutexFacts
       DEF LifecycleAssumption, ClearExpectedEof, Section
  <2> QED
    BY <1>11, <2>1, <2>2
       DEF ClearExpectedEof, Stage, Moved, Alive, Active, readerVars, worldVars
<1>12. CASE WireStdin(t)
  <2>1. Moved(t, "read") /\ thr'[t].mine = thr[t].mine
    BY <1>12, GotoFacts DEF WireStdin, Kept
  <2>2. lifecycle # NoThread
    BY <1>12, LifecycleAssumption, MutexFacts
       DEF LifecycleAssumption, WireStdin, Section
  <2> QED
    BY <1>12, <2>1, <2>2
       DEF WireStdin, Stage, Moved, Alive, Active, readerVars, worldVars
<1>13. CASE StartReader(t)
  <2>1. Coherent'
    BY <1>13 DEF StartReader, Stage, Coherent, Only, Alive, Active, Born,
                 slotVars, worldVars
  <2> QED BY <1>13, <2>1, ReleaseFacts DEF StartReader, Stage, Moved
<1> QED
  BY <1>2, <1>3, <1>4, <1>5, <1>6, <1>7, <1>8, <1>9, <1>10, <1>11, <1>12, <1>13
     DEF Transition

\* The process and the reader change nothing that is in place; only a teardown
\* that has marked its slot makes a helper quit.
LEMMA HelperKeeps ==
  ASSUME TypeOK, Callers, Mutex, Numbered, Held, Marked, NEW p \in Procs,
         HelperStep(p)
  PROVE  (Callers /\ Mutex /\ Numbered /\ Held /\ Marked)'
<1>1. UNCHANGED <<thr, lifecycle, slotVars, reader, spawned>>
  BY DEF HelperStep, Answer, Crash, QuitOnEof, ReadEnd, ReaderEof,
         Hangup, ReaderError, ReaderClassify, readerVars,
         worldVars
<1>2. /\ \A q \in Procs : /\ Alive(q)' => Alive(q)
                          /\ Active(q)' => Active(q)
                          /\ proc'[q] = "none" <=> proc[q] = "none"
      /\ crashed \subseteq crashed'
      /\ \A q \in crashed' \ crashed : proc[q] # "none"
  BY DEF TypeOK, HelperStep, Answer, Crash, QuitOnEof, ReadEnd, ReaderEof,
         Hangup, ReaderError, ReaderClassify, readerVars, worldVars, Alive, Active
<1>3. ASSUME NEW q \in Procs, Alive(q), ~Alive(q)'
      PROVE  q \in crashed' \/ QuitOnEof(q)
  BY <1>3 DEF TypeOK, HelperStep, Answer, Crash, QuitOnEof, ReadEnd, ReaderEof,
         Hangup, ReaderError, ReaderClassify, readerVars, worldVars, Alive
<1>4. ASSUME NEW q \in Procs, QuitOnEof(q)
      PROVE  expectedEof /\ \A t \in Threads : thr[t].pc \in Section =>
                                             thr[t].pc \in {"reap", "kill"}
  <2>1. PICK t \in Threads : thr[t].pc \in {"reap", "kill"}
    BY <1>4 DEF QuitOnEof
  <2>2. expectedEof
    BY <2>1 DEF Held, Stage
  <2>3. \A u \in Threads \ {t} : thr[u].pc \notin Section
    BY <2>1, MutexFacts DEF Section
  <2> QED BY <2>1, <2>2, <2>3
<1>5. Callers' /\ Mutex'
  BY <1>1 DEF Callers, Mutex
<1>6. Numbered'
  BY <1>1, <1>2 DEF Numbered, slotVars
<1>7. Coherent => Coherent'
  BY <1>1, <1>2 DEF Coherent, Only, Born, slotVars, TypeOK, Procs, NoProc
<1>8. ASSUME NEW t \in Threads PROVE Stage(t)'
  <2>1. Stage(t) /\ thr' = thr
    BY <1>1 DEF Held
  <2>2. CASE thr[t].pc \in {"begin", "unwire", "spawn"}
    BY <1>1, <1>7, <2>1, <2>2 DEF Stage, slotVars
  <2>3. CASE thr[t].pc \in {"reap", "kill", "join"}
    BY <1>1, <1>2, <2>1, <2>3 DEF Stage, Only, Born, slotVars, TypeOK, Procs, NoProc
  <2>4. CASE thr[t].pc = "handshake"
    BY <1>1, <1>2, <2>1, <2>4 DEF Stage, slotVars
  <2>5. CASE thr[t].pc \in {"unmark", "wire", "read"}
    <3>1. ~QuitOnEof(child)
      BY <1>4, <2>1, <2>5 DEF Stage, Section
    <3>2. Alive(child)' \/ child \in crashed'
      <4>1. child \in Procs /\ (Alive(child) \/ child \in crashed) /\ child' = child
        BY <1>1, <2>1, <2>5 DEF Stage, slotVars
      <4>2. proc'[child] \in {"starting", "up"} \/ child \in crashed'
        BY <1>2, <1>3, <3>1, <4>1 DEF Alive
      <4> QED BY <4>1, <4>2 DEF Alive, Procs, NoProc
    <3> QED BY <1>1, <1>2, <2>1, <2>5, <3>2 DEF Stage, slotVars, Alive
  <2> QED BY <2>1, <2>2, <2>3, <2>4, <2>5 DEF Stage
<1>9. Held'
  BY <1>1, <1>7, <1>8 DEF Held
<1>10. ASSUME NEW q \in Procs
       PROVE  /\ readerPc'[q] = "classify" => proc'[q] = "exited" \/ q \in crashed'
              /\ Active(q)' /\ ~Alive(q)' => expectedEof' \/ q \in crashed'
  <2>1. readerPc'[q] = "classify" => proc'[q] = "exited" \/ q \in crashed'
    BY DEF TypeOK, Marked, HelperStep, Answer, Crash, QuitOnEof, ReadEnd, ReaderEof,
         Hangup, ReaderError, ReaderClassify, readerVars, worldVars
  <2>2. Active(q)' /\ ~Alive(q)' => expectedEof' \/ q \in crashed'
    <3>1. CASE Alive(q)
      BY <1>1, <1>3, <1>4, <3>1 DEF slotVars
    <3>2. CASE ~Alive(q)
      BY <1>1, <1>2, <3>2 DEF Marked, slotVars
    <3> QED BY <3>1, <3>2
  <2> QED BY <2>1, <2>2
<1> QED BY <1>5, <1>6, <1>9, <1>10 DEF Marked

-----------------------------------------------------------------------------
(* The verdict of a cue.                                                   *)

LEMMA OneChild ==
  ASSUME TypeOK, Mutex, Held
  PROVE  /\ stdin # NoProc => stdin = child
         /\ child # NoProc => Only(child)
<1>1. CASE lifecycle = NoThread
  BY <1>1 DEF Held, Coherent
<1>2. CASE lifecycle # NoThread
  <2>1. lifecycle \in Threads
    BY <1>2 DEF TypeOK
  <2>2. thr[lifecycle].pc \in Section /\ Stage(lifecycle)
    BY <2>1 DEF Mutex, Held
  <2> QED BY <2>1, <2>2 DEF Stage, Section, Coherent, Only
<1> QED BY <1>1, <1>2

\* What the verdict of a thread that stands still depends on.
LEMMA VerdictFrame ==
  ASSUME NEW u \in Threads, Verdict(u), thr'[u] = thr[u],
         UNCHANGED <<generation, child>>,
         slot'["cue"].dead => slot["cue"].dead,
         \A p \in Procs : Alive(p)' => Alive(p), crashed \subseteq crashed', TypeOK
  PROVE  Verdict(u)'
<1>1. \A p \in 0..MaxSpawns : Alive(p)' => Alive(p)
  BY DEF Alive, Procs, NoProc
<1>2. child \in 0..MaxSpawns /\ thr[u].mine \in 0..MaxSpawns
  BY DEF TypeOK, CallState
<1>3. Alive(child)' => Alive(child)
  BY <1>1, <1>2 DEF Alive
<1>4. Alive(thr[u].mine)' => Alive(thr[u].mine)
  BY <1>1, <1>2 DEF Alive
<1> QED BY <1>3, <1>4 DEF Verdict, Waiting, Silent

LEMMA RequestVerdicts ==
  ASSUME TypeOK, Callers, Mutex, Held, Verdicts, NEW t \in Threads,
         Request(t) \/ HelperReads(t) \/ \E op \in Ops : Call(t, op)
  PROVE  Verdicts'
<1>1. Outside(t)
  BY CallMoves, RequestMoves
<1>2. UNCHANGED <<generation, child, crashed>> /\ \A p : Alive(p)' <=> Alive(p)
  BY <1>1 DEF Outside, slotVars, Alive
<1>3. slot'["cue"].dead => slot["cue"].dead
  <2>1. CASE ResetSlot(t)
    BY <2>1 DEF ResetSlot, TypeOK, Kinds, EmptySlot
  <2>2. ~ResetSlot(t) => UNCHANGED slot
    BY DEF Request, Call, Ensure, Check, TakeCueLease, TakeGeneration, WriteRequest,
           WriteBreaks, HelperReads, WakeAnswered, WakeDead, Timeout
  <2> QED BY <2>1, <2>2
<1>4. ASSUME NEW u \in Threads \ {t} PROVE Verdict(u)'
  BY <1>1, <1>2, <1>3, <1>4, VerdictFrame DEF Outside, Moved, Verdicts
<1>5. Verdict(t)'
  <2>1. Verdict(t)
    BY DEF Verdicts
  <2>2. thr'[t].gen <= generation'
    <3>1. CASE TakeGeneration(t)
      BY <1>2, <2>1, <3>1, ReturnFacts DEF TakeGeneration, Resting, TypeOK, CallState
    <3>2. ASSUME NEW pc, thr' = [thr EXCEPT ![t].pc = pc, ![t].sentTo = stdin]
          PROVE  thr'[t].gen <= generation'
      BY <1>2, <2>1, <3>2 DEF Verdict, TypeOK, CallState
    <3>3. ASSUME NEW op \in Ops, Call(t, op) PROVE thr'[t].gen = 0
      BY <3>3 DEF Call, TypeOK, Resting
    <3>4. CASE Ensure(t)
      BY <1>2, <2>1, <3>4, GotoFacts, LockForFacts, ReturnFacts
         DEF Ensure, Kept, Resting, Verdict, TypeOK
    <3>5. CASE Check(t) \/ TakeCueLease(t) \/ ResetSlot(t)
      BY <1>2, <2>1, <3>5, GotoFacts, ReturnFacts
         DEF Check, TakeCueLease, ResetSlot, Kept, Resting, Verdict, TypeOK
    <3>6. CASE WakeAnswered(t) \/ WakeDead(t) \/ Timeout(t)
      BY <1>2, <2>1, <3>6, LockForFacts, ReturnFacts
         DEF WakeAnswered, WakeDead, Timeout, Resting, Verdict, TypeOK
    <3>7. CASE HelperReads(t)
      BY <1>2, <2>1, <3>7, GotoFacts DEF HelperReads, Kept, Verdict, TypeOK
    <3>8. CASE LockFor(t, "dead")
      BY <1>2, <2>1, <3>8, LockForFacts DEF Verdict, TypeOK
    <3>9. CASE WriteRequest(t) \/ WriteBreaks(t)
      BY <3>2, <3>8, <3>9 DEF WriteRequest, WriteBreaks
    <3>10. generation >= 0
      BY DEF TypeOK
    <3> QED
      BY <1>2, <3>1, <3>3, <3>4, <3>5, <3>6, <3>7, <3>9, <3>10 DEF Request
  <2>3. ASSUME thr'[t].pc \notin {"reset", "write", "blocked", "wait", "lock"}
        PROVE  Verdict(t)'
    BY <1>1, <2>2, <2>3 DEF Verdict, Waiting, Outside, Moved, Section
  <2>4. ASSUME thr'[t].pc = "lock", thr'[t].want # "deadIfCurrent"
        PROVE  Verdict(t)'
    BY <2>2, <2>4 DEF Verdict, Waiting
  <2>5. ASSUME NEW op \in Ops, Call(t, op)
        PROVE  Verdict(t)'
    <3>1. /\ thr'[t].pc \in {"ensure", "lock", "reset", "lease"}
          /\ thr'[t].op = op
          /\ thr'[t].pc = "reset" => op = "play"
          /\ thr'[t].want # "deadIfCurrent"
      BY <2>5 DEF Call, TypeOK, Resting, Ops, Kinds
    <3> QED BY <2>2, <3>1 DEF Verdict, Waiting
  <2>6. CASE Ensure(t)
    BY <2>3, <2>4, <2>6, GotoFacts, LockForFacts, ReturnFacts DEF Ensure, Moved
  <2>7. CASE Check(t)
    <3>1. CASE child = NoProc
      BY <2>3, <2>7, <3>1, ReturnFacts DEF Check, Moved
    <3>2. CASE child # NoProc
      BY <2>2, <2>7, <3>2, GotoFacts DEF Check, Moved, Kept, Verdict, Waiting
    <3> QED BY <3>1, <3>2
  <2>8. CASE TakeCueLease(t)
    BY <2>3, <2>8, GotoFacts DEF TakeCueLease, Moved
  <2>9. CASE TakeGeneration(t)
    <3>1. CASE child = NoProc
      BY <2>3, <2>9, <3>1, ReturnFacts DEF TakeGeneration, Moved
    <3>2. CASE child # NoProc
      <4>1. /\ thr'[t].pc = IF thr[t].op = "cue" THEN "reset" ELSE "write"
            /\ thr'[t].op = thr[t].op /\ thr'[t].gen = generation
        BY <2>9, <3>2 DEF TakeGeneration, TypeOK, CallState
      <4> QED BY <1>2, <4>1 DEF Verdict, Waiting, TypeOK
    <3> QED BY <3>1, <3>2
  <2>10. CASE ResetSlot(t)
    <3>1. /\ Kept(t)
          /\ thr'[t].pc = IF thr[t].op = "play" THEN "gen" ELSE "write"
      BY <2>10, GotoFacts DEF ResetSlot, Moved
    <3>2. thr[t].op = "cue" => ~slot'["cue"].dead
      BY <2>10 DEF ResetSlot, TypeOK, Kinds, EmptySlot
    <3> QED BY <1>2, <2>1, <2>10, <3>1, <3>2 DEF ResetSlot, Kept, Verdict, Waiting, Silent
  <2>11. CASE WriteRequest(t)
    <3>1. CASE LockFor(t, "dead")
      BY <2>4, <3>1, LockForFacts DEF Moved
    <3>2. ASSUME NEW pc \in {"wait", "blocked"}, stdin # NoProc,
                 thr' = [thr EXCEPT ![t].pc = pc, ![t].sentTo = stdin]
          PROVE  Verdict(t)'
      <4>1. /\ thr'[t].pc = pc /\ thr'[t].sentTo = stdin
            /\ thr'[t].op = thr[t].op /\ thr'[t].gen = thr[t].gen
        BY <3>2 DEF TypeOK, CallState
      <4>2. stdin = child
        BY <3>2, OneChild
      <4>3. UNCHANGED slot
        BY <2>11 DEF WriteRequest
      <4> QED BY <1>2, <2>1, <2>11, <4>1, <4>2, <4>3
         DEF WriteRequest, Verdict, Waiting, Silent
    <3> QED BY <2>11, <3>1, <3>2 DEF WriteRequest
  <2>12. CASE WriteBreaks(t)
    BY <2>4, <2>12, LockForFacts DEF WriteBreaks, Moved
  <2>13. CASE HelperReads(t)
    <3>1. /\ Kept(t) /\ thr'[t].pc = "wait" /\ thr[t].pc = "blocked" /\ UNCHANGED slot
      BY <2>13, GotoFacts DEF HelperReads, Moved
    <3> QED BY <1>2, <2>1, <3>1 DEF Kept, Verdict, Waiting, Silent
  <2>14. CASE WakeAnswered(t)
    BY <2>3, <2>14, ReturnFacts DEF WakeAnswered, Moved
  <2>15. CASE WakeDead(t) \/ Timeout(t)
    <3>1. /\ thr'[t].pc = "lock" /\ thr'[t].op = thr[t].op
          /\ thr'[t].gen = thr[t].gen /\ thr'[t].sentTo = thr[t].sentTo
          /\ thr[t].pc = "wait" /\ UNCHANGED slot
      BY <2>15, LockForFacts DEF WakeDead, Timeout, Moved
    <3> QED BY <1>2, <2>1, <3>1 DEF Verdict, Waiting, Silent
  <2> QED
    BY <2>5, <2>6, <2>7, <2>8, <2>9, <2>10, <2>11, <2>14, <2>15,
       <2>12, <2>13 DEF Request
<1> QED BY <1>4, <1>5 DEF Verdicts

LEMMA HelperVerdicts ==
  ASSUME TypeOK, Mutex, Held, Marked, Verdicts, NEW p \in Procs,
         HelperStep(p)
  PROVE  Verdicts'
<1>1. UNCHANGED <<thr, generation, child>>
  BY DEF HelperStep, Answer, Crash, QuitOnEof, ReadEnd, ReaderEof,
         Hangup, ReaderError, ReaderClassify, slotVars
<1>2. \A q \in Procs : Alive(q)' => Alive(q)
  BY DEF TypeOK, HelperStep, Answer, Crash, QuitOnEof, ReadEnd, ReaderEof,
         Hangup, ReaderError, ReaderClassify, worldVars, Alive
<1>3. crashed \subseteq crashed'
  BY DEF HelperStep, Answer, Crash, QuitOnEof, ReadEnd, ReaderEof,
         Hangup, ReaderError, ReaderClassify, worldVars
<1>4. CASE slot'["cue"].dead => slot["cue"].dead
  BY <1>1, <1>2, <1>3, <1>4, VerdictFrame DEF Verdicts
<1>5. CASE ReaderEof(p) \/ ReaderError(p)
  <2>1. Active(p) /\ Silent(p)'
    BY <1>5 DEF ReaderEof, ReaderError, Hangup, Active, Alive, Silent, TypeOK, Procs
  <2>2. child # NoProc => child = p
    BY <2>1, OneChild DEF Only
  <2>3. ASSUME NEW t \in Threads PROVE Verdict(t)'
    <3>1. Verdict(t) /\ thr' = thr
      BY <1>1 DEF Verdicts
    <3>2. thr[t].pc = "kill" => thr[t].mine = p
      BY <2>1 DEF Held, Stage, Only
    <3>3. ~Alive(child) => ~Alive(child)'
      BY <1>1, <1>2, <2>2 DEF Alive, NoProc
    <3>4. ~Alive(p) => ~Alive(p)'
      BY <1>2
    <3>5. child # NoProc => Silent(child)'
      BY <1>1, <2>1, <2>2
    <3> QED BY <1>1, <2>1, <3>1, <3>2, <3>3, <3>4, <3>5 DEF Verdict, Waiting
  <2> QED BY <2>3 DEF Verdicts
<1>6. ~ReaderEof(p) /\ ~ReaderError(p) => (slot'["cue"].dead => slot["cue"].dead)
  BY DEF HelperStep, Answer, Crash, QuitOnEof, ReadEnd, ReaderClassify, TypeOK, Kinds
<1> QED BY <1>4, <1>5, <1>6

LEMMA TransitionVerdicts ==
  ASSUME TypeOK, Callers, Mutex, Numbered, Held, Verdicts,
         NEW t \in Threads, Transition(t)
  PROVE  Verdicts'
<1>1. /\ \A u \in Threads \ {t} : thr'[u] = thr[u] /\ thr[u].pc \notin Section
      /\ Verdict(t)
  <2>1. thr[t].pc \in Section \/ lifecycle = NoThread
    BY DEF Transition, Acquire, BeginTeardown, DropStdin, Reap, Kill, JoinReader,
           Spawn, InstallReady, HandshakeFails, ClearExpectedEof, WireStdin, StartReader,
           Section
  <2> QED BY <2>1, MutexFacts, TransitionMoves DEF Moved, Verdicts
<1>2. UNCHANGED <<slot, crashed>>
  BY DEF Transition, Acquire, BeginTeardown, DropStdin, Reap, Kill, JoinReader,
         Spawn, InstallReady, HandshakeFails, ClearExpectedEof, WireStdin, StartReader,
         worldVars
\* A later generation, an empty slot, or the same child no more alive.
<1>3. \/ generation' = generation + 1
      \/ /\ generation' = generation
         /\ \/ child' = NoProc
            \/ child' = child /\ (Alive(child)' => Alive(child))
  <2> USE DEF TypeOK, slotVars, worldVars
  <2>1. CASE UNCHANGED <<generation, child, proc>>
    BY <2>1 DEF Alive
  <2>2. CASE Reap(t)
    BY <2>2 DEF Reap
  <2>3. CASE Kill(t)
    BY <2>3 DEF Kill, Held, Stage
  <2>4. CASE Spawn(t)
    BY <2>1, <2>4 DEF Spawn
  <2>5. CASE InstallReady(t)
    BY <2>5 DEF InstallReady
  <2>6. CASE HandshakeFails(t)
    BY <2>6 DEF HandshakeFails, Held, Stage
  <2> QED
    BY <2>1, <2>2, <2>3, <2>4, <2>5, <2>6
       DEF Transition, Acquire, BeginTeardown, DropStdin, JoinReader, ClearExpectedEof,
           WireStdin, StartReader
<1>4. ASSUME NEW u \in Threads \ {t} PROVE Verdict(u)'
  <2>1. Verdict(u) /\ thr'[u] = thr[u] /\ thr[u].pc \notin {"begin", "unwire", "reap", "kill"}
    BY <1>1, <1>4 DEF Verdicts, Section
  <2>2. thr[u].gen \in Nat /\ generation \in Nat
    BY LifecycleAssumption DEF LifecycleAssumption, TypeOK, CallState
  <2>3. CASE generation' = generation + 1
    BY <2>1, <2>2, <2>3 DEF Verdict, Waiting
  <2>4. CASE generation' = generation /\ child' = NoProc
    BY <2>1, <2>4 DEF Verdict, Waiting
  <2>5. CASE generation' = generation /\ child' = child /\ (Alive(child)' => Alive(child))
    BY <1>2, <2>1, <2>5 DEF Verdict, Waiting, Silent
  <2> QED BY <1>3, <2>3, <2>4, <2>5
<1>5. thr'[t].gen <= generation'
  <2>1. thr[t].gen \in Nat /\ generation \in Nat /\ thr[t].gen <= generation
    BY <1>1, LifecycleAssumption DEF LifecycleAssumption, TypeOK, CallState, Verdict
  <2>2. thr'[t].gen \in {thr[t].gen, 0}
    <3>1. ASSUME NEW pc, Goto(t, pc) PROVE thr'[t].gen = thr[t].gen
      BY <3>1, GotoFacts DEF Kept
    <3>2. ASSUME Return(t) PROVE thr'[t].gen = 0
      BY <3>2, ReturnFacts DEF Resting
    <3>3. ASSUME Release(t) PROVE thr'[t].gen \in {thr[t].gen, 0}
      BY <3>2, <3>3 DEF Release, TypeOK, CallState
    <3>4. CASE Acquire(t)
      <4>1. thr[t].want \in Wants \ {"none"}
        BY <3>4 DEF Acquire, TypeOK, CallState, Callers
      <4>2. Return(t) \/ \E pc : Goto(t, pc)
        BY <3>4, <4>1 DEF Acquire, Wants
      <4> QED BY <3>1, <3>2, <4>2
    <3>5. CASE Reap(t)
      BY <3>5 DEF Reap, TypeOK, CallState
    <3>6. CASE Spawn(t)
      BY <3>3, <3>6 DEF Spawn, TypeOK, CallState
    <3> QED
      BY <3>1, <3>3, <3>4, <3>5, <3>6
         DEF Transition, BeginTeardown, DropStdin, Kill, JoinReader, InstallReady, HandshakeFails,
             ClearExpectedEof, WireStdin, StartReader
  <2>3. generation' >= generation /\ generation' \in Nat
    BY <1>3, <2>1
  <2> QED BY <2>1, <2>2, <2>3
<1>6. Verdict(t)'
  <2>1. ASSUME thr'[t].pc \notin {"write", "blocked", "wait", "lock",
                                  "begin", "unwire", "reap", "kill"}
        PROVE  Verdict(t)'
    BY <1>5, <2>1 DEF Verdict, Waiting
  <2>2. CASE Acquire(t)
    <3>1. /\ thr[t].want \in Wants \ {"none"} /\ thr[t].pc = "lock"
          /\ UNCHANGED <<generation, child, proc, slot>>
      BY <2>2 DEF Acquire, TypeOK, CallState, Callers, slotVars, worldVars
    <3>2. \/ Return(t)
          \/ Goto(t, "spawn")
          \/ /\ Goto(t, "begin")
             /\ thr[t].want = "deadIfCurrent" => generation = thr[t].gen
             /\ thr[t].want = "heal" => ~Alive(child)
      BY <2>2, <3>1 DEF Acquire, Wants, Superseded
    <3>3. CASE Return(t) \/ Goto(t, "spawn")
      BY <2>1, <3>3, ReturnFacts, GotoFacts DEF Moved
    <3>4. CASE /\ Goto(t, "begin")
               /\ thr[t].want = "deadIfCurrent" => generation = thr[t].gen
               /\ thr[t].want = "heal" => ~Alive(child)
      <4>1. Kept(t) /\ thr'[t].pc = "begin"
        BY <3>4, GotoFacts DEF Moved
      <4> QED BY <1>1, <1>2, <1>5, <3>1, <3>4, <4>1 DEF Kept, Verdict, Waiting, Alive, Silent
    <3> QED BY <3>2, <3>3, <3>4
  <2>3. CASE BeginTeardown(t) \/ DropStdin(t)
    <3>1. /\ Kept(t) /\ thr'[t].pc \in {"unwire", "reap"}
          /\ thr[t].pc \in {"begin", "unwire"}
          /\ UNCHANGED <<generation, child, proc, slot>>
      BY <2>3, GotoFacts DEF BeginTeardown, DropStdin, Moved, worldVars
    <3> QED BY <1>1, <1>2, <1>5, <3>1 DEF Kept, Verdict, Waiting, Alive, Silent
  <2>4. CASE Reap(t)
    <3>1. /\ thr'[t].pc = IF child = NoProc THEN "join" ELSE "kill"
          /\ thr'[t].mine = child /\ thr'[t].op = thr[t].op
          /\ thr'[t].want = thr[t].want /\ thr'[t].sentTo = thr[t].sentTo
          /\ thr[t].pc = "reap" /\ UNCHANGED <<proc, slot>>
      BY <2>4 DEF Reap, TypeOK, CallState, worldVars
    <3>2. CASE child = NoProc
      BY <2>1, <3>1, <3>2
    <3>3. CASE child # NoProc
      BY <1>1, <1>2, <1>5, <3>1, <3>3 DEF Verdict, Waiting, Alive, Silent
    <3> QED BY <3>2, <3>3
  <2>5. CASE Spawn(t)
    <3>1. CASE Release(t)
      BY <2>1, <3>1, ReleaseFacts DEF Moved
    <3>2. CASE thr' = [thr EXCEPT ![t].pc = "handshake", ![t].mine = spawned + 1]
      BY <2>1, <3>2 DEF TypeOK, CallState
    <3> QED BY <2>5, <3>1, <3>2 DEF Spawn
  <2>6. CASE JoinReader(t) \/ HandshakeFails(t) \/ StartReader(t)
    BY <2>1, <2>6, GotoFacts, ReleaseFacts
       DEF JoinReader, HandshakeFails, StartReader, Moved
  <2>7. CASE Kill(t) \/ InstallReady(t) \/ ClearExpectedEof(t) \/ WireStdin(t)
    BY <2>1, <2>7, GotoFacts
       DEF Kill, InstallReady, ClearExpectedEof, WireStdin, Moved
  <2> QED BY <2>2, <2>3, <2>4, <2>5, <2>6, <2>7 DEF Transition
<1> QED BY <1>4, <1>6 DEF Verdicts

-----------------------------------------------------------------------------
(* The theorems.                                                           *)

LEMMA FalseCrashStep ==
  ASSUME TypeOK, Marked, NoFalseCrash, [Next]_vars
  PROVE  NoFalseCrash'
<1>1. CASE UNCHANGED vars
  BY <1>1 DEF vars, readerVars, worldVars, NoFalseCrash
<1>2. ASSUME NEW p \in Procs, ReaderClassify(p)
      PROVE  NoFalseCrash'
  BY <1>2 DEF ReaderClassify, Marked, Active, Alive, NoFalseCrash, worldVars
<1>3. CASE UNCHANGED reported /\ crashed \subseteq crashed'
  BY <1>3 DEF NoFalseCrash
<1>4. ASSUME NEW t \in Threads,
             (\E op \in Ops : Call(t, op)) \/ Request(t) \/ HelperReads(t)
      PROVE  UNCHANGED <<reported, crashed>>
  BY <1>4 DEF Call, Request, Ensure, Check, TakeCueLease, TakeGeneration, ResetSlot,
              WriteRequest, WriteBreaks, HelperReads, WakeAnswered, WakeDead, Timeout,
              readerVars, worldVars
<1>5. ASSUME NEW t \in Threads, Transition(t)
      PROVE  UNCHANGED <<reported, crashed>>
  BY <1>5 DEF Transition, Acquire, BeginTeardown, DropStdin, Reap, Kill, JoinReader,
              Spawn, InstallReady, HandshakeFails, ClearExpectedEof, WireStdin, StartReader,
              readerVars, worldVars
<1>6. ASSUME NEW p \in Procs,
             \/ \E k \in Kinds : Answer(p, k)
             \/ Crash(p) \/ QuitOnEof(p) \/ ReaderEof(p) \/ ReaderError(p)
      PROVE  UNCHANGED reported /\ crashed \subseteq crashed'
  BY <1>6 DEF Answer, Crash, QuitOnEof, ReaderEof, Hangup, ReaderError, readerVars, worldVars
<1> QED BY <1>1, <1>2, <1>3, <1>4, <1>5, <1>6 DEF Next, ReadEnd

LEMMA Begins == Init => IInv
<1> SUFFICES ASSUME Init PROVE IInv
  OBVIOUS
<1>1. TypeOK
  BY TypeInit
<1>2. \A t \in Threads : thr[t] = Resting
  BY DEF Init
<1>3. \A p \in Procs : ~Alive(p) /\ ~Active(p) /\ proc[p] = "none"
  BY DEF Init, Alive, Active
<1>4. Mutex /\ Callers
  BY <1>2, LifecycleAssumption
     DEF LifecycleAssumption, Init, Mutex, Callers, Resting, Section
<1>5. Numbered /\ Marked /\ NoFalseCrash
  BY <1>3 DEF Init, Numbered, Marked, NoFalseCrash, Active
<1>6. Held
  BY <1>2, <1>3 DEF Init, Held, Stage, Coherent, Only, Born, Resting, NoProc
<1>7. Verdicts
  BY <1>2 DEF Init, Verdicts, Verdict, Waiting, Resting
<1> QED BY <1>1, <1>4, <1>5, <1>6, <1>7 DEF IInv

LEMMA Continues == IInv /\ [Next]_vars => IInv'
<1> SUFFICES ASSUME IInv, [Next]_vars PROVE IInv'
  OBVIOUS
<1> USE DEF IInv
<1>1. CASE UNCHANGED vars
  <2>1. UNCHANGED <<lifecycle, child, generation, expectedEof, stdin, reader, readerPc,
                    lastError, slot, lease, thr, proc, asked, spawned, crashed,
                    reported, calls>>
    BY <1>1 DEF vars
  <2> QED
    BY <2>1 DEF TypeOK, Mutex, Callers, Numbered, Held, Marked, Verdicts, NoFalseCrash,
                Stage, Coherent, Only, Born, Alive, Active, Verdict, Waiting, Silent
<1>2. NoFalseCrash'
  BY FalseCrashStep
<1>3. ASSUME NEW t \in Threads,
             (\E op \in Ops : Call(t, op)) \/ Request(t) \/ HelperReads(t)
      PROVE  IInv'
  BY <1>2, <1>3, CallType, RequestType, CallMoves, RequestMoves, OutsideKeeps,
     RequestVerdicts
<1>4. ASSUME NEW t \in Threads, Transition(t)
      PROVE  IInv'
  BY <1>2, <1>4, TransitionType, TransitionMoves, TransitionMutex, TransitionNumbered,
     TransitionMarked, TransitionHeld, TransitionVerdicts
<1>5. ASSUME NEW p \in Procs, HelperStep(p)
      PROVE  IInv'
  BY <1>2, <1>5, HelperType, HelperKeeps, HelperVerdicts
<1> QED BY <1>1, <1>3, <1>4, <1>5 DEF Next, HelperStep

LEMMA Invariance == Spec => []IInv
BY Begins, Continues, PTL DEF Spec

\* Every variable keeps its type; in particular a generation is never counted
\* without a process of its own (ChildSlot::install).
THEOREM LifecycleTypes == Spec => []TypeOK
BY Invariance, PTL DEF IInv

\* Between transitions the slot, the pipe and the reader name the same child,
\* and no other process lives or is read from (start_locked, stop_child,
\* mark_dead_locked).
THEOREM SlotCoheres == Spec => []SlotIsCoherent
<1>1. IInv => SlotIsCoherent
  BY DEF IInv, Held, Coherent, Only, Active, SlotIsCoherent
<1> QED BY <1>1, Invariance, PTL

\* A cue's stale word never costs a replacement its life, and the healer never
\* kills a living child (mark_dead_if_current, restart_if_crashed).
THEOREM CuesKillTheirOwn == Spec => []OnlyItsOwnChild
<1>1. IInv => OnlyItsOwnChild
  BY DEF IInv, Verdicts, Verdict, Silent, OnlyItsOwnChild
<1> QED BY <1>1, Invariance, PTL

\* What the reader reports as a crash is one (begin_deliberate_stop before the
\* pipe is dropped, join_reader before install clears the mark).
THEOREM CrashesAreReal == Spec => []NoFalseCrash
<1>1. IInv => NoFalseCrash
  BY DEF IInv
<1> QED BY <1>1, Invariance, PTL

-----------------------------------------------------------------------------
(* One helper at a time.                                                   *)

LEMMA AtMostOne ==
  ASSUME TypeOK, Mutex, Held
  PROVE  \A p, q \in Procs : Alive(p) /\ Alive(q) => p = q
<1>1. CASE lifecycle = NoThread
  BY <1>1 DEF Held, Coherent, Only
<1>2. CASE lifecycle # NoThread
  <2>1. lifecycle \in Threads
    BY <1>2 DEF TypeOK
  <2>2. thr[lifecycle].pc \in Section /\ Stage(lifecycle)
    BY <2>1 DEF Mutex, Held
  <2> QED BY <2>2 DEF Stage, Section, Coherent, Only
<1> QED BY <1>1, <1>2

LEMMA Living ==
  ASSUME NEW q \in Procs, Alive(q), \A p \in Procs : Alive(p) => p = q
  PROVE  LivingProc = q
BY DEF LivingProc

LEMMA LivingNext ==
  ASSUME NEW q \in Procs, Alive(q)', \A p \in Procs : Alive(p)' => p = q
  PROVE  LivingProc' = q
BY DEF LivingProc

\* A step that keeps who lives stutters, one that ends a life dies.
LEMMA LivesKept ==
  ASSUME IInv, IInv', UNCHANGED spawned, \A p \in Procs : Alive(p)' => Alive(p)
  PROVE  [Abstract!Next]_<<LivingProc, spawned>>
<1>1. CASE \E p \in Procs : Alive(p)'
  <2>1. PICK q \in Procs : Alive(q)' /\ Alive(q)
    BY <1>1
  <2>2. LivingProc = q /\ LivingProc' = q
    BY <2>1, AtMostOne, Living, LivingNext DEF IInv
  <2> QED BY <2>2
<1>2. CASE ~\E p \in Procs : Alive(p)'
  <2>1. LivingProc' = 0
    BY <1>2 DEF LivingProc, NoProc
  <2>2. CASE \E p \in Procs : Alive(p)
    <3>1. LivingProc # 0
      BY <2>2, AtMostOne, Living DEF IInv, Procs
    <3> QED BY <2>1, <3>1 DEF Abstract!Next, Abstract!Die
  <2>3. CASE ~\E p \in Procs : Alive(p)
    BY <2>1, <2>3 DEF LivingProc, NoProc
  <2> QED BY <2>2, <2>3
<1> QED BY <1>1, <1>2

LEMMA OneHelperStep ==
  IInv /\ IInv' /\ [Next]_vars => [Abstract!Next]_<<LivingProc, spawned>>
<1> SUFFICES ASSUME IInv, IInv', [Next]_vars
             PROVE  [Abstract!Next]_<<LivingProc, spawned>>
  OBVIOUS
<1>1. CASE UNCHANGED <<proc, spawned>>
  BY <1>1, LivesKept DEF Alive
<1>2. ASSUME NEW t \in Threads, Spawn(t), ~UNCHANGED <<proc, spawned>>
      PROVE  [Abstract!Next]_<<LivingProc, spawned>>
  <2>1. /\ child = NoProc /\ spawned < MaxSpawns /\ spawned' = spawned + 1
        /\ proc' = [proc EXCEPT ![spawned + 1] = "starting"]
    BY <1>2 DEF Spawn, worldVars
  <2>2. \A p \in Procs : ~Alive(p)
    BY <1>2, <2>1 DEF IInv, Spawn, Held, Stage, Coherent, Only, Procs, NoProc
  <2>3. LivingProc = 0
    BY <2>2 DEF LivingProc, NoProc
  <2>4. spawned + 1 \in Procs
    BY <2>1, LifecycleAssumption DEF LifecycleAssumption, IInv, TypeOK, Procs
  <2>5. PICK q \in Procs : q = spawned + 1
    BY <2>4
  <2>6. Alive(q)' /\ \A p \in Procs : Alive(p)' => p = q
    <3>1. proc'[q] = "starting" /\ \A p \in Procs \ {q} : proc'[p] = proc[p]
      BY <2>1, <2>5 DEF IInv, TypeOK
    <3> QED BY <2>2, <2>5, <3>1 DEF Alive, Procs, NoProc
  <2>7. LivingProc' = q
    BY <2>5, <2>6, LivingNext
  <2> QED BY <2>1, <2>3, <2>5, <2>7 DEF Abstract!Next, Abstract!Spawn
<1>3. ASSUME NEW t \in Threads, InstallReady(t) \/ HandshakeFails(t) \/ Kill(t)
      PROVE  [Abstract!Next]_<<LivingProc, spawned>>
  <2>1. UNCHANGED spawned
    BY <1>3 DEF InstallReady, HandshakeFails, Kill
  <2>2. \A p \in Procs : Alive(p)' => Alive(p)
    BY <1>3 DEF InstallReady, HandshakeFails, Kill, Alive, IInv, TypeOK
  <2> QED BY <2>1, <2>2, LivesKept
<1>4. ASSUME NEW p \in Procs, Crash(p) \/ QuitOnEof(p)
      PROVE  [Abstract!Next]_<<LivingProc, spawned>>
  <2>1. UNCHANGED spawned /\ \A q \in Procs : Alive(q)' => Alive(q)
    BY <1>4 DEF Crash, QuitOnEof, Alive, IInv, TypeOK
  <2> QED BY <2>1, LivesKept
<1>5. ASSUME NEW p \in Procs,
             (\E k \in Kinds : Answer(p, k)) \/ ReadEnd(p) \/ ReaderError(p)
      PROVE  UNCHANGED <<proc, spawned>>
  BY <1>5 DEF Answer, ReadEnd, ReaderEof, Hangup, ReaderError, ReaderClassify, worldVars
<1>6. ASSUME NEW t \in Threads,
             (\E op \in Ops : Call(t, op)) \/ Request(t) \/ HelperReads(t)
      PROVE  UNCHANGED <<proc, spawned>>
  BY <1>6, CallMoves, RequestMoves DEF IInv, Outside
<1>7. ASSUME NEW t \in Threads,
             \/ Acquire(t) \/ BeginTeardown(t) \/ DropStdin(t) \/ Reap(t) \/ JoinReader(t)
             \/ ClearExpectedEof(t) \/ WireStdin(t) \/ StartReader(t)
      PROVE  UNCHANGED <<proc, spawned>>
  BY <1>7 DEF Acquire, BeginTeardown, DropStdin, Reap, JoinReader, ClearExpectedEof,
              WireStdin, StartReader, worldVars
<1>8. UNCHANGED vars => UNCHANGED <<proc, spawned>>
  BY DEF vars, worldVars
<1> QED
  BY <1>1, <1>2, <1>3, <1>4, <1>5, <1>6, <1>7, <1>8 DEF Next, Transition

\* At most one ds-helper lives, whoever starts, kills, heals or reloads it:
\* the manager implements OneHelper.
THEOREM ImplementsOneHelper == Spec => AbstractSpec
<1>1. Init => Abstract!Init
  BY DEF Init, Abstract!Init, LivingProc, Alive, NoProc
<1> QED
  BY <1>1, OneHelperStep, Invariance, PTL DEF Spec, AbstractSpec, Abstract!Spec
=============================================================================
