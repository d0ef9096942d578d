----------------------------- MODULE MCTtsQueue -----------------------------
(* Small instances of TtsQueue: two utterances of one terminal or of two,    *)
(* and one needs_input cue; the threads of the engine and what each issues.  *)
EXTENDS TtsQueue, TLC

CONSTANTS u1, u2, k1, sA, sB, engine, watcher, ipc

TagA == RealTag(sA)
TagB == RealTag(sB)

TwoTerminals ==
  [i \in Items |-> IF i = u1 THEN TagA ELSE IF i = u2 THEN TagB
                                            ELSE StickyTag(sA)]
NoRoutes == [i \in Items |-> NoSession]
\* u2 was queued by an MCP call routed from terminal A to a pane of its own.
RoutedFromA == [i \in Items |-> IF i = u2 THEN TagA ELSE NoSession]

TargetA == {TagA}

RoomForTwo == [speech |-> 2, cue |-> 1]

\* The Caps gesture thread, the barge watcher, and a server thread's mark.
ThreadOps ==
  (engine :> {"dictation", "resume", "clear", "skip"})
  @@ (watcher :> {"barge", "resumeBarge"})
  @@ (ipc :> {"setActive"})
SessionOps ==
  (engine :> {"dictation", "resume"})
  @@ (ipc :> {"clearSession", "submit"})

\* What each counterexample needs.
LongPressOps == (engine :> {"dictation", "clear"})
TapOps == (engine :> {"dictation", "resume"})
=============================================================================
