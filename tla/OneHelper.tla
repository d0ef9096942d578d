------------------------------ MODULE OneHelper ------------------------------
(* What the engine promises about its warm ds-helper: at any moment at most  *)
(* one process of it lives, each a new incarnation.  HelperLifecycle shows   *)
(* that TtsManager keeps this although a play, a cue, a listen, a heal, a    *)
(* config reload and a shutdown may all start, kill or reap the child.       *)
EXTENDS Naturals

VARIABLES living, \* the incarnation that lives, 0 when none does
          born    \* how many have been spawned

Init == living = 0 /\ born = 0

Spawn ==
  /\ living = 0
  /\ born' = born + 1
  /\ living' = born'

Die ==
  /\ living # 0
  /\ living' = 0
  /\ UNCHANGED born

Next == Spawn \/ Die

Spec == Init /\ [][Next]_<<living, born>>
=============================================================================
