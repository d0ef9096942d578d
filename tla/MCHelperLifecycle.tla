-------------------------- MODULE MCHelperLifecycle --------------------------
(* Instances of HelperLifecycle for TLC: the speech worker, the dictation    *)
(* thread, and an owner that starts, stops, reloads and heals.               *)
EXTENDS HelperLifecycle, TLC

CONSTANTS worker, dictation, owner

MCOpsOf == (worker :> {"play", "cue"}) @@ (dictation :> {"listen"})
             @@ (owner :> {"stop", "reload", "heal"})
=============================================================================
