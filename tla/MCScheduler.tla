---------------------------- MODULE MCScheduler ----------------------------
(* Two terminals: two items of each, and one global item.                    *)
EXTENDS Scheduler, TLC

CONSTANTS a1, a2, b1, b2, g1, sA, sB

SessionsOfItems ==
  [i \in Items |-> IF i \in {a1, a2} THEN RealTag(sA)
                   ELSE IF i \in {b1, b2} THEN RealTag(sB)
                   ELSE NoSession]
NoRoutes == [i \in Items |-> NoSession]
TerminalsOrNone == {RealTag(sA), RealTag(sB), NoSession}
Room == [speech |-> 4, cue |-> 1]
RoomPerSession == [speech |-> 2, cue |-> 1]
=============================================================================
