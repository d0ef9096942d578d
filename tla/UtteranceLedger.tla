--------------------------- MODULE UtteranceLedger ---------------------------
(***************************************************************************)
(* What the speech queue promises a producer that holds a handle: an       *)
(* utterance waits, may be claimed by the one worker, may go back to       *)
(* waiting, and ends once with one outcome.  Only a claimed utterance is   *)
(* spoken, fails or is dropped; a waiting one can only be cancelled.       *)
(***************************************************************************)
CONSTANT Utterances

VARIABLES place, fate
vars == <<place, fate>>

Init ==
  /\ place = [u \in Utterances |-> "new"]
  /\ fate = [u \in Utterances |-> "none"]

Admit(u) ==
  /\ place[u] = "new"
  /\ place' = [place EXCEPT ![u] = "waiting"]
  /\ UNCHANGED fate

Claim(u) ==
  /\ place[u] = "waiting"
  /\ \A v \in Utterances : place[v] # "claimed"
  /\ place' = [place EXCEPT ![u] = "claimed"]
  /\ UNCHANGED fate

Requeue(u) ==
  /\ place[u] = "claimed"
  /\ place' = [place EXCEPT ![u] = "waiting"]
  /\ UNCHANGED fate

End(u, outcome) ==
  /\ place[u] = "claimed"
  /\ place' = [place EXCEPT ![u] = "ended"]
  /\ fate' = [fate EXCEPT ![u] = outcome]

Discard(us) ==
  /\ us # {}
  /\ \A u \in us : place[u] = "waiting"
  /\ place' = [u \in Utterances |-> IF u \in us THEN "ended" ELSE place[u]]
  /\ fate' = [u \in Utterances |-> IF u \in us THEN "cancelled" ELSE fate[u]]

Next ==
  \/ \E u \in Utterances : Admit(u) \/ Claim(u) \/ Requeue(u)
  \/ \E u \in Utterances, o \in {"spoken", "failed", "cancelled", "dropped"} :
       End(u, o)
  \/ \E us \in SUBSET Utterances : Discard(us)

Spec == Init /\ [][Next]_vars
=============================================================================
