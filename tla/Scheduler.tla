------------------------------ MODULE Scheduler ------------------------------
(***************************************************************************)
(* The service order of the speech queue by itself: producers that never   *)
(* stop, the worker's claims through select_pos, and the user moving from  *)
(* one terminal to the other.  TtsQueue has every thread and few items;    *)
(* this module has many items and the one question of who waits for whom.  *)
(* An item that was claimed may be produced again, so runs never end.      *)
(***************************************************************************)
EXTENDS QueueOrder

CONSTANT Marks      (* what MarkActive may name; NoSession takes the mark back *)

ASSUME SchedulerAssumption == Marks \subseteq Tags \cup {NoSession}

VARIABLES
  items, preferredRun,
  active,  (* ActiveSel: the last MarkActive, and the last enqueue         *)
  ahead,   (* history: how many items were ahead of this one at first      *)
  passed   (* history: claims of items behind it since then                *)

vars == <<items, active, preferredRun, ahead, passed>>

Init ==
  /\ items = <<>> /\ preferredRun = 0
  /\ active = [explicit |-> NoSession, recent |-> NoSession]
  /\ ahead = [i \in Items |-> 0] /\ passed = [i \in Items |-> 0]

\* ActiveSel::effective.
Effective == IF active.explicit # NoSession THEN active.explicit ELSE active.recent

\* The active terminal changes: everyone's wait is counted afresh.
CountAfresh(q) ==
  /\ ahead' = [i \in Items |-> Cardinality({n \in DOMAIN q :
                  \E m \in DOMAIN q : n < m /\ q[m] = i})]
  /\ passed' = [i \in Items |-> 0]

\* enqueue_action: admission, note_recent, then the back of the queue.  Without
\* a mark the active terminal follows every enqueue.
Enqueue(i) ==
  /\ i \notin Queued(items)
  /\ Fits(items, i)
  /\ active' = [active EXCEPT !.recent = SessionOf[i]]
  /\ items' = Append(items, i)
  /\ IF Effective' = Effective
       THEN /\ ahead' = [ahead EXCEPT ![i] = Len(items)]
            /\ passed' = [passed EXCEPT ![i] = 0]
       ELSE CountAfresh(items')
  /\ UNCHANGED preferredRun

\* claim_item at the position select_pos returns.
Claim ==
  \E n \in DOMAIN items :
    /\ NextInLine(items, Effective, preferredRun, n)
    /\ items' = RemoveAt(items, n)
    /\ preferredRun' = RunAfter(items, Effective, preferredRun)
    /\ passed' = [i \in Items |->
                    IF \E m \in 1..(n - 1) : items[m] = i THEN passed[i] + 1
                    ELSE IF i = items[n] THEN 0 ELSE passed[i]]
    /\ ahead' = [ahead EXCEPT ![items[n]] = 0]
    /\ UNCHANGED active

\* set_active_session: the run is kept.
MarkActive(t) ==
  /\ t # active.explicit
  /\ active' = [active EXCEPT !.explicit = t]
  /\ IF Effective' = Effective THEN UNCHANGED <<ahead, passed>> ELSE CountAfresh(items)
  /\ UNCHANGED <<items, preferredRun>>

Next ==
  \/ \E i \in Items : Enqueue(i)
  \/ Claim
  \/ \E t \in Marks : MarkActive(t)

Spec == Init /\ [][Next]_vars

-----------------------------------------------------------------------------

\* Preference is bounded: while the active terminal stays the same (marked, or
\* else that of the last enqueue), an item is passed over at most
\* ActiveSessionBurst times for each item that was ahead of it, and
\* ActiveSessionBurst times for itself, however fast the active terminal keeps
\* producing (select_pos, ACTIVE_SESSION_BURST).
BoundedOvertaking ==
  \A i \in Queued(items) : passed[i] <= ActiveSessionBurst * (ahead[i] + 1)

\* Preference never reorders two items of one session: what a terminal said
\* first is heard first, across marks, bursts and background turns.
FifoWithinSession ==
  [][\A m, n \in DOMAIN items :
       m < n /\ SessionOf[items[m]] = SessionOf[items[n]]
         /\ items[n] \notin Queued(items') => items[m] \notin Queued(items')]_vars
=============================================================================
