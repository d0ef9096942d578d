----------------------------- MODULE QueueOrder -----------------------------
(***************************************************************************)
(* The pure part of the speech queue of dontspeakd (ttsq.rs): what an item *)
(* carries, which session tags a cancellation reaches, the admission       *)
(* bounds, and the order in which the worker serves waiting items.         *)
(*                                                                         *)
(* A session tag is a pair <<s, sticky>>: sticky tags stand for            *)
(* "grok-stop:<s>", the tag that keeps a Grok end-of-turn digest alive     *)
(* when its own terminal clears its queue.  NoSession is Rust's None.      *)
(***************************************************************************)
EXTENDS Naturals, Sequences, FiniteSets, SequencesExt

CONSTANTS
  Speech,             (* utterances: items with a handle and an outcome    *)
  Cues,               (* earcons: items without a handle                   *)
  NeedsInput,         (* the cues that are needs_input alerts              *)
  Sessions,           (* queue identities                                  *)
  NoSession,          (* untagged, global audio                            *)
  SessionOf,          (* item -> the tag it is queued under                *)
  RouteOf,            (* item -> the MCP scope it was routed from          *)
  ActiveSessionBurst, (* ACTIVE_SESSION_BURST, 3 in the code               *)
  MaxPending,         (* [Speech, Cues] -> MAX_PENDING_ITEMS / _CUES       *)
  MaxSessionPending   (* the same bounds for one session                   *)

Items == Speech \cup Cues
RealTag(s) == <<s, FALSE>>
StickyTag(s) == <<s, TRUE>>
Tags == Sessions \X BOOLEAN

ASSUME QueueOrderAssumption ==
  /\ Speech \cap Cues = {}
  /\ NeedsInput \subseteq Cues
  /\ NoSession \notin Tags
  /\ SessionOf \in [Items -> Tags \cup {NoSession}]
  /\ RouteOf \in [Items -> Tags \cup {NoSession}]
  /\ ActiveSessionBurst \in Nat \ {0}
  /\ MaxPending \in [{"speech", "cue"} -> Nat]
  /\ MaxSessionPending \in [{"speech", "cue"} -> Nat]

-----------------------------------------------------------------------------
(* Scopes: which items a cancellation of a tag reaches.                    *)

\* The sticky sibling of a real tag.
IsStickyOf(tag, real) ==
  \E s \in Sessions : tag = StickyTag(s) /\ real = RealTag(s)

\* session_belongs_to_real: the tag itself or the sticky under it.
BelongsTo(tag, target) ==
  tag # NoSession /\ (tag = target \/ IsStickyOf(tag, target))

\* routed_session_belongs_to_real: by the queue tag or by the routed scope.
RoutedBelongsTo(i, target) ==
  BelongsTo(SessionOf[i], target) \/ BelongsTo(RouteOf[i], target)

\* prune_session: the exact queue tag, or the exact routed scope.
InScope(i, target) ==
  \/ SessionOf[i] = target
  \/ RouteOf[i] # NoSession /\ RouteOf[i] = target

\* The scope of a submit's "current" clear: the target and its sticky sibling.
InSubmitScope(i, target) ==
  \/ InScope(i, target)
  \/ \E s \in Sessions : target = RealTag(s) /\ InScope(i, StickyTag(s))

\* retain_only_session keeps these, whatever else is queued.
KeptFor(i, target) ==
  \/ SessionOf[i] = target \/ IsStickyOf(SessionOf[i], target)
  \/ RouteOf[i] # NoSession
     /\ (RouteOf[i] = target \/ IsStickyOf(RouteOf[i], target))

\* discard_items: VecDeque::retain, one item after the other, order kept.
Without(q, dropped) ==
  LET kept[n \in 0..Len(q)] ==
        IF n = 0 THEN <<>>
        ELSE IF q[n] \in dropped THEN kept[n - 1]
        ELSE Append(kept[n - 1], q[n])
  IN kept[Len(q)]

Queued(q) == {q[n] : n \in DOMAIN q}

-----------------------------------------------------------------------------
(* Admission: enqueue_action refuses an item past a count bound.  The byte *)
(* bounds are of the same form, over the same items, and are left out.     *)

KindOf(i) == IF i \in Cues THEN "cue" ELSE "speech"

Fits(q, i) ==
  LET alike == {n \in DOMAIN q : KindOf(q[n]) = KindOf(i)}
      mates == {n \in alike : SessionOf[q[n]] = SessionOf[i]}
  IN /\ Cardinality(alike) < MaxPending[KindOf(i)]
     /\ Cardinality(mates) < MaxSessionPending[KindOf(i)]

-----------------------------------------------------------------------------
(* Service order: select_pos.                                              *)

\* session_preferred_for_active: untagged, the active tag, or its sticky.
Preferred(i, active) ==
  SessionOf[i] \in {NoSession, active} \/ IsStickyOf(SessionOf[i], active)

FirstOf(positions, n) == n \in positions /\ \A m \in positions : n <= m

\* Wrong on purpose: background items wait for a burst even when alone.
BackgroundTurnAfterBurst(q, active, run) ==
  /\ \E n \in DOMAIN q : ~Preferred(q[n], active)
  /\ run >= ActiveSessionBurst

\* Wrong on purpose: one preferred claim too many before the turn.
BackgroundTurnLate(q, active, run) ==
  LET preferred == {n \in DOMAIN q : Preferred(q[n], active)}
  IN /\ preferred # DOMAIN q
     /\ preferred = {} \/ run > ActiveSessionBurst

\* The oldest background item gets a turn when nothing preferred waits, or
\* after ActiveSessionBurst preferred claims in a row.
BackgroundTurn(q, active, run) ==
  LET preferred == {n \in DOMAIN q : Preferred(q[n], active)}
  IN /\ preferred # DOMAIN q
     /\ preferred = {} \/ run >= ActiveSessionBurst

\* Wrong on purpose: a background turn goes to the newest item.
NextInLineNewest(q, active, run, n) ==
  LET preferred == {m \in DOMAIN q : Preferred(q[m], active)}
      background == DOMAIN q \ preferred
  IN \/ active = NoSession /\ n = 1 /\ q # <<>>
     \/ /\ active # NoSession
        /\ IF BackgroundTurn(q, active, run)
             THEN n \in background /\ \A m \in background : m <= n
             ELSE FirstOf(preferred, n)

\* select_pos: the position the worker serves next.
NextInLine(q, active, run, n) ==
  LET preferred == {m \in DOMAIN q : Preferred(q[m], active)}
  IN \/ active = NoSession /\ n = 1 /\ q # <<>>
     \/ /\ active # NoSession
        /\ IF BackgroundTurn(q, active, run)
             THEN FirstOf(DOMAIN q \ preferred, n)
             ELSE FirstOf(preferred, n)

\* SchedulerState.preferred_run after select_pos.  The code counts on; only
\* the comparison with the burst is ever made, so the count stops there.
RunAfter(q, active, run) ==
  IF active = NoSession \/ BackgroundTurn(q, active, run) THEN 0
  ELSE IF q # <<>> /\ run < ActiveSessionBurst THEN run + 1 ELSE run
=============================================================================
