---------------------------- MODULE MCNarration ----------------------------
(* Two messages of one session.  The first has the lines "a", "bc" and "d": *)
(* "bc" is cut in two, and the last batch is a snapshot of the whole text,  *)
(* which ends without a line end.  The second is prose only.                *)
EXTENDS Narration, TLC

StillSound == sound

Alike == Permutations(Procs)

Words == {NL, Prose, "a", "b", "c", "d"}

Chunk(upTo)    == [upTo |-> upTo, whole |-> FALSE]
Snapshot(upTo) == [upTo |-> upTo, whole |-> TRUE]

TwoTexts     == << <<"a", NL, "b", "c", NL, Prose, NL, "d">>, <<Prose>> >>
TheirBatches == << <<Chunk(3), Chunk(5), Chunk(7), Snapshot(8)>>, <<Chunk(1)>> >>

=============================================================================
