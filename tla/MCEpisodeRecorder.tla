-------------------------- MODULE MCEpisodeRecorder --------------------------
(* Small instances of EpisodeRecorder for TLC.                             *)
EXTENDS EpisodeRecorder, TLC

CONSTANTS w1, w2,   \* two series
          film      \* a work without episodes

\* As in testutil/testdata: one series numbers its episodes 10, 20, 30, the
\* other 1, 2, 3, and a film has none.
MCEpisodeCount == [w \in Works |-> IF w = w1 THEN 3 ELSE IF w = w2 THEN 2 ELSE 0]
MCSortNumber == [w \in Works |-> [e \in Episode |-> IF w = w1 THEN 10 * e ELSE e]]

CommandSymmetry == Permutations(Commands)

Nothing == {}
\* The last episode of w1 has no title yet.
LastOfW1 == {<<w1, 3>>}
=============================================================================
