---------------------------- MODULE MCDashboard ----------------------------
(* A small instance of Dashboard for TLC: a series of two episodes and a   *)
(* work of one, of different seasons, whose sort numbers interleave.       *)
EXTENDS Dashboard

CONSTANTS w1, w2

MCEpisodeCount == [w \in Works |-> IF w = w1 THEN 2 ELSE 1]
MCSortNumber == [w \in Works |-> [e \in 1..MCEpisodeCount[w] |-> IF w = w1 THEN 10 * e ELSE 15]]
MCSeason == <<w1, w2>>

MCTitle == [w \in Works |-> w]

\* Both works have one title.
MCSharedTitle == [w \in Works |-> w1]
=============================================================================
