---------------------------- MODULE MCListWorks ----------------------------
(* Small instances of ListWorks for TLC.                                   *)
EXTENDS ListWorks, TLC

ListSymmetry == Permutations(Requests) \cup Permutations(Works)
=============================================================================
