------------------------- MODULE MCObsidianExchange -------------------------
(* ObsidianExchange with a model that contradicts itself or other jobs. *)
EXTENDS ObsidianExchange, TLC

CONSTANTS hot, cold

MCAnswers == {<<hot>>, <<cold, hot>>}

Symmetric == Permutations(Jobs) \cup Permutations(Texts)
=============================================================================
