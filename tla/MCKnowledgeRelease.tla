------------------------- MODULE MCKnowledgeRelease -------------------------
(* KnowledgeRelease on small sets of people, candidates and channels. *)
EXTENDS KnowledgeRelease, TLC

CONSTANTS ann, pia, bob

\* ann may create, pia may publish, bob holds both capabilities.
MCMakers == {ann, bob}
MCPublishers == {pia, bob}

Symmetric == Permutations(Candidates) \cup Permutations(Versions) \cup Permutations(Keys)
=============================================================================
