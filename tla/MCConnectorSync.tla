--------------------------- MODULE MCConnectorSync ---------------------------
EXTENDS ConnectorSync, TLC

\* Uploads are alike, and so are keys; every property checked is a state predicate.
Symmetry == Permutations(Uploads) \cup Permutations(Keys) \cup Permutations(SyncKeys)

=============================================================================
