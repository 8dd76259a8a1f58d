------------------------- MODULE MCPublishSelection -------------------------
(* Values for model checking PublishSelection on small instances.          *)
EXTENDS PublishSelection, TLC

MCPolicyOutcomes == {{}, {"LOW_CONFIDENCE"}}
MCStrict == {[enabled |-> TRUE, shadowMode |-> FALSE, emergencyRollback |-> FALSE]}
MCStrictAndShadow == MCStrict \cup {[enabled |-> TRUE, shadowMode |-> TRUE, emergencyRollback |-> FALSE]}
\* Callers of publish() are alike.
MCSymmetry == Permutations(Publishers)
=============================================================================
