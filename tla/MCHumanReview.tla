--------------------------- MODULE MCHumanReview ---------------------------
(* HumanReview with three people; ann made the target. *)
EXTENDS HumanReview, TLC

CONSTANTS ann, bob, cat

MCQualified == "ENGINEERING" :> {ann, bob} @@ "EXPERT" :> {ann, bob} @@ "APPROVAL" :> {bob, cat}

\* The strictest policy, and one whose approval comes before its last stage.
MCPolicies ==
    {[risk |-> "HIGH", stages |-> <<"ENGINEERING", "EXPERT", "APPROVAL">>, editable |-> TRUE],
     [risk |-> "LOW", stages |-> <<"ENGINEERING">>, editable |-> FALSE],
     [risk |-> "MEDIUM", stages |-> <<"ENGINEERING", "APPROVAL", "EXPERT">>, editable |-> TRUE]}

MCInterventions == {"PAUSE", "CANCEL", "REQUEST_INPUT", "REJECT"}
=============================================================================
