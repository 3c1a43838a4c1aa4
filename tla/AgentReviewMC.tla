---------------------------- MODULE AgentReviewMC ----------------------------
EXTENDS AgentReview, TLC
CONSTANTS a, b, p1, p2, r1, r2
Only(f, v) == [g \in Fields |-> IF g = f THEN v ELSE NoValue]
MCToolChoices == {(p1 :> "update_shot") @@ (p2 :> "continuity_fix"),
                  (p1 :> "generate_image") @@ (p2 :> "delete_shot")}
MCPatch == (p1 :> [f \in Fields |-> a]) @@ (p2 :> Only("image_prompt", b))
MCUserPatches == {Only("action", b)}
ReviewerSymmetry == Permutations(Reviewers)
=============================================================================
