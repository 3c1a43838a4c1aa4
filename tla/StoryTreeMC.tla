----------------------------- MODULE StoryTreeMC -----------------------------
EXTENDS StoryTree
CONSTANTS c1, c2, p, e1, e2, s1, h1, h2, k1
MCAbove == [r \in (Episodes \cup Library) |-> p] @@ [r \in Scenes |-> e1] @@ [r \in Shots |-> s1]
TreeSymmetry == Permutations(TreeClients) \cup Permutations(Shots)
=============================================================================
