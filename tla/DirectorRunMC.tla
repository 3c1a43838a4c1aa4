---------------------------- MODULE DirectorRunMC ----------------------------
EXTENDS DirectorRun
CONSTANTS s1, s2, n1, t1, t2
Step(tool, x, v, shots) == [tool |-> tool, on |-> x, patch |-> v, order |-> shots]
Edit(s, v)    == Step("update_shot", s, v, <<>>)
EditScene(v)  == Step("update_scene", Scene, v, <<>>)
Create(s, v)  == Step("create_shot", s, v, <<>>)
Reorder(shots) == Step("reorder_shots", Scene, "none", shots)
Gate(tool, s) == Step(tool, s, "none", <<>>)
MCFirstShots == <<s1, s2>>
\* no gate or one, with edits around it
MCPlans ==
  {<<Edit(s1, "a"), Gate("delete_shot", s2), Edit(s1, "b")>>,
   <<Gate("delete_shot", s2), Create(n1, "a")>>,
   <<Gate("continuity_fix", s1), Edit(s1, "a")>>,
   <<Reorder(<<s2, s1>>), Create(n1, "a"), Gate("generate_image", s1), EditScene("a")>>}
=============================================================================
