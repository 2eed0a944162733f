---------------------------- MODULE MC_SourceTrees ----------------------------
(* An instance of SourceTrees: `a` is a repository on github.com, `g` any  *)
(* other; p1 and p2 sync one project, p3 another.                          *)
EXTENDS SourceTrees, TLC

CONSTANTS a, g, c1, c2, c3, ours, theirs, p1, p2, p3

Projects == [p \in Process |-> IF p = p3 THEN theirs ELSE ours]

ByTag(u, c) == [repo |-> u, tag |-> c, exact |-> None]
Exactly(u, c) == [repo |-> u, tag |-> None, exact |-> c]
Replay(u, t, c) == [repo |-> u, tag |-> t, exact |-> c]

(* A branch, and the replay of a lock whose tag moved to another commit,   *)
(* with an archive.                                                        *)
TagMoved == {<<Exactly(g, c1)>>, <<Replay(g, c2, c3), ByTag(a, c1)>>}
==============================================================================
