--------------------------- MODULE MCGraphEngine ---------------------------
(* Small graphs on which TLC checks GraphEngine.  The edge <<x, y>> leads  *)
(* from x to y.                                                            *)
EXTENDS GraphEngine

CONSTANTS s, a, b, j, k, t, u

Ends(E, i) == [e \in E |-> e[i]]

(* Fork: s starts a and the branch b in parallel; each can lead to the     *)
(* join j or to the join k.  a is retried once and then takes its fail     *)
(* branch, b may pause, k may fail and falls back on a default value.      *)
ForkNodes == {s, a, b, j, k}
ForkEdges == {<<s, a>>, <<s, b>>, <<a, j>>, <<a, k>>, <<b, j>>, <<b, k>>}
ForkTail == Ends(ForkEdges, 1)
ForkHead == Ends(ForkEdges, 2)
ForkHandle == [e \in ForkEdges |-> CASE e = <<a, k>> -> "fail-branch"
                                     [] e = <<b, j>> -> "x"
                                     [] e = <<b, k>> -> "y"
                                     [] OTHER -> "source"]
ForkRoots == {s}
ForkBranch == {b}
ForkReports == [n \in ForkNodes |-> IF n = b THEN {"x", "y"} ELSE {"source"}]
ForkFail == {a, k}
ForkPause == {b}
ForkStrategy == [n \in ForkNodes |-> CASE n = a -> "fail-branch"
                                       [] n = k -> "default-value"
                                       [] OTHER -> "none"]
ForkRetries == [n \in ForkNodes |-> IF n = a THEN 1 ELSE 0]

(* Human: the human-input nodes a and b run in parallel and meet in j,     *)
(* which the inactive trigger t leads to as well.  b also leads to k, which*)
(* waits for ever for the unconnected node u.  a may fail without a        *)
(* strategy; b is a branch configured with a default value.                *)
HumanNodes == {s, t, u, a, b, j, k}
HumanEdges == {<<s, a>>, <<s, b>>, <<a, j>>, <<b, j>>, <<t, j>>, <<b, k>>, <<u, k>>}
HumanTail == Ends(HumanEdges, 1)
HumanHead == Ends(HumanEdges, 2)
HumanHandle == [e \in HumanEdges |-> IF e[1] = b THEN "x" ELSE "source"]
HumanRoots == {s, t}
HumanBranch == {b}
HumanReports == [n \in HumanNodes |-> IF n = b THEN {"x"} ELSE {"source"}]
HumanFail == {a, b}
HumanPause == {a, b}
HumanStrategy == [n \in HumanNodes |-> IF n = b THEN "default-value" ELSE "none"]
HumanRetries == [n \in HumanNodes |-> 0]
=============================================================================
