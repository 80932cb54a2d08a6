---------------------------- MODULE MCResponse ----------------------------
(* Small workflows on which TLC checks ResponseCoordinator.  The edge      *)
(* <<x, y>> leads from x to y; selectors are strings node.output.          *)
EXTENDS ResponseCoordinator

CONSTANTS start, llm1, llm2, ask, assigner, loose, r1, r2, r3, r4

Ends(E, i) == [e \in E |-> e[i]]

(* Chat: the LLM llm1 and the human-input branch ask start in parallel.    *)
(* ask leads to llm2, to the assigner or to r4.  Answer r1 shows both      *)
(* texts, r2 follows the assigner and shows the conversation variable, r3  *)
(* follows r1 and shows llm1's text again.  r4, which shows it too, also   *)
(* has an edge from the unconnected node loose and never runs.  llm1 is    *)
(* retried once and has a default value.                                   *)
ChatNodes == {start, llm1, llm2, ask, assigner, loose, r1, r2, r3, r4}
ChatEdges == {<<start, llm1>>, <<start, ask>>, <<llm1, r1>>, <<llm2, r1>>, <<ask, llm2>>,
              <<ask, assigner>>, <<assigner, r2>>, <<r1, r3>>, <<ask, r4>>, <<loose, r4>>}
ChatTail == Ends(ChatEdges, 1)
ChatHead == Ends(ChatEdges, 2)
ChatHandle == [e \in ChatEdges |-> CASE e = <<ask, llm2>> -> "x"
                                     [] e = <<ask, assigner>> -> "y"
                                     [] e = <<ask, r4>> -> "z"
                                     [] OTHER -> "source"]
ChatSelectors == {"llm1.text", "llm2.text", "conversation.topic"}
ChatSource == [x \in ChatSelectors |-> CASE x = "llm1.text" -> llm1
                                         [] x = "llm2.text" -> llm2
                                         [] OTHER -> NoNode]
ChatTemplate == r1 :> <<"llm1.text", Text, "llm2.text">>
             @@ r2 :> <<"conversation.topic", Text>>
             @@ r3 :> <<Text, "llm1.text">>
             @@ r4 :> <<"llm1.text", Text>>
ChatAssigns == [n \in ChatNodes |-> IF n = assigner THEN {"conversation.topic"} ELSE {}]
ChatStrategy == [n \in ChatNodes |-> IF n = llm1 THEN "default-value" ELSE "none"]
ChatRetries == [n \in ChatNodes |-> IF n = llm1 THEN 1 ELSE 0]
=============================================================================
