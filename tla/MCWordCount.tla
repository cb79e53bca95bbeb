---------------------------- MODULE MCWordCount ----------------------------
(* Small texts for WordCount. *)
EXTENDS WordCount

\* An empty line in the middle, and a word in both cases.
ShortText == <<<<"The", "phone">>, <<>>, <<"the">>>>
LowerCase == [w \in {"The", "the", "phone"} |->
                IF w = "The" THEN "the" ELSE w]

\* application-DAG.json
DAGPartitions == [e \in {"t2l", "l2w"} |-> IF e = "t2l" THEN 3 ELSE 1]
============================================================================
