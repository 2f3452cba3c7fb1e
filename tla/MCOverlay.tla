----------------------------- MODULE MCOverlay ------------------------------
EXTENDS Overlay

\* Every file of three lines, and the two below.
Lines == {line \in Nodes \X Nodes \X {0, 5} : line[1] # line[2]}

\* A node with two neighbours, and two nodes whose link is given twice, once
\* from either end.
TwoFiles == { << <<1, 2, 5>>, <<3, 1, 0>> >>, << <<1, 3, 5>>, <<3, 1, 0>> >> }
ThreeLines == TwoFiles \cup [1..3 -> Lines]

\* Two MNP processes of lab4 on node 1, one after the other, which send, and one
\* of lab3 on node 3, which reads.
Labs == [n \in Nodes |-> IF n = 3 THEN 1 ELSE 2]
OneRestarts == [n \in Nodes |-> CASE n = 1 -> 4 [] n = 2 -> 0 [] n = 3 -> 1]
OneSender == [n \in Nodes |-> IF n = 1 THEN 2 ELSE 0]
=============================================================================
