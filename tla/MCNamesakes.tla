---------------------------- MODULE MCNamesakes ----------------------------
EXTENDS Namesakes
CONSTANT t1
Plain == [magic |-> FALSE, ind |-> "ref", valid |-> TRUE]
Inline == [Plain EXCEPT !.ind = "inline"]
=============================================================================
