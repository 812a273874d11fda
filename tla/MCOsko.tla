------------------------------- MODULE MCOsko -------------------------------
EXTENDS OskoInvariants
CONSTANTS t1, t2
Plain == [magic |-> FALSE, ind |-> "ref", valid |-> TRUE]
Magic == [Plain EXCEPT !.magic = TRUE]
Inline == [Plain EXCEPT !.ind = "inline"]
Nothing == [Plain EXCEPT !.ind = "none"]
Invalid == [Plain EXCEPT !.valid = FALSE]
Ordinary == {Plain}
Various == {Inline, Magic, Invalid, Nothing}
=============================================================================
