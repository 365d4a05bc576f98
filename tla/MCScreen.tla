------------------------------ MODULE MCScreen -------------------------------
(* Rows of two cells: lines that are empty, short, full, too long, and with *)
(* a tab at their end or their start.                                      *)
EXTENDS Screen

MCLine == { <<>>, <<"a">>, <<" ", "a">>, <<"a", "tab">>, <<"tab", "a">>, <<"a", " ", "a">> }

=============================================================================
