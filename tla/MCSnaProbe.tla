----------------------------- MODULE MCSnaProbe -----------------------------
(***************************************************************************)
(* Values of the -lus list for model checking SnaProbe.                    *)
(***************************************************************************)
EXTENDS SnaProbe

MCOneLU == <<1>>
MCTwoLUs == <<1, 2>>
MCFourLUs == <<1, 2, 3, 4>>

=============================================================================
