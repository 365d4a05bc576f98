------------------------------ MODULE MCFraming ------------------------------
(* A header of three bytes and an RU of one: the pattern appears across the *)
(* two of them, and before the header of the next PIU; in the RU of the    *)
(* third.                                                                  *)
EXTENDS Framing

MCPiu ==
    { <<"2x", "00", "other", "2x">>, <<"2x", "00", "2x", "00">>,
      <<"2x", "00", "other", "2x", "00">> }

=============================================================================
