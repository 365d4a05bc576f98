------------------------------ MODULE MCTelnet ------------------------------
(* Records of one data byte, of one byte IAC, and of more bytes than a      *)
(* header has: IAC first, and a byte behind it that would end the record.  *)
EXTENDS Telnet

MCPayload == {<<"x">>, <<"IAC">>, <<"IAC", "EOR", "x", "x", "x", "IAC">>}

=============================================================================
