------------------------------ MODULE MCLogFile ------------------------------
(* Messages of two processes; one of the texts has a NUL in it. *)
EXTENDS LogFile

MCTexts == {<<"a">>, <<"b">>, <<"a", "b">>}
=============================================================================
