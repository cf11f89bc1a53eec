-------------------------- MODULE MCStreamedText --------------------------
(* Whole characters of one and of two bytes, the two halves of one, and a   *)
(* special token.                                                           *)
EXTENDS StreamedText

SomeTokens == {<<"a">>, <<"l", "t">>, <<"l">>, <<"t">>, <<>>}
=============================================================================
