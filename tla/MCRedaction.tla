---------------------------- MODULE MCRedaction -----------------------------
(* Secrets of three and four letters that do not overlap, in both orders,   *)
(* one that is too short to count, and two that overlap.                    *)
EXTENDS Redaction

S0 == <<"c", "c", "a">>
S1 == <<"a", "a", "b">>
S2 == <<"c", "c", "a", "b">>
MCSecretLists == {<<S1, S2>>, <<S2, <<"a">>, S1>>, <<S1, S0>>}
=============================================================================
