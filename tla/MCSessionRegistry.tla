------------------------- MODULE MCSessionRegistry --------------------------
(* Two owners, one with two sessions; one slot less than sessions, so that   *)
(* every limit is met, per owner and for the daemon.                         *)
EXTENDS SessionRegistry, TLC

CONSTANTS s1, s2, s3, o1, o2

MCSessions == {s1, s2, s3}
MCOwners == {o1, o2}
MCOwnerOf == (s1 :> o1) @@ (s2 :> o1) @@ (s3 :> o2)
=============================================================================
