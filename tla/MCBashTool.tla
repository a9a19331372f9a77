----------------------------- MODULE MCBashTool -----------------------------
(* A tool call, and somebody else's request of the same conversation for    *)
(* the same command.                                                        *)
EXTENDS BashTool, TLC

CONSTANTS r1, r2, o1

MCRequests == {r1, r2}
MCOwners == {o1}
MCOwnerOf == r1 :> o1 @@ r2 :> o1
MCDigestOf == r1 :> "d1" @@ r2 :> "d1"
MCCalls == {r2}
=============================================================================
