------------------------------- MODULE Permit -------------------------------
(***************************************************************************)
(* What the approval ledger of the daemon promises about the command that   *)
(* one request asks for: somebody asks, somebody with the authority allows  *)
(* it once, for the rest of the conversation, or not at all, and what was   *)
(* allowed once is used once.  Nothing that was used, closed or forgotten   *)
(* ever becomes usable again.                                               *)
(***************************************************************************)
CONSTANT Requests

VARIABLE permit

Stages == {"none", "asked", "allowed", "used", "standing", "closed", "forgotten"}

PermitInit == permit = [r \in Requests |-> "none"]

Moves(r, from, to) ==
    /\ permit[r] \in from
    /\ permit' = [permit EXCEPT ![r] = to]

Ask(r) == Moves(r, {"none"}, "asked")
AllowOnce(r) == Moves(r, {"asked"}, "allowed")
AllowConversation(r) == Moves(r, {"asked"}, "standing")
Use(r) == Moves(r, {"allowed"}, "used")

\* Requests may lapse together, and a conversation's are forgotten together.
Close(s) ==
    /\ \A r \in s : permit[r] \in {"asked", "allowed"}
    /\ permit' = [r \in Requests |-> IF r \in s THEN "closed" ELSE permit[r]]
Forget(s) ==
    /\ \A r \in s : permit[r] # "none"
    /\ permit' = [r \in Requests |-> IF r \in s THEN "forgotten" ELSE permit[r]]

PermitNext ==
    \/ \E r \in Requests : Ask(r) \/ AllowOnce(r) \/ AllowConversation(r) \/ Use(r)
    \/ \E s \in SUBSET Requests : Close(s) \/ Forget(s)

PermitSpec == PermitInit /\ [][PermitNext]_permit
=============================================================================
