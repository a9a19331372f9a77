--------------------------- MODULE ApprovalLedger ---------------------------
(***************************************************************************)
(* The approval ledger of the daemon (src/src/daemon/server.ts, approval*,  *)
(* withApprovals): requests to run a command, claimed and decided by the    *)
(* TUI companion within its lease or approved natively after it, consumed   *)
(* once, and session grants.  approvals.json is read and rewritten by every *)
(* call, one call at a time; the claim tokens are only in memory.  So a     *)
(* call is one step, except that its write may fail (`written` FALSE): then *)
(* the ledger stays as it was and what the call did to the tokens remains.  *)
(* The same holds for a call that throws.  A restart forgets the tokens.    *)
(*                                                                          *)
(* Anybody calls anything in any order.  `due` are the deadlines of a       *)
(* request that have passed, `stale` the grants that have expired.  A grant *)
(* is the request that it was made for.  Only claimed requests have tokens  *)
(* and a request is claimed once, so a token is its request, and presenting *)
(* it is presenting the right one: what other token there may be is refused *)
(* without further ado.                                                     *)
(***************************************************************************)
EXTENDS Naturals, FiniteSets

CONSTANTS Requests, Owners, OwnerOf, DigestOf
ASSUME ApprovalAssumption == OwnerOf \in [Requests -> Owners]

VARIABLES
    status, ui,   \* of the requests in approvals.json: status, uiEligible
    grants,       \* the grants in approvals.json
    tokens,       \* approvalClaimTokens
    due, stale

ledger == <<status, ui, grants>>
vars == <<ledger, tokens, due, stale>>

Open == {"pending", "claimed", "native_fallback", "approved_once"}
Statuses == Open \cup {"approved_session", "rejected", "cancelled", "expired", "consumed"}
Deadlines == {"ui", "claim", "expiry"}

TypeOK ==
    /\ status \in [Requests -> Statuses \cup {"absent", "removed"}]
    /\ ui \in [Requests -> BOOLEAN]
    /\ grants \subseteq Requests
    /\ tokens \subseteq Requests
    /\ due \in [Requests -> SUBSET Deadlines]
    /\ stale \subseteq grants

Init ==
    /\ status = [r \in Requests |-> "absent"]
    /\ ui = [r \in Requests |-> FALSE]
    /\ grants = {} /\ tokens = {}
    /\ due = [r \in Requests |-> {}] /\ stale = {}

-----------------------------------------------------------------------------
(* refreshApproval *)

Found(r) == status[r] \notin {"absent", "removed"}

Lapsed(r) == status[r] \in Open /\ "expiry" \in due[r]

\* A variant that leaves a claimed request to its claimer.
FallsBackUnclaimed(r) == status[r] = "pending" /\ ui[r] /\ "ui" \in due[r]

FallsBack(r) ==
    \/ status[r] = "pending" /\ ui[r] /\ "ui" \in due[r]
    \/ status[r] = "claimed" /\ "claim" \in due[r]

Fresh(r) ==
    IF Lapsed(r) THEN "expired" ELSE IF FallsBack(r) THEN "native_fallback" ELSE status[r]
FreshUi(r) == ui[r] /\ ~(~Lapsed(r) /\ FallsBack(r))

\* A variant that forgets no token.
KeptAll(r) == tokens

\* The tokens that a refresh leaves.
Kept(r) == IF Lapsed(r) \/ (status[r] = "claimed" /\ FallsBack(r)) THEN tokens \ {r} ELSE tokens

-----------------------------------------------------------------------------
(* withApprovals: the request as refreshed and updated reaches the file, or *)
(* nothing does                                                             *)

Put(r, s, written) ==
    /\ status' = IF written THEN [status EXCEPT ![r] = s] ELSE status
    /\ ui' = IF written THEN [ui EXCEPT ![r] = FreshUi(r)] ELSE ui

\* A call that throws, or that its update does not change.
Throw(r) == tokens' = Kept(r) /\ UNCHANGED <<ledger, due, stale>>
Answer(r, written) == Put(r, Fresh(r), written) /\ tokens' = Kept(r) /\ UNCHANGED <<grants, due, stale>>

Matching(r) ==
    {g \in grants \ stale : OwnerOf[g] = OwnerOf[r] /\ DigestOf[g] = DigestOf[r]}

-----------------------------------------------------------------------------
(* The calls *)

\* approvalCreate; approvalPrepare, which prunes the grants first and needs no
\* request where one matches.
Create(r, eligible, prepare, written) ==
    /\ status[r] = "absent"
    /\ prepare => Matching(r) = {}
    /\ written
    /\ status' = [status EXCEPT ![r] = "pending"]
    /\ ui' = [ui EXCEPT ![r] = eligible]
    /\ IF prepare THEN grants' = grants \ stale /\ stale' = {} ELSE UNCHANGED <<grants, stale>>
    /\ UNCHANGED <<tokens, due>>

\* approvalPrepare with a grant, approvalListGrants: the grants are pruned.
Prune(written) ==
    /\ written
    /\ grants' = grants \ stale /\ stale' = {}
    /\ UNCHANGED <<status, ui, tokens, due>>

\* The token is set after the write.
Claim(r, written) ==
    /\ Found(r)
    /\ IF Fresh(r) = "pending" /\ FreshUi(r) /\ "ui" \notin due[r]
       THEN /\ Put(r, "claimed", written)
            /\ tokens' = IF written THEN tokens \cup {r} ELSE tokens
            /\ UNCHANGED <<grants, due, stale>>
       ELSE Answer(r, written)

Decisions == {"approve_once", "approve_session", "reject"}

Decided(decision) ==
    CASE decision = "approve_once"    -> "approved_once"
      [] decision = "approve_session" -> "approved_session"
      [] OTHER                        -> "rejected"

\* A variant that does not ask for the token.
DecideUnchecked(r, decision, written) ==
    /\ Found(r)
    /\ Put(r, Decided(decision), written)
    /\ grants' = IF written /\ decision = "approve_session" THEN grants \cup {r} ELSE grants
    /\ tokens' = IF written THEN tokens \ {r} ELSE tokens
    /\ UNCHANGED <<due, stale>>

\* Without a token nothing is decided; the token goes once the decision is
\* written.
Decide(r, decision, written) ==
    /\ Found(r)
    /\ IF r \notin Kept(r) THEN Throw(r)
       ELSE IF Fresh(r) # "claimed"
       THEN /\ Put(r, Fresh(r), written)
            /\ tokens' = IF written THEN Kept(r) \ {r} ELSE Kept(r)
            /\ UNCHANGED <<grants, due, stale>>
       ELSE /\ Put(r, Decided(decision), written)
            /\ grants' = IF written /\ decision = "approve_session" THEN grants \cup {r} ELSE grants
            /\ tokens' = IF written THEN tokens \ {r} ELSE tokens
            /\ UNCHANGED <<due, stale>>

\* approvalConsume: another digest throws and so does a second use; a grant
\* that matches, or none, decides the answer and leaves the request alone.
Consume(r, digest, written) ==
    /\ Found(r)
    /\ IF digest # DigestOf[r] \/ Fresh(r) = "consumed" THEN Throw(r)
       ELSE IF Fresh(r) = "approved_once"
            THEN Put(r, "consumed", written) /\ tokens' = Kept(r) /\ UNCHANGED <<grants, due, stale>>
            ELSE Answer(r, written)

\* A variant that approves whatever the state.
NativeApproveAny(r, written) ==
    /\ Found(r)
    /\ Put(r, "approved_once", written)
    /\ tokens' = Kept(r) /\ UNCHANGED <<grants, due, stale>>

NativeApprove(r, written) ==
    /\ Found(r)
    /\ IF Fresh(r) = "native_fallback" \/ (Fresh(r) = "pending" /\ ~FreshUi(r))
       THEN Put(r, "approved_once", written) /\ tokens' = Kept(r) /\ UNCHANGED <<grants, due, stale>>
       ELSE Answer(r, written)

Cancel(r, written) ==
    /\ Found(r)
    /\ IF Fresh(r) \in Open
       THEN Put(r, "cancelled", written) /\ tokens' = Kept(r) \ {r} /\ UNCHANGED <<grants, due, stale>>
       ELSE Answer(r, written)

\* approvalStatus, which every round of approvalWait calls.
Poll(r, written) == Found(r) /\ Answer(r, written)

\* approvalListRequests refreshes every request, of every owner.
ListRequests(written) ==
    /\ status' = IF written THEN [r \in Requests |-> Fresh(r)] ELSE status
    /\ ui' = IF written THEN [r \in Requests |-> FreshUi(r)] ELSE ui
    /\ tokens' = {r \in tokens : r \in Kept(r)}
    /\ UNCHANGED <<grants, due, stale>>

RevokeGrant(g, written) ==
    /\ g \in grants /\ written
    /\ grants' = grants \ {g} /\ stale' = stale \ {g}
    /\ UNCHANGED <<status, ui, tokens, due>>

\* approvalCleanupByParentSession
CleanupConversation(o, written) ==
    LET mine == {r \in Requests : OwnerOf[r] = o}
    IN  /\ status' = IF written
                     THEN [r \in Requests |-> IF r \in mine /\ Found(r) THEN "removed" ELSE status[r]]
                     ELSE status
        /\ grants' = IF written THEN grants \ mine ELSE grants
        /\ stale' = IF written THEN stale \ mine ELSE stale
        /\ tokens' = tokens \ {r \in mine : Found(r)}
        /\ UNCHANGED <<ui, due>>

Restart ==
    /\ tokens' = {}
    /\ UNCHANGED <<ledger, due, stale>>

\* Time passes: the lease of a claim runs from the claim.
DeadlinePasses(r, d) ==
    /\ Found(r) /\ d \notin due[r]
    /\ d = "ui" => ui[r]
    /\ d = "claim" => status[r] = "claimed"
    /\ due' = [due EXCEPT ![r] = @ \cup {d}]
    /\ UNCHANGED <<ledger, tokens, stale>>

GrantExpires(g) ==
    /\ g \in grants \ stale
    /\ stale' = stale \cup {g}
    /\ UNCHANGED <<ledger, tokens, due>>

RequestCall(r, written) ==
    \/ \E eligible, prepare \in BOOLEAN : Create(r, eligible, prepare, written)
    \/ Claim(r, written)
    \/ \E decision \in Decisions : Decide(r, decision, written)
    \/ \E q \in Requests : Consume(r, DigestOf[q], written)
    \/ NativeApprove(r, written) \/ Cancel(r, written) \/ Poll(r, written)
    \/ RevokeGrant(r, written)

Next ==
    \/ \E r \in Requests, written \in BOOLEAN : RequestCall(r, written)
    \/ \E written \in BOOLEAN : Prune(written) \/ ListRequests(written)
    \/ \E o \in Owners, written \in BOOLEAN : CleanupConversation(o, written)
    \/ Restart
    \/ \E r \in Requests : GrantExpires(r) \/ \E d \in Deadlines : DeadlinePasses(r, d)

Spec == Init /\ [][Next]_vars

-----------------------------------------------------------------------------
(* Properties *)

\* A token in memory always belongs to a request that the file shows as
\* claimed, whatever writes fail and whoever cancels, cleans up or lets the
\* lease lapse in between: no decision can be made on a stale claim
\* (approvalClaim, approvalDecide, refreshApproval).
TokenOnlyWhileClaimed == \A r \in tokens : status[r] = "claimed"

\* The stage that the permit of a request has reached.
Stage(r) ==
    CASE status[r] = "absent"                                     -> "none"
      [] status[r] \in {"pending", "claimed", "native_fallback"}  -> "asked"
      [] status[r] = "approved_once"                              -> "allowed"
      [] status[r] = "consumed"                                   -> "used"
      [] status[r] = "approved_session"                           -> "standing"
      [] status[r] = "removed"                                    -> "forgotten"
      [] OTHER                                                    -> "closed"

Permits == [r \in Requests |-> Stage(r)]

P == INSTANCE Permit WITH permit <- Permits

\* The ledger implements the permits: an approval is used at most once, and
\* nothing closed, used or forgotten can be used again.
ImplementsPermit == P!PermitSpec

\* The companion's say ends with its lease: once the native prompt is in
\* charge of a request, on disk or by the clock, no claim, session grant or
\* rejection by the companion is recorded (approvalClaim, approvalDecide).
NativeTakesOver ==
    [][\A r \in Requests :
          status[r] = "native_fallback" \/ "claim" \in due[r]
          => status'[r] \in {status[r], "native_fallback", "approved_once", "consumed",
                             "cancelled", "expired", "removed"}]_vars
=============================================================================
