--------------------------- MODULE BashToolProofs ---------------------------
(***************************************************************************)
(* First the approval ledger by itself, for any number of requests and      *)
(* conversations.  Its inductive invariant says, beside the types, that     *)
(* tokens belong to claimed requests and that the lease of a claim only     *)
(* ever runs out for a request that has been claimed.                       *)
(*                                                                          *)
(* Then the composition.  The bash tool, the companion, the clock and       *)
(* restarts touch the ledger only through its calls: every behaviour of the *)
(* composition is a behaviour of the ledger, so what is proved of the       *)
(* ledger for every order of calls holds of it.                             *)
(*                                                                          *)
(* Last, for any number of calls and requests: a command runs only on a     *)
(* yes, never after a no, and a call that is over leaves no open request.   *)
(* The inductive invariant ties where the tool stands to what the daemon    *)
(* has still to carry out and to what the ledger says of the request.       *)
(***************************************************************************)
EXTENDS BashTool, SequenceTheorems, TLAPS

-----------------------------------------------------------------------------
(* The ledger: its invariant *)

\* Which requests may have a lease of a claim behind them.
LeaseAfterClaim == \A r \in Requests : "claim" \in due[r] => status[r] \notin {"absent", "pending"}

IndInv == TypeOK /\ TokenOnlyWhileClaimed /\ LeaseAfterClaim

-----------------------------------------------------------------------------
(* The refresh *)

\* What a refresh leaves of a status (refreshApproval).
LEMMA FreshStatus ==
    ASSUME TypeOK, NEW r \in Requests
    PROVE  /\ Fresh(r) \in Statuses \cup {"absent", "removed"}
           /\ FreshUi(r) \in BOOLEAN
           /\ Fresh(r) \in {status[r], "expired", "native_fallback"}
           /\ Fresh(r) = status[r] \/ status[r] \in Open
           /\ Fresh(r) = "native_fallback" /\ status[r] # "native_fallback"
                 => status[r] \in {"pending", "claimed"}
  BY DEF TypeOK, Fresh, FreshUi, Lapsed, FallsBack, Statuses, Open

\* A token that a refresh keeps is one of a request it leaves claimed.
LEMMA KeptTokens ==
    ASSUME IndInv, NEW r \in Requests
    PROVE  /\ Kept(r) \subseteq tokens
           /\ r \in Kept(r) => Fresh(r) = "claimed"
  BY DEF IndInv, TypeOK, TokenOnlyWhileClaimed, Kept, Fresh, Lapsed, FallsBack, Statuses, Open

\* A claim is lost to the clock or kept, never brought back, by a refresh.
LEMMA ClaimedStaysClaimed ==
    ASSUME TypeOK, NEW r \in Requests
    PROVE  /\ Fresh(r) = "claimed" => status[r] = "claimed" /\ "claim" \notin due[r]
           /\ Fresh(r) = "pending" => status[r] = "pending"
           /\ Fresh(r) = "absent" => status[r] = "absent"
  BY DEF TypeOK, Fresh, Lapsed, FallsBack, Statuses, Open

-----------------------------------------------------------------------------
(* One request is written *)

\* A call that puts a new status, not one of the initial two, on a request
\* keeps the invariant, provided the tokens are a subset of the old ones and
\* the request keeps its own only if it stays claimed.
LEMMA PutKeepsInv ==
    ASSUME IndInv, NEW r \in Requests, Found(r), NEW s \in Statuses, NEW written \in BOOLEAN,
           s = "pending" => status[r] = "pending",
           Put(r, s, written),
           tokens' \subseteq tokens, r \in tokens' => status'[r] = "claimed",
           grants' \subseteq Requests, stale' \subseteq grants', due' = due
    PROVE  IndInv'
  <1>1. TypeOK'
    BY FreshStatus DEF IndInv, TypeOK, Put
  <1>2. TokenOnlyWhileClaimed'
    BY DEF IndInv, TypeOK, Put, TokenOnlyWhileClaimed
  <1>3. LeaseAfterClaim'
    BY DEF IndInv, TypeOK, Put, LeaseAfterClaim, Found, Statuses, Open
  <1> QED BY <1>1, <1>2, <1>3 DEF IndInv

\* A call that only refreshes.
LEMMA AnswerKeepsInv ==
    ASSUME IndInv, NEW r \in Requests, Found(r), NEW written \in BOOLEAN, Answer(r, written)
    PROVE  IndInv'
  <1>1. Fresh(r) \in Statuses
    BY FreshStatus DEF IndInv, TypeOK, Found, Statuses, Open
  <1>2. tokens' \subseteq tokens /\ (r \in tokens' => status'[r] = "claimed")
    BY KeptTokens DEF Answer, Put, IndInv, TypeOK, TokenOnlyWhileClaimed
  <1>3. Fresh(r) = "pending" => status[r] = "pending"
    BY ClaimedStaysClaimed DEF IndInv
  <1> QED BY <1>1, <1>2, <1>3, PutKeepsInv DEF Answer, IndInv, TypeOK

\* A call that throws.
LEMMA ThrowKeepsInv ==
    ASSUME IndInv, NEW r \in Requests, Throw(r)
    PROVE  IndInv'
  BY KeptTokens DEF Throw, ledger, IndInv, TypeOK, TokenOnlyWhileClaimed, LeaseAfterClaim

-----------------------------------------------------------------------------
(* Initially, and one step at a time *)

\* The empty ledger satisfies the invariant.
LEMMA InitIndInv == Init => IndInv
  BY DEF Init, IndInv, TypeOK, TokenOnlyWhileClaimed, LeaseAfterClaim, Statuses, Open, Deadlines

\* Every call about one request keeps the invariant.
LEMMA CallKeepsInv ==
    ASSUME IndInv, NEW r \in Requests, NEW written \in BOOLEAN, RequestCall(r, written)
    PROVE  IndInv'
  <1>1. ASSUME NEW eligible \in BOOLEAN, NEW prepare \in BOOLEAN,
               Create(r, eligible, prepare, written)
        PROVE  IndInv'
    <2>1. TypeOK'
      BY <1>1 DEF Create, IndInv, TypeOK, Statuses, Open
    <2>2. TokenOnlyWhileClaimed'
      BY <1>1 DEF Create, IndInv, TypeOK, TokenOnlyWhileClaimed
    <2>3. LeaseAfterClaim'
      BY <1>1 DEF Create, IndInv, TypeOK, LeaseAfterClaim
    <2> QED BY <2>1, <2>2, <2>3 DEF IndInv
  <1>2. CASE Claim(r, written)
    <2>1. CASE Fresh(r) = "pending" /\ FreshUi(r) /\ "ui" \notin due[r]
      <3>1. status[r] = "pending"
        BY <2>1, ClaimedStaysClaimed DEF IndInv
      <3>2. TypeOK'
        BY <1>2, <2>1, FreshStatus DEF Claim, Put, IndInv, TypeOK, Statuses, Open
      <3>3. TokenOnlyWhileClaimed'
        BY <1>2, <2>1, <3>1 DEF Claim, Put, IndInv, TypeOK, TokenOnlyWhileClaimed
      <3>4. LeaseAfterClaim'
        BY <1>2, <2>1, <3>1 DEF Claim, Put, IndInv, TypeOK, LeaseAfterClaim
      <3> QED BY <3>2, <3>3, <3>4 DEF IndInv
    <2>2. CASE ~(Fresh(r) = "pending" /\ FreshUi(r) /\ "ui" \notin due[r])
      BY <1>2, <2>2, AnswerKeepsInv DEF Claim
    <2> QED BY <2>1, <2>2
  <1>3. ASSUME NEW decision \in Decisions, Decide(r, decision, written)
        PROVE  IndInv'
    <2>1. CASE r \notin Kept(r)
      BY <1>3, <2>1, ThrowKeepsInv DEF Decide
    <2>2. CASE r \in Kept(r)
      <3>1. Fresh(r) = "claimed"
        BY <2>2, KeptTokens
      <3>2. /\ Put(r, Decided(decision), written)
            /\ grants' = IF written /\ decision = "approve_session" THEN grants \cup {r} ELSE grants
            /\ tokens' = IF written THEN tokens \ {r} ELSE tokens
            /\ UNCHANGED <<due, stale>>
        BY <1>3, <2>2, <3>1 DEF Decide
      <3>3. Decided(decision) \in Statuses /\ Decided(decision) # "pending"
        BY DEF Decided, Statuses, Open
      <3>4. tokens' \subseteq tokens /\ (r \in tokens' => status'[r] = "claimed")
        BY <3>2 DEF Put, IndInv, TypeOK, TokenOnlyWhileClaimed
      <3> QED BY <1>3, <3>2, <3>3, <3>4, PutKeepsInv DEF Decide, IndInv, TypeOK
    <2> QED BY <2>1, <2>2
  <1>4. ASSUME NEW q \in Requests, Consume(r, DigestOf[q], written)
        PROVE  IndInv'
    <2>1. CASE DigestOf[q] # DigestOf[r] \/ Fresh(r) = "consumed"
      BY <1>4, <2>1, ThrowKeepsInv DEF Consume
    <2>2. CASE DigestOf[q] = DigestOf[r] /\ Fresh(r) = "approved_once"
      <3>1. /\ Put(r, "consumed", written)
            /\ tokens' = Kept(r) /\ UNCHANGED <<grants, due, stale>>
        BY <1>4, <2>2 DEF Consume
      <3>2. r \notin tokens' /\ tokens' \subseteq tokens
        BY <2>2, <3>1, KeptTokens
      <3>3. "consumed" \in Statuses
        BY DEF Statuses
      <3> QED BY <1>4, <3>1, <3>2, <3>3, PutKeepsInv DEF Consume, IndInv, TypeOK
    <2>3. CASE DigestOf[q] = DigestOf[r] /\ Fresh(r) \notin {"consumed", "approved_once"}
      BY <1>4, <2>3, AnswerKeepsInv DEF Consume
    <2> QED BY <2>1, <2>2, <2>3
  <1>5. CASE NativeApprove(r, written)
    <2>1. CASE Fresh(r) = "native_fallback" \/ (Fresh(r) = "pending" /\ ~FreshUi(r))
      <3>1. /\ Put(r, "approved_once", written)
            /\ tokens' = Kept(r) /\ UNCHANGED <<grants, due, stale>>
        BY <1>5, <2>1 DEF NativeApprove
      <3>2. r \notin tokens' /\ tokens' \subseteq tokens
        BY <2>1, <3>1, KeptTokens
      <3>3. "approved_once" \in Statuses
        BY DEF Statuses, Open
      <3> QED BY <1>5, <3>1, <3>2, <3>3, PutKeepsInv DEF NativeApprove, IndInv, TypeOK
    <2>2. CASE ~(Fresh(r) = "native_fallback" \/ (Fresh(r) = "pending" /\ ~FreshUi(r)))
      BY <1>5, <2>2, AnswerKeepsInv DEF NativeApprove
    <2> QED BY <2>1, <2>2
  <1>6. CASE Cancel(r, written)
    <2>1. CASE Fresh(r) \in Open
      <3>1. /\ Put(r, "cancelled", written)
            /\ tokens' = Kept(r) \ {r} /\ UNCHANGED <<grants, due, stale>>
        BY <1>6, <2>1 DEF Cancel
      <3>2. r \notin tokens' /\ tokens' \subseteq tokens
        BY <3>1, KeptTokens
      <3>3. "cancelled" \in Statuses
        BY DEF Statuses
      <3> QED BY <1>6, <3>1, <3>2, <3>3, PutKeepsInv DEF Cancel, IndInv, TypeOK
    <2>2. CASE Fresh(r) \notin Open
      BY <1>6, <2>2, AnswerKeepsInv DEF Cancel
    <2> QED BY <2>1, <2>2
  <1>7. CASE Poll(r, written)
    BY <1>7, AnswerKeepsInv DEF Poll
  <1>8. CASE RevokeGrant(r, written)
    BY <1>8 DEF RevokeGrant, IndInv, TypeOK, TokenOnlyWhileClaimed, LeaseAfterClaim
  <1> QED BY <1>1, <1>2, <1>3, <1>4, <1>5, <1>6, <1>7, <1>8 DEF RequestCall

\* Every step keeps the invariant.
LEMMA NextIndInv == IndInv /\ [Next]_vars => IndInv'
  <1> SUFFICES ASSUME IndInv, [Next]_vars PROVE IndInv'
    OBVIOUS
  <1>1. ASSUME NEW r \in Requests, NEW written \in BOOLEAN, RequestCall(r, written)
        PROVE  IndInv'
    BY <1>1, CallKeepsInv
  <1>2. ASSUME NEW written \in BOOLEAN, Prune(written)
        PROVE  IndInv'
    BY <1>2 DEF Prune, IndInv, TypeOK, TokenOnlyWhileClaimed, LeaseAfterClaim
  <1>3. ASSUME NEW written \in BOOLEAN, ListRequests(written)
        PROVE  IndInv'
    <2>1. TypeOK'
      BY <1>3, FreshStatus DEF ListRequests, IndInv, TypeOK
    <2>2. TokenOnlyWhileClaimed'
      BY <1>3, KeptTokens DEF ListRequests, IndInv, TypeOK, TokenOnlyWhileClaimed
    <2>3. LeaseAfterClaim'
      BY <1>3, ClaimedStaysClaimed DEF ListRequests, IndInv, TypeOK, LeaseAfterClaim
    <2> QED BY <2>1, <2>2, <2>3 DEF IndInv
  <1>4. ASSUME NEW o \in Owners, NEW written \in BOOLEAN, CleanupConversation(o, written)
        PROVE  IndInv'
    <2>1. TypeOK'
      BY <1>4 DEF CleanupConversation, IndInv, TypeOK
    <2>2. TokenOnlyWhileClaimed'
      BY <1>4 DEF CleanupConversation, IndInv, TypeOK, TokenOnlyWhileClaimed, Found
    <2>3. LeaseAfterClaim'
      BY <1>4 DEF CleanupConversation, IndInv, TypeOK, LeaseAfterClaim
    <2> QED BY <2>1, <2>2, <2>3 DEF IndInv
  <1>5. CASE Restart
    BY <1>5 DEF Restart, ledger, IndInv, TypeOK, TokenOnlyWhileClaimed, LeaseAfterClaim
  <1>6. ASSUME NEW r \in Requests, GrantExpires(r)
        PROVE  IndInv'
    BY <1>6 DEF GrantExpires, ledger, IndInv, TypeOK, TokenOnlyWhileClaimed, LeaseAfterClaim
  <1>7. ASSUME NEW r \in Requests, NEW d \in Deadlines, DeadlinePasses(r, d)
        PROVE  IndInv'
    BY <1>7 DEF DeadlinePasses, ledger, IndInv, TypeOK, TokenOnlyWhileClaimed, LeaseAfterClaim, Found
  <1>8. CASE UNCHANGED vars
    BY <1>8 DEF vars, ledger, IndInv, TypeOK, TokenOnlyWhileClaimed, LeaseAfterClaim
  <1> QED BY <1>1, <1>2, <1>3, <1>4, <1>5, <1>6, <1>7, <1>8 DEF Next

\* The inductive invariant holds in every reachable state.
THEOREM LedgerInductive == Spec => []IndInv
  BY InitIndInv, NextIndInv, PTL DEF Spec

\* No token outlives the claim it was issued for.
THEOREM TokensAreCurrent == Spec => []TokenOnlyWhileClaimed
  BY LedgerInductive, PTL DEF IndInv

-----------------------------------------------------------------------------
(* The ledger implements the permits *)

\* The abstract steps, in terms of one request whose status is written.
LEMMA PutMoves ==
    ASSUME IndInv, NEW r \in Requests, NEW s, NEW written \in BOOLEAN, Put(r, s, written),
           \/ s = status[r]
           \/ s \in {"claimed", "native_fallback"}
                 /\ status[r] \in {"pending", "claimed", "native_fallback"}
           \/ s \in {"approved_once", "approved_session", "rejected"}
                 /\ status[r] \in {"pending", "claimed", "native_fallback"}
           \/ s = "consumed" /\ status[r] = "approved_once"
           \/ s \in {"cancelled", "expired"} /\ status[r] \in Open
    PROVE  [P!PermitNext]_Permits
  <1> USE DEF Permits
  <1>1. CASE ~written \/ s = status[r]
    <2>1. status' = status
      BY <1>1 DEF Put, IndInv, TypeOK
    <2> QED BY <2>1 DEF Stage
  <1>2. CASE written
    <2>1. status' = [status EXCEPT ![r] = s]
      BY <1>2 DEF Put
    <2>2. \A q \in Requests \ {r} : status'[q] = status[q]
      BY <2>1 DEF IndInv, TypeOK
    <2>3. status'[r] = s
      BY <2>1 DEF IndInv, TypeOK
    <2>4. \A q \in Requests \ {r} : Stage(q)' = Stage(q)
      BY <2>2 DEF Stage
    <2>5. CASE s \in {"claimed", "native_fallback"}
                 /\ status[r] \in {"pending", "claimed", "native_fallback"}
      <3>1. Stage(r)' = Stage(r)
        BY <2>3, <2>5 DEF Stage
      <3> QED BY <3>1, <2>4
    <2>6. CASE s = "approved_once" /\ status[r] \in {"pending", "claimed", "native_fallback"}
      <3>1. Stage(r) = "asked" /\ Stage(r)' = "allowed"
        BY <2>3, <2>6 DEF Stage
      <3>2. P!AllowOnce(r)
        BY <3>1, <2>4 DEF P!AllowOnce, P!Moves
      <3> QED BY <3>2 DEF P!PermitNext
    <2>7. CASE s = "approved_session" /\ status[r] \in {"pending", "claimed", "native_fallback"}
      <3>1. Stage(r) = "asked" /\ Stage(r)' = "standing"
        BY <2>3, <2>7 DEF Stage
      <3>2. P!AllowConversation(r)
        BY <3>1, <2>4 DEF P!AllowConversation, P!Moves
      <3> QED BY <3>2 DEF P!PermitNext
    <2>8. CASE s = "consumed" /\ status[r] = "approved_once"
      <3>1. Stage(r) = "allowed" /\ Stage(r)' = "used"
        BY <2>3, <2>8 DEF Stage
      <3>2. P!Use(r)
        BY <3>1, <2>4 DEF P!Use, P!Moves
      <3> QED BY <3>2 DEF P!PermitNext
    <2>9. CASE \/ s = "rejected" /\ status[r] \in {"pending", "claimed", "native_fallback"}
               \/ s \in {"cancelled", "expired"} /\ status[r] \in Open
      <3>1. Stage(r) \in {"asked", "allowed"} /\ Stage(r)' = "closed"
        BY <2>3, <2>9 DEF Stage, Open
      <3>2. P!Close({r})
        BY <3>1, <2>4 DEF P!Close
      <3> QED BY <3>2 DEF P!PermitNext
    <2> QED BY <1>2, <1>1, <2>5, <2>6, <2>7, <2>8, <2>9
  <1> QED BY <1>1, <1>2

\* A step that leaves every status alone leaves every permit alone.
LEMMA SameStatusSamePermit ==
    ASSUME status' = status
    PROVE  [P!PermitNext]_Permits
  BY DEF Stage, Permits

\* Every call about one request is a step of the permits, or none.
LEMMA CallMoves ==
    ASSUME IndInv, NEW r \in Requests, NEW written \in BOOLEAN, RequestCall(r, written)
    PROVE  [P!PermitNext]_Permits
  <1> USE DEF IndInv, Permits
  <1>0. /\ Answer(r, written) => [P!PermitNext]_Permits
        /\ Throw(r) => [P!PermitNext]_Permits
    <2>1. ASSUME Answer(r, written) PROVE [P!PermitNext]_Permits
      <3>1. \/ Fresh(r) = status[r]
            \/ Fresh(r) = "native_fallback" /\ status[r] \in {"pending", "claimed", "native_fallback"}
            \/ Fresh(r) = "expired" /\ status[r] \in Open
        BY FreshStatus
      <3> QED BY <2>1, <3>1, PutMoves DEF Answer
    <2>2. ASSUME Throw(r) PROVE [P!PermitNext]_Permits
      BY <2>2, SameStatusSamePermit DEF Throw, ledger
    <2> QED BY <2>1, <2>2
  <1>1. ASSUME NEW eligible \in BOOLEAN, NEW prepare \in BOOLEAN,
               Create(r, eligible, prepare, written)
        PROVE  [P!PermitNext]_Permits
    <2>1. \A q \in Requests \ {r} : Stage(q)' = Stage(q)
      BY <1>1 DEF Create, Stage, TypeOK
    <2>2. Stage(r) = "none" /\ Stage(r)' = "asked"
      BY <1>1 DEF Create, Stage, TypeOK
    <2>3. P!Ask(r)
      BY <2>1, <2>2 DEF P!Ask, P!Moves
    <2> QED BY <2>3 DEF P!PermitNext
  <1>2. CASE Claim(r, written)
    BY <1>2, <1>0, ClaimedStaysClaimed, PutMoves DEF Claim
  <1>3. ASSUME NEW decision \in Decisions, Decide(r, decision, written)
        PROVE  [P!PermitNext]_Permits
    <2>1. CASE r \notin Kept(r)
      BY <1>3, <2>1, <1>0 DEF Decide
    <2>2. CASE r \in Kept(r)
      <3>1. Fresh(r) = "claimed" /\ status[r] = "claimed"
        BY <2>2, KeptTokens, ClaimedStaysClaimed
      <3>2. Put(r, Decided(decision), written)
        BY <1>3, <2>2, <3>1 DEF Decide
      <3>3. Decided(decision) \in {"approved_once", "approved_session", "rejected"}
        BY DEF Decided
      <3> QED BY <3>1, <3>2, <3>3, PutMoves
    <2> QED BY <2>1, <2>2
  <1>4. ASSUME NEW q \in Requests, Consume(r, DigestOf[q], written)
        PROVE  [P!PermitNext]_Permits
    <2>1. Fresh(r) = "approved_once" => status[r] = "approved_once"
      BY FreshStatus
    <2> QED BY <1>4, <1>0, <2>1, PutMoves DEF Consume
  <1>5. CASE NativeApprove(r, written)
    <2>1. Fresh(r) \in {"native_fallback", "pending"}
             => status[r] \in {"pending", "claimed", "native_fallback"}
      BY FreshStatus
    <2> QED BY <1>5, <1>0, <2>1, PutMoves DEF NativeApprove
  <1>6. CASE Cancel(r, written)
    <2>1. Fresh(r) \in Open => status[r] \in Open
      BY FreshStatus
    <2> QED BY <1>6, <1>0, <2>1, PutMoves DEF Cancel
  <1>7. CASE Poll(r, written)
    BY <1>7, <1>0 DEF Poll
  <1>8. CASE RevokeGrant(r, written)
    BY <1>8, SameStatusSamePermit DEF RevokeGrant
  <1> QED BY <1>1, <1>2, <1>3, <1>4, <1>5, <1>6, <1>7, <1>8 DEF RequestCall

\* Every step of the ledger is a step of the permits, or none.
LEMMA NextMoves ==
    IndInv /\ [Next]_vars => [P!PermitNext]_Permits
  <1> SUFFICES ASSUME IndInv, [Next]_vars
               PROVE  [P!PermitNext]_Permits
    OBVIOUS
  <1> USE DEF Permits
  <1>1. ASSUME NEW r \in Requests, NEW written \in BOOLEAN, RequestCall(r, written)
        PROVE  [P!PermitNext]_Permits
    BY <1>1, CallMoves
  <1>2. ASSUME NEW written \in BOOLEAN, ListRequests(written)
        PROVE  [P!PermitNext]_Permits
    <2>1. CASE written
      <3> DEFINE lapsing == {q \in Requests : Lapsed(q)}
      <3>1. \A q \in Requests : status'[q] = Fresh(q)
        BY <1>2, <2>1 DEF ListRequests
      <3>2. \A q \in lapsing : Stage(q) \in {"asked", "allowed"} /\ Stage(q)' = "closed"
        BY <3>1 DEF Stage, Fresh, Lapsed, Open
      <3>3. \A q \in Requests \ lapsing : Stage(q)' = Stage(q)
        BY <3>1 DEF Stage, Fresh, FallsBack
      <3>4. P!Close(lapsing)
        BY <3>2, <3>3 DEF P!Close
      <3> QED BY <3>4 DEF P!PermitNext
    <2>2. CASE ~written
      BY <1>2, <2>2, SameStatusSamePermit DEF ListRequests
    <2> QED BY <2>1, <2>2
  <1>3. ASSUME NEW o \in Owners, NEW written \in BOOLEAN, CleanupConversation(o, written)
        PROVE  [P!PermitNext]_Permits
    <2>1. CASE written
      <3> DEFINE removed == {q \in Requests : OwnerOf[q] = o /\ Found(q)}
      <3>1. \A q \in Requests : status'[q] = IF q \in removed THEN "removed" ELSE status[q]
        BY <1>3, <2>1 DEF CleanupConversation
      <3>2. \A q \in removed : Stage(q) # "none" /\ Stage(q)' = "forgotten"
        BY <3>1 DEF Stage, Found
      <3>3. \A q \in Requests \ removed : Stage(q)' = Stage(q)
        BY <3>1 DEF Stage
      <3>4. P!Forget(removed)
        BY <3>2, <3>3 DEF P!Forget
      <3> QED BY <3>4 DEF P!PermitNext
    <2>2. CASE ~written
      BY <1>3, <2>2, SameStatusSamePermit DEF CleanupConversation
    <2> QED BY <2>1, <2>2
  <1>4. ASSUME \/ \E written \in BOOLEAN : Prune(written)
               \/ Restart
               \/ \E r \in Requests : GrantExpires(r)
               \/ \E r \in Requests, d \in Deadlines : DeadlinePasses(r, d)
               \/ UNCHANGED vars
        PROVE  [P!PermitNext]_Permits
    <2>1. status' = status
      BY <1>4 DEF Prune, Restart, GrantExpires, DeadlinePasses, vars, ledger
    <2> QED BY <2>1, SameStatusSamePermit
  <1> QED BY <1>1, <1>2, <1>3, <1>4 DEF Next

\* The initial ledger is one without permits.
LEMMA InitPermits == Init => P!PermitInit
  BY DEF Init, P!PermitInit, Stage, Permits

\* The ledger implements the permits, for every set of requests: what was
\* approved once is used at most once, and nothing closed, used or forgotten
\* comes back, through failed writes, restarts and calls in any order.
THEOREM LedgerImplementsPermit == Spec => ImplementsPermit
  BY LedgerInductive, InitPermits, NextMoves, PTL DEF Spec, ImplementsPermit, P!PermitSpec
-----------------------------------------------------------------------------
(* The native prompt takes over *)

\* Who is out of the companion's hands, and where that may lead.
Handed(r) == status[r] = "native_fallback" \/ "claim" \in due[r]
HandedTo(r) == status'[r] \in {status[r], "native_fallback", "approved_once", "consumed",
                               "cancelled", "expired", "removed"}

\* A call that writes one status leads no handed request astray if that status
\* is one of those.
LEMMA PutHands ==
    ASSUME IndInv, NEW r \in Requests, NEW s, NEW written \in BOOLEAN, Put(r, s, written),
           Handed(r) => s \in {status[r], "native_fallback", "approved_once", "consumed",
                               "cancelled", "expired"}
    PROVE  \A q \in Requests : Handed(q) => HandedTo(q)
  BY DEF Put, HandedTo, IndInv, TypeOK

\* Every call about one request leaves the handed ones to the native prompt:
\* a handed request is neither pending with a companion nor claimed in time.
LEMMA CallHands ==
    ASSUME IndInv, NEW r \in Requests, NEW written \in BOOLEAN, RequestCall(r, written)
    PROVE  \A q \in Requests : Handed(q) => HandedTo(q)
  <1> DEFINE Led == \A q \in Requests : Handed(q) => HandedTo(q)
  <1>1. Fresh(r) \in {status[r], "expired", "native_fallback"}
    BY FreshStatus DEF IndInv
  <1>2. Handed(r) => Fresh(r) \notin {"pending", "claimed"}
    BY ClaimedStaysClaimed DEF Handed, IndInv, LeaseAfterClaim
  <1>3. Answer(r, written) => Led
    BY <1>1, PutHands DEF Answer
  <1>4. Throw(r) => Led
    BY DEF Throw, ledger, HandedTo
  <1>5. ASSUME NEW eligible \in BOOLEAN, NEW prepare \in BOOLEAN,
               Create(r, eligible, prepare, written)
        PROVE  Led
    BY <1>5 DEF Create, Handed, HandedTo, IndInv, TypeOK, LeaseAfterClaim
  <1>6. CASE Claim(r, written)
    BY <1>6, <1>2, <1>3, PutHands DEF Claim
  <1>7. ASSUME NEW decision \in Decisions, Decide(r, decision, written)
        PROVE  Led
    <2>1. CASE r \notin Kept(r)
      BY <1>7, <2>1, <1>4 DEF Decide
    <2>2. CASE r \in Kept(r)
      <3>1. Fresh(r) = "claimed"
        BY <2>2, KeptTokens
      <3>2. Put(r, Decided(decision), written)
        BY <1>7, <2>2, <3>1 DEF Decide
      <3> QED BY <3>1, <3>2, <1>2, PutHands
    <2> QED BY <2>1, <2>2
  <1>8. ASSUME NEW q \in Requests, Consume(r, DigestOf[q], written)
        PROVE  Led
    BY <1>8, <1>3, <1>4, PutHands DEF Consume
  <1>9. CASE NativeApprove(r, written)
    BY <1>9, <1>3, PutHands DEF NativeApprove
  <1>10. CASE Cancel(r, written)
    BY <1>10, <1>3, PutHands DEF Cancel
  <1>11. CASE Poll(r, written)
    BY <1>11, <1>3 DEF Poll
  <1>12. CASE RevokeGrant(r, written)
    BY <1>12 DEF RevokeGrant, HandedTo
  <1> QED BY <1>5, <1>6, <1>7, <1>8, <1>9, <1>10, <1>11, <1>12 DEF RequestCall

\* Every step leaves them to the native prompt.
LEMMA NextHands ==
    IndInv /\ [Next]_vars => \A q \in Requests : Handed(q) => HandedTo(q)
  <1> SUFFICES ASSUME IndInv, [Next]_vars
               PROVE  \A q \in Requests : Handed(q) => HandedTo(q)
    OBVIOUS
  <1>1. ASSUME NEW r \in Requests, NEW written \in BOOLEAN, RequestCall(r, written)
        PROVE  \A q \in Requests : Handed(q) => HandedTo(q)
    BY <1>1, CallHands
  <1>2. ASSUME NEW written \in BOOLEAN, ListRequests(written)
        PROVE  \A q \in Requests : Handed(q) => HandedTo(q)
    <2>1. \A q \in Requests : status'[q] \in {status[q], Fresh(q)}
      BY <1>2 DEF ListRequests
    <2>2. \A q \in Requests : Fresh(q) \in {status[q], "expired", "native_fallback"}
      BY FreshStatus DEF IndInv
    <2> QED BY <2>1, <2>2 DEF HandedTo
  <1>3. ASSUME NEW o \in Owners, NEW written \in BOOLEAN, CleanupConversation(o, written)
        PROVE  \A q \in Requests : Handed(q) => HandedTo(q)
    BY <1>3 DEF CleanupConversation, HandedTo
  <1>4. ASSUME \/ \E written \in BOOLEAN : Prune(written)
               \/ Restart
               \/ \E r \in Requests : GrantExpires(r)
               \/ \E r \in Requests, d \in Deadlines : DeadlinePasses(r, d)
               \/ UNCHANGED vars
        PROVE  \A q \in Requests : Handed(q) => HandedTo(q)
    <2>1. status' = status
      BY <1>4 DEF Prune, Restart, GrantExpires, DeadlinePasses, vars, ledger
    <2> QED BY <2>1 DEF HandedTo
  <1> QED BY <1>1, <1>2, <1>3, <1>4 DEF Next

\* Once its UI or claim lease is over a request is out of the companion's
\* hands for good, for every number of requests.
THEOREM NativePromptTakesOver == Spec => NativeTakesOver
  <1>1. IndInv /\ [Next]_vars
          => [\A r \in Requests :
                 status[r] = "native_fallback" \/ "claim" \in due[r]
                 => status'[r] \in {status[r], "native_fallback", "approved_once", "consumed",
                                    "cancelled", "expired", "removed"}]_vars
    BY NextHands DEF Handed, HandedTo
  <1> QED BY <1>1, LedgerInductive, PTL DEF Spec, NativeTakesOver

-----------------------------------------------------------------------------
(* What the tool does by itself leaves the ledger alone *)

LEMMA ToolLeavesLedger ==
    ASSUME NEW c \in Calls,
           \/ Begin(c) \/ \E allowed \in BOOLEAN : Answered(c, allowed)
           \/ Abort(c) \/ GivesUp(c) \/ RunEnds(c) \/ CommandEnds(c)
    PROVE  UNCHANGED vars
BY DEF Begin, Answered, Abort, GivesUp, RunEnds, CommandEnds

\* What the daemon does for the tool is a call of the ledger, or leaves it
\* alone.
LEMMA ServingIsACall ==
    ASSUME NEW c \in Calls, NEW good \in BOOLEAN, Serve(c, good) \/ ServeWait(c, good)
    PROVE  [Next]_vars
<1> c \in Requests BY CallsAssumption
<1>1. CASE ServePrepare(c, good)
  <2>1. Create(c, TRUE, TRUE, TRUE) => RequestCall(c, TRUE) BY DEF RequestCall
  <2> QED BY <1>1, <2>1 DEF ServePrepare, Next
<1>2. CASE ServeWait(c, good) BY <1>2 DEF ServeWait, Next, RequestCall
<1>3. CASE ServeNative(c, good) BY <1>3 DEF ServeNative, Next, RequestCall
<1>4. CASE ServeConsume(c, good) BY <1>4 DEF ServeConsume, Next, RequestCall
<1>5. CASE ServeCancel(c, good) BY <1>5 DEF ServeCancel, Next, RequestCall
<1>6. CASE ServeStart(c, good) \/ ServeStop(c, good) BY <1>6 DEF ServeStart, ServeStop
<1> QED BY <1>1, <1>2, <1>3, <1>4, <1>5, <1>6 DEF Serve

LEMMA OthersCall ==
    ASSUME Others
    PROVE  Next
<1>1. CASE \E r \in Requests \ Calls, written \in BOOLEAN : RequestCall(r, written)
  BY <1>1 DEF Next
<1>2. CASE \E c \in Calls, written \in BOOLEAN : Companion(c, written)
  <2>1. PICK c \in Calls, written \in BOOLEAN : Companion(c, written) BY <1>2
  <2>2. RequestCall(c, written) \/ ListRequests(written) \/ Prune(written)
    BY <2>1 DEF Companion, RequestCall
  <2> QED BY <2>2, CallsAssumption DEF Next
<1>3. CASE \E o \in Owners, written \in BOOLEAN : CleanupConversation(o, written)
  BY <1>3 DEF Next
<1> QED BY <1>1, <1>2, <1>3 DEF Others

LEMMA StepIsALedgerStep ==
    ASSUME [ToolNext]_allVars
    PROVE  [Next]_vars
<1>1. CASE UNCHANGED allVars BY <1>1 DEF allVars
<1>2. CASE \E c \in Calls :
              \/ Begin(c) \/ \E allowed \in BOOLEAN : Answered(c, allowed)
              \/ Abort(c) \/ GivesUp(c) \/ RunEnds(c) \/ CommandEnds(c)
  BY <1>2, ToolLeavesLedger
<1>3. CASE \E c \in Calls, good \in BOOLEAN : Serve(c, good) \/ ServeWait(c, good)
  BY <1>3, ServingIsACall
<1>4. CASE DaemonRestarts BY <1>4 DEF DaemonRestarts, Next
<1>5. CASE Others BY <1>5, OthersCall
<1>6. CASE \E r \in Requests : GrantEnds(r) \/ \E d \in Deadlines : TimePasses(r, d)
  BY <1>6 DEF GrantEnds, TimePasses, Next
<1> QED BY <1>1, <1>2, <1>3, <1>4, <1>5, <1>6 DEF ToolNext

\* The composition of the tool, the companion, the clock and restarts with the
\* ledger is a ledger that anybody calls in any order (bash.ts, daemon-client.ts
\* over server.ts): no step of theirs reaches into approvals.json.
THEOREM ToolCallsTheLedger == ToolSpec => Spec
<1>1. ToolInit => Init BY DEF ToolInit
<1>2. [ToolNext]_allVars => [Next]_vars BY StepIsALedgerStep
<1> QED BY <1>1, <1>2, PTL DEF ToolSpec, Spec

-----------------------------------------------------------------------------
(* The inductive invariant *)

\* The tool may still be told that its request was approved.
Early == {"idle", "prepare", "wait", "ask", "native", "consume", "cancel", "external"}
\* It has been told so.
Late == {"external", "start", "run", "stop", "done"}

\* What the daemon has still to carry out, by where the tool stands: what a tool
\* gave up is carried out all the same, and it never asks for more than a
\* cancellation behind it.
Mailbox(c) ==
    /\ pc[c] \in {"idle", "wait", "run", "done", "ask", "external"} => inbox[c] = <<>>
    /\ pc[c] \in {"prepare", "native", "consume", "start", "stop"} => inbox[c] = <<pc[c]>>
    /\ pc[c] = "cancel" => inbox[c] \in {<<"cancel">>, <<"native", "cancel">>, <<"consume", "cancel">>}
    /\ pc[c] = "failed" => inbox[c] \in {<<>>, <<"prepare">>, <<"start">>, <<"stop">>, <<"cancel">>,
                                         <<"native", "cancel">>, <<"consume", "cancel">>}

\* Where the tool of a request that may still be decided or used can stand.
OpenWhileAsked(c) ==
    /\ status[c] \in Open => pc[c] \in {"wait", "ask", "native", "consume", "cancel", "failed"}
    /\ status[c] \in {"pending", "claimed"} => /\ pc[c] \in {"wait", "cancel", "failed"}
                                               /\ ~Asked(c, "start") /\ command[c] = "none"
    /\ status[c] = "native_fallback" => pc[c] # "consume"
    /\ pc[c] = "failed" /\ c \notin broken => status[c] \notin Open /\ ~Asked(c, "prepare")

\* No command before the start was asked for, and no stop without one.
NotYet(c) ==
    /\ pc[c] \in Early \/ Asked(c, "prepare") => command[c] = "none"
    /\ pc[c] = "stop" => aborted[c]
    /\ pc[c] = "run" \/ Asked(c, "stop") => command[c] # "none"

\* The command has been allowed.
Allowed(c) ==
    \/ <<c, "policy">> \in yes \/ <<c, "once">> \in yes
    \/ \E q \in Requests : <<q, "session">> \in yes
                           /\ OwnerOf[q] = OwnerOf[c] /\ DigestOf[q] = DigestOf[c]

OnlyOnYes(c) ==
    /\ pc[c] \in Late \/ Asked(c, "start") \/ command[c] # "none" => Allowed(c)
    /\ status[c] = "approved_once" \/ Asked(c, "native") => <<c, "once">> \in yes

\* A no is heard wherever the tool stands, and it stays heard.
NeverAfterNo(c) ==
    c \in no => /\ command[c] = "none" /\ ~Asked(c, "start")
                /\ pc[c] \notin {"start", "run", "stop", "done"}
                /\ \/ aborted[c] \/ pc[c] \in {"cancel", "failed"}
                   \/ status[c] \in {"rejected", "removed"} /\ pc[c] \in {"wait", "consume"}

CallInv(c) ==
    Mailbox(c) /\ OpenWhileAsked(c) /\ NotYet(c) /\ OnlyOnYes(c) /\ NeverAfterNo(c)

ToolInv ==
    /\ ToolTypeOK
    /\ \A g \in grants : <<g, "session">> \in yes
    /\ \A c \in Calls : CallInv(c)

-----------------------------------------------------------------------------
(* How a call moves on *)

PCs == Operations \cup Prompts \cup Over \cup {"idle", "wait", "run"}

\* What taking the first call of a queue and adding one at its end leaves.
LEMMA QueueMoves ==
    ASSUME NEW x \in Operations
    PROVE  /\ Head(<<x>>) = x /\ Tail(<<x>>) = <<>>
           /\ Head(<<x, "cancel">>) = x /\ Tail(<<x, "cancel">>) = <<"cancel">>
           /\ Append(<<>>, x) = <<x>> /\ Append(<<x>>, "cancel") = <<x, "cancel">>
           /\ <<x>> \in Seq(Operations) /\ <<x, "cancel">> \in Seq(Operations)
  <1>1. Head(<<x>>) = x /\ Tail(<<x>>) = <<>> /\ Append(<<>>, x) = <<x>>
    OBVIOUS
  <1>2. Head(<<x, "cancel">>) = x
    OBVIOUS
  <1>3. Tail(<<x, "cancel">>) = <<"cancel">>
    OBVIOUS
  <1>4. <<x>> \in Seq(Operations) /\ <<x, "cancel">> \in Seq(Operations)
    BY DEF Operations
  <1>5. Append(<<x>>, "cancel") = <<x, "cancel">>
    <2> DEFINE s == Append(<<x>>, "cancel")
               t == <<x, "cancel">>
    <2>1. "cancel" \in Operations /\ Len(<<x>>) = 1 /\ <<x>>[1] = x
      BY DEF Operations
    <2>2. s \in Seq(Operations) /\ Len(s) = 2 /\ s[1] = x /\ s[2] = "cancel"
      BY <1>4, <2>1, AppendProperties
    <2>3. t \in Seq(Operations) /\ Len(t) = 2 /\ t[1] = x /\ t[2] = "cancel"
      BY <1>4
    <2> HIDE DEF s, t
    <2>4. \A i \in 1 .. Len(s) : s[i] = t[i]
      BY <2>2, <2>3
    <2>5. s = t
      BY <2>2, <2>3, <2>4, SeqEqual
    <2> QED BY <2>5 DEF s, t
  <1> QED BY <1>1, <1>2, <1>3, <1>4, <1>5

\* The tool moves on.
LEMMA Gone ==
    ASSUME ToolTypeOK, NEW c \in Calls, NEW next \in PCs, Goto(c, next)
    PROVE  /\ pc' \in [Calls -> PCs] /\ inbox' \in [Calls -> Seq(Operations)]
           /\ pc'[c] = next /\ inbox'[c] = Queue(inbox[c], next)
           /\ \A d \in Calls \ {c} : pc'[d] = pc[d] /\ inbox'[d] = inbox[d]
  <1>1. inbox[c] \in Seq(Operations) /\ pc \in [Calls -> PCs] /\ inbox \in [Calls -> Seq(Operations)]
    BY DEF ToolTypeOK, PCs
  <1>2. Queue(inbox[c], next) \in Seq(Operations)
    BY <1>1 DEF Queue
  <1>3. pc' = [pc EXCEPT ![c] = next] /\ inbox' = [inbox EXCEPT ![c] = Queue(inbox[c], next)]
    BY DEF Goto
  <1> QED BY <1>1, <1>2, <1>3

\* The daemon has carried out what it was asked: the tool moves on if it still
\* waits for that, or the queue of what it gave up becomes shorter.
LEMMA Replied ==
    ASSUME ToolTypeOK, NEW c \in Calls, Mailbox(c), NEW x \in Operations, Asked(c, x),
           NEW next \in PCs, Reply(c, next)
    PROVE  /\ pc' \in [Calls -> PCs] /\ inbox' \in [Calls -> Seq(Operations)]
           /\ \A d \in Calls \ {c} : pc'[d] = pc[d] /\ inbox'[d] = inbox[d]
           /\ \/ pc[c] = x /\ pc'[c] = next /\ inbox[c] = <<x>> /\ inbox'[c] = Queue(<<>>, next)
              \/ /\ pc[c] = "failed" /\ pc'[c] = "failed" /\ inbox[c] = <<x>> /\ inbox'[c] = <<>>
                 /\ x \in {"prepare", "start", "stop", "cancel"}
              \/ /\ pc[c] \in {"cancel", "failed"} /\ pc'[c] = pc[c] /\ x \in {"native", "consume"}
                 /\ inbox[c] = <<x, "cancel">> /\ inbox'[c] = <<"cancel">>
  <1>1. inbox[c] \in Seq(Operations) /\ pc \in [Calls -> PCs] /\ inbox \in [Calls -> Seq(Operations)]
    BY DEF ToolTypeOK, PCs
  <1>2. inbox[c] # <<>> /\ Head(inbox[c]) = x
    BY DEF Asked
  <1>3. \/ pc[c] = x /\ inbox[c] = <<x>>
        \/ pc[c] = "failed" /\ inbox[c] = <<x>> /\ x \in {"prepare", "start", "stop", "cancel"}
        \/ pc[c] \in {"cancel", "failed"} /\ inbox[c] = <<x, "cancel">> /\ x \in {"native", "consume"}
    <2>1. pc[c] \in {"prepare", "native", "consume", "start", "stop", "cancel", "failed"}
      BY <1>1, <1>2 DEF Mailbox, PCs, Operations, Prompts, Over
    <2>2. CASE pc[c] \in {"prepare", "native", "consume", "start", "stop"}
      <3>1. inbox[c] = <<pc[c]>>
        BY <2>2 DEF Mailbox
      <3> QED BY <1>2, <3>1
    <2>3. CASE pc[c] \in {"cancel", "failed"}
      <3>1. inbox[c] \in {<<"prepare">>, <<"start">>, <<"stop">>, <<"cancel">>,
                          <<"native", "cancel">>, <<"consume", "cancel">>}
        BY <1>2, <2>3 DEF Mailbox
      <3>2. pc[c] = "cancel" => inbox[c] \in {<<"cancel">>, <<"native", "cancel">>, <<"consume", "cancel">>}
        BY DEF Mailbox
      <3>3. CASE inbox[c] \in {<<"prepare">>, <<"start">>, <<"stop">>}
        <4>1. pc[c] # "cancel"
          BY <1>2, <3>2, <3>3
        <4> QED BY <1>2, <2>3, <3>3, <4>1
      <3>4. CASE inbox[c] = <<"cancel">>
        BY <1>2, <2>3, <3>4
      <3>5. CASE inbox[c] \in {<<"native", "cancel">>, <<"consume", "cancel">>}
        BY <1>2, <2>3, <3>5
      <3> QED BY <3>1, <3>3, <3>4, <3>5
    <2> QED BY <2>1, <2>2, <2>3
  <1> DEFINE rest == Tail(inbox[c])
             awaited == pc[c] = Head(inbox[c]) /\ rest = <<>>
  <1>4. /\ pc' = IF awaited THEN [pc EXCEPT ![c] = next] ELSE pc
        /\ inbox' = [inbox EXCEPT ![c] = IF awaited THEN Queue(rest, next) ELSE rest]
    BY DEF Reply
  <1>5. rest \in Seq(Operations) /\ Queue(rest, next) \in Seq(Operations)
    BY <1>1, <1>2 DEF Queue
  <1>6. CASE pc[c] = x /\ inbox[c] = <<x>>
    <2>1. awaited /\ rest = <<>>
      BY <1>6, QueueMoves
    <2> QED BY <1>1, <1>4, <1>5, <1>6, <2>1
  <1>7. CASE pc[c] = "failed" /\ inbox[c] = <<x>> /\ x \in {"prepare", "start", "stop", "cancel"}
    <2>1. ~awaited /\ rest = <<>>
      BY <1>7, QueueMoves
    <2> HIDE DEF awaited, rest
    <2> QED BY <1>1, <1>4, <1>5, <1>7, <2>1
  <1>8. CASE /\ pc[c] \in {"cancel", "failed"} /\ inbox[c] = <<x, "cancel">>
             /\ x \in {"native", "consume"}
    <2>1. ~awaited /\ rest = <<"cancel">>
      BY <1>8, QueueMoves
    <2> HIDE DEF awaited, rest
    <2> QED BY <1>1, <1>4, <1>5, <1>8, <2>1
  <1> QED BY <1>3, <1>6, <1>7, <1>8

\* What a move adds to an empty queue, and to one that is left behind.
LEMMA QueueEmpty ==
    /\ \A next \in Operations : Queue(<<>>, next) = <<next>>
    /\ \A next \in PCs \ Operations : Queue(<<>>, next) = <<>>
    /\ \A next \in PCs \ Operations, x \in Operations :
          Queue(<<x>>, next) = <<x>> /\ Queue(<<x, "cancel">>, next) = <<x, "cancel">>
    /\ \A x \in Operations : Queue(<<x>>, "cancel") = <<x, "cancel">>
  <1>1. \A next \in Operations : Queue(<<>>, next) = <<next>>
    BY QueueMoves DEF Queue
  <1>2. \A x \in Operations : Queue(<<x>>, "cancel") = <<x, "cancel">>
    BY QueueMoves DEF Queue, Operations
  <1> QED BY <1>1, <1>2 DEF Queue

\* What the daemon will carry out next.
LEMMA Asks ==
    ASSUME NEW c \in Calls, NEW x \in Operations, NEW y
    PROVE  /\ inbox[c] = <<>> => ~Asked(c, y)
           /\ inbox[c] \in {<<x>>, <<x, "cancel">>} => (Asked(c, y) <=> x = y)
  BY QueueMoves DEF Asked

LEMMA AsksNext ==
    ASSUME NEW c \in Calls, NEW x \in Operations, NEW y
    PROVE  /\ inbox'[c] = <<>> => ~Asked(c, y)'
           /\ inbox'[c] \in {<<x>>, <<x, "cancel">>} => (Asked(c, y)' <=> x = y)
  BY QueueMoves DEF Asked

\* A step of one call leaves the others as they are.
LEMMA OneCall ==
    ASSUME ToolInv, NEW c \in Calls, ToolTypeOK', CallInv(c)', yes \subseteq yes',
           grants' \subseteq grants,
           \A d \in Calls \ {c} :
               /\ pc'[d] = pc[d] /\ inbox'[d] = inbox[d] /\ aborted'[d] = aborted[d]
               /\ command'[d] = command[d] /\ status'[d] = status[d]
               /\ (d \in no' <=> d \in no) /\ (d \in broken' <=> d \in broken)
    PROVE  ToolInv'
  <1>1. ASSUME NEW d \in Calls \ {c} PROVE CallInv(d)'
    <2>1. /\ pc'[d] = pc[d] /\ inbox'[d] = inbox[d] /\ aborted'[d] = aborted[d]
          /\ command'[d] = command[d] /\ status'[d] = status[d]
          /\ (d \in no' <=> d \in no) /\ (d \in broken' <=> d \in broken)
      OBVIOUS
    <2>2. CallInv(d)
      BY DEF ToolInv
    <2>3. Allowed(d) => Allowed(d)'
      BY DEF Allowed
    <2>4. \A x : Asked(d, x)' <=> Asked(d, x)
      BY <2>1 DEF Asked
    <2> QED BY <2>1, <2>2, <2>3, <2>4
            DEF CallInv, Mailbox, OpenWhileAsked, NotYet, OnlyOnYes, NeverAfterNo
  <1> QED BY <1>1 DEF ToolInv

\* The tool moves on while nothing of it waits at the daemon.
LEMMA GoneFree ==
    ASSUME ToolTypeOK, NEW c \in Calls, inbox[c] = <<>>, NEW next \in PCs, Goto(c, next)
    PROVE  /\ pc' \in [Calls -> PCs] /\ inbox' \in [Calls -> Seq(Operations)]
           /\ \A d \in Calls \ {c} : pc'[d] = pc[d] /\ inbox'[d] = inbox[d]
           /\ pc'[c] = next /\ Mailbox(c)'
           /\ \A x \in Operations : Asked(c, x)' => next = x
  <1>1. /\ pc' \in [Calls -> PCs] /\ inbox' \in [Calls -> Seq(Operations)]
        /\ pc'[c] = next /\ inbox'[c] = Queue(<<>>, next)
        /\ \A d \in Calls \ {c} : pc'[d] = pc[d] /\ inbox'[d] = inbox[d]
    BY Gone
  <1>2. CASE next \in Operations
    <2>1. inbox'[c] = <<next>>
      BY <1>1, <1>2, QueueEmpty
    <2>2. Mailbox(c)'
      BY <1>1, <1>2, <2>1 DEF Mailbox, Operations
    <2> QED BY <1>1, <1>2, <2>1, <2>2, AsksNext
  <1>3. CASE next \notin Operations
    <2>1. inbox'[c] = <<>>
      BY <1>1, <1>3, QueueEmpty
    <2>2. Mailbox(c)'
      BY <1>1, <1>3, <2>1 DEF Mailbox, Operations
    <2>3. \A x \in Operations : ~Asked(c, x)'
      BY <2>1, AsksNext
    <2> QED BY <1>1, <2>2, <2>3
  <1> QED BY <1>2, <1>3

\* The tool gives up an answer: what it asked is carried out all the same.
LEMMA GoneBehind ==
    ASSUME ToolTypeOK, NEW c \in Calls, Mailbox(c), pc[c] \in Operations,
           Goto(c, AfterFailure(pc[c]))
    PROVE  /\ pc' \in [Calls -> PCs] /\ inbox' \in [Calls -> Seq(Operations)]
           /\ \A d \in Calls \ {c} : pc'[d] = pc[d] /\ inbox'[d] = inbox[d]
           /\ pc'[c] = AfterFailure(pc[c]) /\ Mailbox(c)'
           /\ \A x \in Operations : Asked(c, x)' <=> Asked(c, x)
  <1>1. AfterFailure(pc[c]) \in PCs
    BY DEF AfterFailure, PCs, Operations, Prompts, Over
  <1>2. /\ pc' \in [Calls -> PCs] /\ inbox' \in [Calls -> Seq(Operations)]
        /\ pc'[c] = AfterFailure(pc[c]) /\ inbox'[c] = Queue(inbox[c], AfterFailure(pc[c]))
        /\ \A d \in Calls \ {c} : pc'[d] = pc[d] /\ inbox'[d] = inbox[d]
    BY <1>1, Gone
  <1>3. CASE pc[c] \in {"native", "consume"}
    <2>1. inbox[c] = <<pc[c]>> /\ AfterFailure(pc[c]) = "cancel"
      BY <1>3 DEF Mailbox, AfterFailure
    <2>2. inbox'[c] = <<pc[c], "cancel">>
      BY <1>2, <2>1, QueueEmpty
    <2>3. Mailbox(c)'
      BY <1>2, <1>3, <2>1, <2>2 DEF Mailbox
    <2>4. \A x \in Operations : (Asked(c, x)' <=> x = pc[c]) /\ (Asked(c, x) <=> x = pc[c])
      BY <2>1, <2>2, Asks, AsksNext
    <2> QED BY <1>2, <2>3, <2>4
  <1>4. CASE pc[c] \in {"prepare", "start", "stop", "cancel"}
    <2>1. AfterFailure(pc[c]) = "failed" /\ "failed" \in PCs \ Operations
      BY <1>4 DEF AfterFailure, PCs, Operations, Over
    <2>2. \E x \in Operations : inbox[c] \in {<<x>>, <<x, "cancel">>}
      BY <1>4 DEF Mailbox, Operations
    <2>3. inbox'[c] = inbox[c]
      BY <1>2, <2>1, <2>2, QueueEmpty
    <2>4. inbox[c] \in {<<>>, <<"prepare">>, <<"start">>, <<"stop">>, <<"cancel">>,
                        <<"native", "cancel">>, <<"consume", "cancel">>}
      BY <1>4 DEF Mailbox
    <2>5. Mailbox(c)'
      BY <1>2, <2>1, <2>3, <2>4 DEF Mailbox
    <2>6. \A x \in Operations : Asked(c, x)' <=> Asked(c, x)
      BY <2>3 DEF Asked
    <2> QED BY <1>2, <2>5, <2>6
  <1> QED BY <1>3, <1>4 DEF Operations

\* The daemon answers: the tool moves on, or it has given up and stays where it
\* is, with at most its cancellation left.
LEMMA Served ==
    ASSUME ToolTypeOK, NEW c \in Calls, Mailbox(c), NEW x \in Operations, Asked(c, x),
           NEW next \in PCs, Reply(c, next)
    PROVE  /\ pc' \in [Calls -> PCs] /\ inbox' \in [Calls -> Seq(Operations)]
           /\ \A d \in Calls \ {c} : pc'[d] = pc[d] /\ inbox'[d] = inbox[d]
           /\ Mailbox(c)'
           /\ \/ pc[c] = x /\ pc'[c] = next /\ \A y \in Operations : Asked(c, y)' => next = y
              \/ /\ pc'[c] = pc[c] /\ \A y \in Operations : Asked(c, y)' => y = "cancel"
                 /\ \/ pc[c] = "failed"
                    \/ pc[c] = "cancel" /\ x \in {"native", "consume"}
  <1>1. /\ pc' \in [Calls -> PCs] /\ inbox' \in [Calls -> Seq(Operations)]
        /\ \A d \in Calls \ {c} : pc'[d] = pc[d] /\ inbox'[d] = inbox[d]
        /\ \/ pc[c] = x /\ pc'[c] = next /\ inbox[c] = <<x>> /\ inbox'[c] = Queue(<<>>, next)
           \/ /\ pc[c] = "failed" /\ pc'[c] = "failed" /\ inbox[c] = <<x>> /\ inbox'[c] = <<>>
              /\ x \in {"prepare", "start", "stop", "cancel"}
           \/ /\ pc[c] \in {"cancel", "failed"} /\ pc'[c] = pc[c] /\ x \in {"native", "consume"}
              /\ inbox[c] = <<x, "cancel">> /\ inbox'[c] = <<"cancel">>
    BY Replied
  <1>2. CASE pc[c] = x /\ pc'[c] = next /\ inbox'[c] = Queue(<<>>, next)
    <2>1. CASE next \in Operations
      <3>1. inbox'[c] = <<next>>
        BY <1>2, <2>1, QueueEmpty
      <3>2. Mailbox(c)'
        BY <1>2, <2>1, <3>1 DEF Mailbox, Operations
      <3> QED BY <1>1, <1>2, <2>1, <3>1, <3>2, AsksNext
    <2>2. CASE next \notin Operations
      <3>1. inbox'[c] = <<>>
        BY <1>2, <2>2, QueueEmpty
      <3>2. Mailbox(c)'
        BY <1>2, <2>2, <3>1 DEF Mailbox, Operations
      <3>3. \A y \in Operations : ~Asked(c, y)'
        BY <3>1, AsksNext
      <3> QED BY <1>1, <1>2, <3>2, <3>3
    <2> QED BY <2>1, <2>2
  <1>3. CASE pc[c] = "failed" /\ pc'[c] = "failed" /\ inbox'[c] = <<>>
    <2>1. Mailbox(c)'
      BY <1>3 DEF Mailbox
    <2>2. \A y \in Operations : ~Asked(c, y)'
      BY <1>3, AsksNext
    <2> QED BY <1>1, <1>3, <2>1, <2>2
  <1>4. CASE /\ pc[c] \in {"cancel", "failed"} /\ pc'[c] = pc[c] /\ x \in {"native", "consume"}
             /\ inbox'[c] = <<"cancel">>
    <2>1. Mailbox(c)'
      BY <1>4 DEF Mailbox
    <2>2. \A y \in Operations : Asked(c, y)' => y = "cancel"
      <3>1. "cancel" \in Operations
        BY DEF Operations
      <3> QED BY <1>4, <3>1, AsksNext
    <2> QED BY <1>1, <1>4, <2>1, <2>2
  <1> QED BY <1>1, <1>2, <1>3, <1>4

-----------------------------------------------------------------------------
(* The steps of the tool *)

LEMMA BeginStep ==
    ASSUME ToolInv, NEW c \in Calls, Begin(c)
    PROVE  ToolInv'
  <1>1. /\ pc[c] = "idle" /\ UNCHANGED <<status, grants, aborted, command, no, broken>>
        /\ \/ \E next \in {"failed", "prepare"} : Goto(c, next) /\ UNCHANGED yes
           \/ \E next \in Permitted(c) : Goto(c, next) /\ yes' = yes \cup {<<c, "policy">>}
    BY DEF Begin, vars, ledger
  <1>2. CallInv(c) /\ ToolTypeOK /\ inbox[c] = <<>> /\ c \in Requests
    BY <1>1, CallsAssumption DEF ToolInv, CallInv, Mailbox
  <1>3. PICK next \in {"failed", "prepare", "start", "external"} :
            /\ Goto(c, next)
            /\ next \in {"start", "external"} => <<c, "policy">> \in yes' /\ ~aborted[c]
            /\ yes' \in {yes, yes \cup {<<c, "policy">>}}
    BY <1>1 DEF Permitted, Proceed
  <1>4. /\ pc' \in [Calls -> PCs] /\ inbox' \in [Calls -> Seq(Operations)]
        /\ \A d \in Calls \ {c} : pc'[d] = pc[d] /\ inbox'[d] = inbox[d]
        /\ pc'[c] = next /\ Mailbox(c)'
        /\ \A x \in Operations : Asked(c, x)' => next = x
    BY <1>2, <1>3, GoneFree DEF PCs, Operations, Prompts, Over
  <1>5. ToolTypeOK'
    BY <1>1, <1>2, <1>3, <1>4 DEF ToolTypeOK, PCs
  <1>6. /\ command[c] = "none" /\ status[c] \notin Open /\ (c \in no => aborted[c])
        /\ status[c] # "approved_once"
    BY <1>1, <1>2 DEF CallInv, OpenWhileAsked, NotYet, NeverAfterNo, Early, Open
  <1>7. UNCHANGED <<status, aborted, command, no, broken>>
    BY <1>1
  <1>8. OpenWhileAsked(c)' /\ NotYet(c)'
    BY <1>4, <1>6, <1>7 DEF OpenWhileAsked, NotYet, Open, Operations
  <1>9. OnlyOnYes(c)' /\ NeverAfterNo(c)'
    BY <1>3, <1>4, <1>6, <1>7 DEF OnlyOnYes, NeverAfterNo, Allowed, Late, Operations
  <1> QED BY <1>1, <1>3, <1>4, <1>5, <1>8, <1>9, OneCall DEF CallInv

\* A prompt is only answered while nothing of the call waits at the daemon.
LEMMA AnsweredStep ==
    ASSUME ToolInv, NEW c \in Calls, NEW allowed \in BOOLEAN, Answered(c, allowed)
    PROVE  ToolInv'
  <1>1. /\ pc[c] \in {"ask", "external"} /\ UNCHANGED <<status, grants, aborted, command, broken>>
        /\ yes' = IF allowed /\ pc[c] = "ask" THEN yes \cup {<<c, "once">>} ELSE yes
        /\ no' = IF allowed THEN no ELSE no \cup {c}
    BY DEF Answered, vars, ledger, Prompts
  <1>2. CallInv(c) /\ ToolTypeOK /\ inbox[c] = <<>> /\ c \in Requests
    BY <1>1, CallsAssumption DEF ToolInv, CallInv, Mailbox
  <1>3. PICK next \in {"native", "cancel", "start", "failed"} :
            /\ Goto(c, next)
            /\ next = "native" => allowed /\ pc[c] = "ask"
            /\ next = "cancel" => pc[c] = "ask"
            /\ next = "start" => allowed /\ pc[c] = "external" /\ ~aborted[c]
            /\ next = "failed" => pc[c] = "external"
            /\ ~allowed => next \in {"cancel", "failed"}
    BY <1>1 DEF Answered, Proceed
  <1>4. /\ pc' \in [Calls -> PCs] /\ inbox' \in [Calls -> Seq(Operations)]
        /\ \A d \in Calls \ {c} : pc'[d] = pc[d] /\ inbox'[d] = inbox[d]
        /\ pc'[c] = next /\ Mailbox(c)'
        /\ \A x \in Operations : Asked(c, x)' => next = x
    BY <1>2, <1>3, GoneFree DEF PCs, Operations, Prompts, Over
  <1>5. ToolTypeOK'
    BY <1>1, <1>2, <1>4 DEF ToolTypeOK, PCs
  <1>6. /\ command[c] = "none" /\ (c \in no => aborted[c])
        /\ pc[c] = "external" => Allowed(c) /\ status[c] \notin Open
        /\ status[c] \notin {"pending", "claimed"}
        /\ status[c] = "approved_once" => <<c, "once">> \in yes
    BY <1>1, <1>2 DEF CallInv, OpenWhileAsked, NotYet, OnlyOnYes, NeverAfterNo, Early, Late
  <1>7. /\ UNCHANGED <<status, aborted, command, broken>> /\ (Allowed(c) => Allowed(c)')
        /\ yes \subseteq yes'
    BY <1>1 DEF Allowed
  <1>8. OpenWhileAsked(c)' /\ NotYet(c)'
    BY <1>3, <1>4, <1>6, <1>7 DEF OpenWhileAsked, NotYet, Open, Operations
  <1>9. OnlyOnYes(c)'
    BY <1>1, <1>3, <1>4, <1>6, <1>7 DEF OnlyOnYes, Late, Operations
  <1>10. NeverAfterNo(c)'
    BY <1>1, <1>3, <1>4, <1>6, <1>7 DEF NeverAfterNo, Operations
  <1> QED BY <1>1, <1>4, <1>5, <1>7, <1>8, <1>9, <1>10, OneCall DEF CallInv

\* A tool that has not asked for the start has nothing of it at the daemon.
LEMMA EarlyNotAsked ==
    ASSUME NEW c \in Calls, Mailbox(c), pc[c] \in Early
    PROVE  ~Asked(c, "start")
  <1>1. \/ inbox[c] = <<>>
        \/ \E x \in {"prepare", "native", "consume", "cancel"} : inbox[c] \in {<<x>>, <<x, "cancel">>}
    <2>1. CASE pc[c] \in {"idle", "wait", "ask", "external"}
      BY <2>1 DEF Mailbox
    <2>2. CASE pc[c] \in {"prepare", "native", "consume"}
      <3>1. inbox[c] = <<pc[c]>>
        BY <2>2 DEF Mailbox
      <3> QED BY <2>2, <3>1
    <2>3. CASE pc[c] = "cancel"
      BY <2>3 DEF Mailbox
    <2> QED BY <2>1, <2>2, <2>3 DEF Early
  <1> QED BY <1>1, Asks DEF Operations

\* The user aborts.
LEMMA AbortStep ==
    ASSUME ToolInv, NEW c \in Calls, Abort(c)
    PROVE  ToolInv'
  <1>1. /\ ~aborted[c] /\ pc[c] \notin Over
        /\ aborted' = [aborted EXCEPT ![c] = TRUE]
        /\ no' = IF pc[c] \in {"start", "run"} THEN no ELSE no \cup {c}
        /\ UNCHANGED <<status, grants, command, yes, broken>>
    BY DEF Abort, vars, ledger
  <1>2. CallInv(c) /\ ToolTypeOK /\ c \in Requests /\ pc[c] \in PCs
    BY CallsAssumption DEF ToolInv, ToolTypeOK, PCs
  <1>3. aborted'[c] /\ \A d \in Calls \ {c} : aborted'[d] = aborted[d] /\ (d \in no' <=> d \in no)
    BY <1>1, <1>2 DEF ToolTypeOK
  <1>4. /\ pc[c] # "stop" /\ (pc[c] \in Early => command[c] = "none" /\ ~Asked(c, "start"))
        /\ pc[c] \in {"start", "run"} => Allowed(c) /\ c \notin no
        /\ (Allowed(c) <=> Allowed(c)')
    BY <1>1, <1>2, EarlyNotAsked
       DEF CallInv, NotYet, OnlyOnYes, NeverAfterNo, Late, Allowed
  <1>5. CASE Aborts(pc[c]) = pc[c]
    <2>1. UNCHANGED <<pc, inbox>> /\ pc[c] \in {"idle", "prepare", "native", "consume", "cancel", "start"}
      BY <1>1, <1>2, <1>4, <1>5 DEF Abort, Aborts, PCs, Operations, Prompts, Over
    <2>2. ToolTypeOK'
      BY <1>1, <1>2, <2>1 DEF ToolTypeOK
    <2>3. (\A x : Asked(c, x)' <=> Asked(c, x)) /\ Mailbox(c)'
      BY <1>2, <2>1 DEF CallInv, Mailbox, Asked
    <2>4. OpenWhileAsked(c)' /\ NotYet(c)' /\ OnlyOnYes(c)'
      BY <1>1, <1>2, <1>4, <2>1, <2>3 DEF CallInv, OpenWhileAsked, NotYet, OnlyOnYes
    <2>5. NeverAfterNo(c)'
      BY <1>1, <1>2, <1>3, <1>4, <2>1, <2>3 DEF CallInv, NeverAfterNo, Early
    <2> QED BY <1>1, <1>3, <2>1, <2>2, <2>3, <2>4, <2>5, OneCall DEF CallInv
  <1>6. CASE Aborts(pc[c]) # pc[c]
    <2>1. PICK next \in {"cancel", "failed", "stop"} :
              /\ Goto(c, next)
              /\ next = "cancel" => pc[c] \in {"wait", "ask"}
              /\ next = "failed" => pc[c] = "external"
              /\ next = "stop" => pc[c] = "run"
      BY <1>1, <1>6 DEF Abort, Aborts
    <2>2. pc[c] \in {"wait", "ask", "external", "run"} /\ inbox[c] = <<>>
      BY <1>2, <2>1 DEF CallInv, Mailbox
    <2>3. /\ pc' \in [Calls -> PCs] /\ inbox' \in [Calls -> Seq(Operations)]
          /\ \A d \in Calls \ {c} : pc'[d] = pc[d] /\ inbox'[d] = inbox[d]
          /\ pc'[c] = next /\ Mailbox(c)'
          /\ \A x \in Operations : Asked(c, x)' => next = x
      BY <1>2, <2>1, <2>2, GoneFree DEF PCs, Operations, Prompts, Over
    <2>4. ToolTypeOK'
      BY <1>1, <1>2, <2>3 DEF ToolTypeOK, PCs
    <2>5. /\ pc[c] # "wait" => status[c] \notin {"pending", "claimed"}
          /\ pc[c] \in {"external", "run"} => status[c] \notin Open
          /\ status[c] = "approved_once" => <<c, "once">> \in yes
          /\ (pc[c] # "run" => command[c] = "none") /\ (pc[c] = "run" => command[c] # "none")
      BY <1>2, <2>2 DEF CallInv, OpenWhileAsked, OnlyOnYes, NotYet, Early
    <2>6. OpenWhileAsked(c)' /\ NotYet(c)'
      BY <1>1, <1>3, <2>1, <2>2, <2>3, <2>5 DEF OpenWhileAsked, NotYet, Open, Operations, Early
    <2>7. OnlyOnYes(c)'
      BY <1>1, <1>2, <1>4, <2>1, <2>2, <2>3, <2>5 DEF CallInv, OnlyOnYes, Late, Operations
    <2>8. NeverAfterNo(c)'
      BY <1>1, <1>3, <1>4, <2>1, <2>2, <2>3, <2>5 DEF NeverAfterNo, Operations
    <2> QED BY <1>1, <1>3, <2>3, <2>4, <2>6, <2>7, <2>8, OneCall DEF CallInv
  <1> QED BY <1>5, <1>6

\* An answer does not come in time.
LEMMA GivesUpStep ==
    ASSUME ToolInv, NEW c \in Calls, GivesUp(c)
    PROVE  ToolInv'
  <1>1. /\ pc[c] \in Operations \cup {"wait", "run"}
        /\ Goto(c, AfterFailure(pc[c])) /\ Fault(c, pc[c])
        /\ UNCHANGED <<status, grants, aborted, command, yes, no>>
    BY DEF GivesUp, vars, ledger
  <1>2. CallInv(c) /\ ToolTypeOK /\ c \in Requests
    BY CallsAssumption DEF ToolInv
  <1>3. /\ broken' = IF pc[c] \in {"prepare", "cancel"} THEN broken \cup {c} ELSE broken
        /\ AfterFailure(pc[c]) = IF pc[c] \in {"wait", "native", "consume"} THEN "cancel" ELSE "failed"
    BY <1>1 DEF Fault, AfterFailure
  <1>4. /\ pc' \in [Calls -> PCs] /\ inbox' \in [Calls -> Seq(Operations)]
        /\ \A d \in Calls \ {c} : pc'[d] = pc[d] /\ inbox'[d] = inbox[d]
        /\ pc'[c] = AfterFailure(pc[c]) /\ Mailbox(c)'
        /\ \A x \in Operations : Asked(c, x)' => Asked(c, x) \/ x = "cancel"
    <2>1. CASE pc[c] \in Operations
      BY <1>1, <1>2, <2>1, GoneBehind DEF CallInv
    <2>2. CASE pc[c] \in {"wait", "run"}
      <3>1. inbox[c] = <<>> /\ AfterFailure(pc[c]) \in {"cancel", "failed"}
        BY <1>2, <1>3, <2>2 DEF CallInv, Mailbox
      <3>2. AfterFailure(pc[c]) \in PCs
        BY <3>1 DEF PCs, Operations, Over
      <3> QED BY <1>1, <1>2, <3>1, <3>2, GoneFree DEF Operations
    <2> QED BY <1>1, <2>1, <2>2
  <1>5. ToolTypeOK'
    BY <1>1, <1>2, <1>3, <1>4 DEF ToolTypeOK, PCs
  <1>6. pc[c] \in {"start", "stop", "run"} => ~Asked(c, "prepare") /\ status[c] \notin Open
    <2>1. pc[c] = "run" => inbox[c] = <<>>
      BY <1>2 DEF CallInv, Mailbox
    <2>2. pc[c] \in {"start", "stop"} => inbox[c] = <<pc[c]>>
      BY <1>2 DEF CallInv, Mailbox
    <2>3. pc[c] \in {"start", "stop", "run"} => ~Asked(c, "prepare")
      BY <2>1, <2>2, Asks DEF Operations
    <2>4. pc[c] \in {"start", "stop", "run"} => status[c] \notin Open
      BY <1>2 DEF CallInv, OpenWhileAsked
    <2> QED BY <2>3, <2>4
  <1>7. OpenWhileAsked(c)'
    <2>1. pc'[c] = "failed" /\ c \notin broken' => pc[c] \in {"start", "stop", "run"}
      BY <1>1, <1>3, <1>4 DEF Operations
    <2> QED BY <1>1, <1>2, <1>3, <1>4, <1>6, <2>1 DEF CallInv, OpenWhileAsked, Operations
  <1>8. NotYet(c)'
    <2>1. pc'[c] = "cancel" => pc[c] \in Early
      BY <1>3, <1>4 DEF Early
    <2> QED BY <1>1, <1>2, <1>3, <1>4, <2>1 DEF CallInv, NotYet, Early, Operations
  <1>9. OnlyOnYes(c)'
    BY <1>1, <1>2, <1>3, <1>4 DEF CallInv, OnlyOnYes, Allowed, Late, Operations
  <1>10. NeverAfterNo(c)'
    BY <1>1, <1>2, <1>3, <1>4 DEF CallInv, NeverAfterNo, Operations
  <1> QED BY <1>1, <1>3, <1>4, <1>5, <1>7, <1>8, <1>9, <1>10, OneCall DEF CallInv

\* The wait for the end of the command is over.
LEMMA RunEndsStep ==
    ASSUME ToolInv, NEW c \in Calls, RunEnds(c)
    PROVE  ToolInv'
  <1>1. pc[c] = "run" /\ UNCHANGED <<status, grants, aborted, command, yes, no, broken>>
    BY DEF RunEnds, vars, ledger
  <1>2. PICK next \in {"done", "failed"} : Goto(c, next)
    BY DEF RunEnds
  <1>3. CallInv(c) /\ ToolTypeOK /\ inbox[c] = <<>>
    BY <1>1 DEF ToolInv, CallInv, Mailbox
  <1>4. /\ pc' \in [Calls -> PCs] /\ inbox' \in [Calls -> Seq(Operations)]
        /\ \A d \in Calls \ {c} : pc'[d] = pc[d] /\ inbox'[d] = inbox[d]
        /\ pc'[c] = next /\ Mailbox(c)'
        /\ \A x \in Operations : ~Asked(c, x)'
    BY <1>2, <1>3, GoneFree DEF PCs, Operations, Over
  <1>5. ToolTypeOK'
    BY <1>1, <1>3, <1>4 DEF ToolTypeOK, PCs
  <1>6. Allowed(c)' /\ c \notin no' /\ status'[c] \notin Open
    BY <1>1, <1>3 DEF CallInv, OnlyOnYes, NeverAfterNo, OpenWhileAsked, Allowed, Late
  <1>7. OpenWhileAsked(c)' /\ NotYet(c)' /\ OnlyOnYes(c)' /\ NeverAfterNo(c)'
    BY <1>4, <1>6 DEF OpenWhileAsked, NotYet, OnlyOnYes, NeverAfterNo, Open, Operations, Early
  <1> QED BY <1>1, <1>4, <1>5, <1>7, OneCall DEF CallInv

\* The command ends by itself.
LEMMA CommandEndsStep ==
    ASSUME ToolInv, NEW c \in Calls, CommandEnds(c)
    PROVE  ToolInv'
  <1>1. /\ command[c] = "running" /\ command' = [command EXCEPT ![c] = "ended"]
        /\ UNCHANGED <<status, grants, pc, aborted, inbox, yes, no, broken>>
    BY DEF CommandEnds, vars, ledger
  <1>2. CallInv(c) /\ ToolTypeOK
    BY DEF ToolInv
  <1>3. /\ ToolTypeOK' /\ command'[c] = "ended"
        /\ \A d \in Calls \ {c} : command'[d] = command[d]
    BY <1>1, <1>2 DEF ToolTypeOK
  <1>4. (\A x : Asked(c, x)' <=> Asked(c, x)) /\ Mailbox(c)' /\ (Allowed(c) <=> Allowed(c)')
    BY <1>1, <1>2 DEF CallInv, Mailbox, Asked, Allowed
  <1>5. OpenWhileAsked(c)' /\ NotYet(c)' /\ OnlyOnYes(c)' /\ NeverAfterNo(c)'
    BY <1>1, <1>2, <1>3, <1>4 DEF CallInv, OpenWhileAsked, NotYet, OnlyOnYes, NeverAfterNo
  <1> QED BY <1>1, <1>3, <1>4, <1>5, OneCall DEF CallInv

-----------------------------------------------------------------------------
(* What the daemon carries out *)

\* A call of the ledger for one request touches no other (withApprovals).
LEMMA PutOne ==
    ASSUME TypeOK, NEW c \in Requests, NEW s, NEW written \in BOOLEAN, Put(c, s, written)
    PROVE  /\ status'[c] = IF written THEN s ELSE status[c]
           /\ \A d \in Requests \ {c} : status'[d] = status[d]
  BY DEF TypeOK, Put

\* A grant that matches is a person's yes to this command of this conversation.
LEMMA MatchingAllows ==
    ASSUME ToolInv, TypeOK, NEW c \in Calls, Matching(c) # {}
    PROVE  Allowed(c)
  <1>1. PICK g \in grants : OwnerOf[g] = OwnerOf[c] /\ DigestOf[g] = DigestOf[c]
    BY DEF Matching
  <1> QED BY <1>1 DEF Allowed, ToolInv, TypeOK

\* The tool goes on to the command, or to the prompt for the directory, only if
\* it was not aborted.
LEMMA PermittedMoves ==
    ASSUME NEW c \in Calls, NEW next \in Permitted(c)
    PROVE  /\ next \in {"start", "external", "failed"} /\ next \in PCs
           /\ aborted[c] => next = "failed"
  BY DEF Permitted, Proceed, PCs, Operations, Prompts, Over

\* An answer that fails.
LEMMA FailingMoves ==
    ASSUME NEW c \in Calls, NEW x \in Operations, Asked(c, x), Failing(c)
    PROVE  /\ Reply(c, AfterFailure(x)) /\ AfterFailure(x) \in PCs
           /\ AfterFailure(x) = IF x \in {"native", "consume"} THEN "cancel" ELSE "failed"
           /\ broken' = IF x \in {"prepare", "cancel"} THEN broken \cup {c} ELSE broken
  BY DEF Asked, Failing, Fault, AfterFailure, PCs, Operations, Over

LEMMA ServePrepareStep ==
    ASSUME ToolInv, TypeOK, NEW c \in Calls, NEW written \in BOOLEAN, ServePrepare(c, written)
    PROVE  ToolInv'
  <1>1. Asked(c, "prepare") /\ "prepare" \in Operations /\ UNCHANGED <<aborted, command, yes, no>>
    BY DEF ServePrepare, Operations
  <1>2. CallInv(c) /\ Mailbox(c) /\ ToolTypeOK /\ c \in Requests
    BY CallsAssumption DEF ToolInv, CallInv
  <1>3. /\ command[c] = "none"
        /\ pc[c] = "prepare" => status[c] \notin Open /\ (c \in no => aborted[c])
        /\ pc[c] = "failed" => c \in broken
        /\ status[c] = "approved_once" => <<c, "once">> \in yes
    BY <1>1, <1>2 DEF CallInv, OpenWhileAsked, NotYet, OnlyOnYes, NeverAfterNo, Open
  <1>4. CASE ~written
    <2>1. /\ Reply(c, "failed") /\ "failed" \in PCs /\ broken' = broken \cup {c}
          /\ UNCHANGED <<status, grants>>
      BY <1>1, <1>4, FailingMoves DEF ServePrepare, vars, ledger
    <2>2. /\ pc' \in [Calls -> PCs] /\ inbox' \in [Calls -> Seq(Operations)]
          /\ \A d \in Calls \ {c} : pc'[d] = pc[d] /\ inbox'[d] = inbox[d]
          /\ Mailbox(c)' /\ pc'[c] = "failed"
          /\ \A y \in Operations : Asked(c, y)' => y = "cancel"
      BY <1>1, <1>2, <2>1, Served DEF Operations
    <2>3. ToolTypeOK'
      BY <1>1, <1>2, <2>1, <2>2 DEF ToolTypeOK, PCs
    <2>4. OpenWhileAsked(c)' /\ NotYet(c)' /\ OnlyOnYes(c)' /\ NeverAfterNo(c)'
      BY <1>1, <1>3, <2>1, <2>2
         DEF OpenWhileAsked, NotYet, OnlyOnYes, NeverAfterNo, Open, Operations, Late
    <2> QED BY <1>1, <2>1, <2>2, <2>3, <2>4, OneCall DEF CallInv
  <1>5. CASE written /\ Matching(c) # {}
    <2>1. PICK next \in Permitted(c) : Reply(c, next)
      BY <1>5 DEF ServePrepare
    <2>2. /\ next \in {"start", "external", "failed"} /\ next \in PCs
          /\ aborted[c] => next = "failed"
      BY PermittedMoves
    <2>3. Allowed(c) /\ (Allowed(c) <=> Allowed(c)')
      BY <1>1, <1>5, MatchingAllows DEF Allowed
    <2>4. grants' \subseteq grants /\ status' = status /\ broken' = broken
      BY <1>5 DEF ServePrepare, Prune
    <2>5. /\ pc' \in [Calls -> PCs] /\ inbox' \in [Calls -> Seq(Operations)]
          /\ \A d \in Calls \ {c} : pc'[d] = pc[d] /\ inbox'[d] = inbox[d]
          /\ Mailbox(c)'
          /\ \/ pc[c] = "prepare" /\ pc'[c] = next /\ \A y \in Operations : Asked(c, y)' => next = y
             \/ /\ pc'[c] = pc[c] /\ \A y \in Operations : Asked(c, y)' => y = "cancel"
                /\ pc[c] = "failed"
      BY <1>1, <1>2, <2>1, <2>2, Served
    <2>6. ToolTypeOK'
      BY <1>1, <1>2, <2>4, <2>5 DEF ToolTypeOK, PCs
    <2>7. OpenWhileAsked(c)' /\ NotYet(c)'
      BY <1>1, <1>2, <1>3, <2>2, <2>4, <2>5 DEF CallInv, OpenWhileAsked, NotYet, Open, Operations
    <2>8. OnlyOnYes(c)' /\ NeverAfterNo(c)'
      BY <1>1, <1>3, <2>2, <2>3, <2>4, <2>5 DEF OnlyOnYes, NeverAfterNo, Operations
    <2> QED BY <1>1, <2>4, <2>5, <2>6, <2>7, <2>8, OneCall DEF CallInv
  <1>6. CASE written /\ Matching(c) = {}
    <2>1. PICK next \in {"cancel", "wait"} : Reply(c, next) /\ (next = "cancel" <=> aborted[c])
      BY <1>6 DEF ServePrepare
    <2>2. /\ status[c] = "absent" /\ status'[c] = "pending" /\ grants' \subseteq grants
          /\ \A d \in Calls \ {c} : status'[d] = status[d]
          /\ broken' = broken
      BY <1>2, <1>6, CallsAssumption DEF ServePrepare, Create, TypeOK
    <2>3. next \in PCs
      BY DEF PCs, Operations
    <2>4. /\ pc' \in [Calls -> PCs] /\ inbox' \in [Calls -> Seq(Operations)]
          /\ \A d \in Calls \ {c} : pc'[d] = pc[d] /\ inbox'[d] = inbox[d]
          /\ Mailbox(c)'
          /\ \/ pc[c] = "prepare" /\ pc'[c] = next /\ \A y \in Operations : Asked(c, y)' => next = y
             \/ /\ pc'[c] = pc[c] /\ \A y \in Operations : Asked(c, y)' => y = "cancel"
                /\ pc[c] = "failed"
      BY <1>1, <1>2, <2>1, <2>3, Served
    <2>5. ToolTypeOK'
      BY <1>1, <1>2, <2>2, <2>4 DEF ToolTypeOK, PCs
    <2>6. OpenWhileAsked(c)' /\ NotYet(c)'
      BY <1>1, <1>3, <2>2, <2>4 DEF OpenWhileAsked, NotYet, Open, Operations
    <2>7. OnlyOnYes(c)' /\ NeverAfterNo(c)'
      BY <1>1, <1>2, <1>3, <2>1, <2>2, <2>4 DEF OnlyOnYes, NeverAfterNo, Late, Operations
    <2> QED BY <1>1, <2>2, <2>4, <2>5, <2>6, <2>7, OneCall DEF CallInv
  <1> QED BY <1>4, <1>5, <1>6

\* What a call of the daemon may do to the request of the call: it does not
\* bring back what was decided, nor approve.
Settling(c) ==
    /\ status'[c] \in {"pending", "claimed"} => status'[c] = status[c]
    /\ status'[c] \in Open => status[c] \in Open
    /\ status'[c] = "native_fallback" => status[c] \in {"pending", "claimed", "native_fallback"}
    /\ status[c] \in {"rejected", "removed"} => status'[c] = status[c]
    /\ \A d \in Calls \ {c} : status'[d] = status[d]
    /\ grants' = grants

LEMMA SameSettles ==
    ASSUME NEW c \in Calls, UNCHANGED <<status, grants>>
    PROVE  Settling(c) /\ (status'[c] = "approved_once" => status[c] = "approved_once")
  BY DEF Settling

\* The requests' refresh, the use and the cancellation settle (approvalStatus,
\* approvalConsume, approvalCancel).
LEMMA CallSettles ==
    ASSUME TypeOK, NEW c \in Calls, NEW written \in BOOLEAN,
           Poll(c, written) \/ Consume(c, DigestOf[c], written) \/ Cancel(c, written)
    PROVE  Settling(c) /\ (status'[c] = "approved_once" => status[c] = "approved_once")
  <1>1. c \in Requests /\ Calls \subseteq Requests
    BY CallsAssumption
  <1>2. /\ Fresh(c) \in {status[c], "expired", "native_fallback"}
        /\ Fresh(c) = status[c] \/ status[c] \in Open
        /\ Fresh(c) = "native_fallback" /\ status[c] # "native_fallback"
               => status[c] \in {"pending", "claimed"}
    BY <1>1, FreshStatus
  <1>3. \/ status' = status
        \/ \E s \in {Fresh(c), "consumed", "cancelled"} :
              Put(c, s, written) /\ (s # Fresh(c) => Fresh(c) \in Open)
    BY DEF Poll, Consume, Cancel, Answer, Throw, ledger, Open
  <1>4. grants' = grants
    BY DEF Poll, Consume, Cancel, Answer, Throw, ledger
  <1>5. /\ status'[c] \in {status[c], Fresh(c), "consumed", "cancelled"}
        /\ status'[c] \in {"consumed", "cancelled"} => status[c] = status'[c] \/ status[c] \in Open
        /\ \A d \in Calls \ {c} : status'[d] = status[d]
    <2>1. CASE status' = status
      BY <2>1
    <2>2. CASE status' # status
      <3>1. PICK s \in {Fresh(c), "consumed", "cancelled"} :
                Put(c, s, written) /\ (s # Fresh(c) => Fresh(c) \in Open)
        BY <1>3, <2>2
      <3>2. /\ status'[c] = IF written THEN s ELSE status[c]
            /\ \A d \in Requests \ {c} : status'[d] = status[d]
        BY <1>1, <3>1, PutOne
      <3> QED BY <1>1, <1>2, <3>1, <3>2 DEF Open
    <2> QED BY <2>1, <2>2
  <1> QED BY <1>2, <1>4, <1>5 DEF Settling, Open

LEMMA ServeWaitStep ==
    ASSUME ToolInv, TypeOK, NEW c \in Calls, NEW written \in BOOLEAN, ServeWait(c, written)
    PROVE  ToolInv'
  <1>1. pc[c] = "wait" /\ UNCHANGED <<aborted, command, yes, no>>
    BY DEF ServeWait
  <1>2. CallInv(c) /\ Mailbox(c) /\ ToolTypeOK /\ c \in Requests /\ inbox[c] = <<>>
    BY <1>1, CallsAssumption DEF ToolInv, CallInv, Mailbox
  <1>3. Settling(c) /\ (status'[c] = "approved_once" => status[c] = "approved_once")
    <2>1. CASE Found(c)
      BY <2>1, CallSettles DEF ServeWait
    <2>2. CASE ~Found(c)
      BY <2>2, SameSettles DEF ServeWait, vars, ledger
    <2> QED BY <2>1, <2>2
  <1>4. /\ command[c] = "none" /\ ~Asked(c, "start")
        /\ status[c] = "approved_once" => <<c, "once">> \in yes
        /\ c \in no => aborted[c] \/ status[c] \in {"rejected", "removed"}
    BY <1>1, <1>2, EarlyNotAsked DEF CallInv, NotYet, OnlyOnYes, NeverAfterNo, Early
  <1>5. PICK next \in {"wait", "cancel", "ask", "consume"} :
            /\ IF next = "wait" THEN UNCHANGED <<pc, inbox>> ELSE Goto(c, next)
            /\ broken' = broken
            /\ next # "cancel" => Found(c) /\ written
            /\ next = "ask" => Fresh(c) = "native_fallback"
            /\ next = "consume" => Fresh(c) \notin {"pending", "claimed", "native_fallback"}
    <2>1. CASE ~Found(c) \/ ~written
      BY <2>1 DEF ServeWait, Fault, AfterFailure
    <2>2. CASE Found(c) /\ written /\ Fresh(c) \in {"pending", "claimed"}
      BY <2>2 DEF ServeWait
    <2>3. CASE Found(c) /\ written /\ Fresh(c) = "native_fallback"
      BY <2>3 DEF ServeWait
    <2>4. CASE Found(c) /\ written /\ Fresh(c) \notin {"pending", "claimed", "native_fallback"}
      BY <2>4 DEF ServeWait
    <2> QED BY <2>1, <2>2, <2>3, <2>4
  <1>6. next # "cancel" => status'[c] = Fresh(c)
    <2>1. Found(c) /\ written => Put(c, Fresh(c), written)
      BY DEF ServeWait, Poll, Answer
    <2> QED BY <1>2, <1>5, <2>1, PutOne
  <1>7. /\ pc' \in [Calls -> PCs] /\ inbox' \in [Calls -> Seq(Operations)]
        /\ \A d \in Calls \ {c} : pc'[d] = pc[d] /\ inbox'[d] = inbox[d]
        /\ pc'[c] = next /\ Mailbox(c)'
        /\ \A x \in Operations : Asked(c, x)' => next = x
    <2>1. CASE next = "wait"
      <3>1. UNCHANGED <<pc, inbox>> /\ pc \in [Calls -> PCs] /\ inbox \in [Calls -> Seq(Operations)]
        BY <1>2, <1>5, <2>1 DEF ToolTypeOK, PCs
      <3>2. Mailbox(c)' /\ \A x \in Operations : ~Asked(c, x)'
        BY <1>2, <3>1, AsksNext DEF Mailbox
      <3> QED BY <1>1, <2>1, <3>1, <3>2
    <2>2. CASE next # "wait"
      BY <1>2, <1>5, <2>2, GoneFree DEF PCs, Operations, Prompts
    <2> QED BY <2>1, <2>2
  <1>8. ToolTypeOK'
    BY <1>1, <1>2, <1>5, <1>7 DEF ToolTypeOK, PCs
  <1>9. OpenWhileAsked(c)' /\ NotYet(c)'
    BY <1>1, <1>4, <1>5, <1>6, <1>7 DEF OpenWhileAsked, NotYet, Open, Operations
  <1>10. OnlyOnYes(c)'
    BY <1>1, <1>3, <1>4, <1>7 DEF OnlyOnYes, Late, Operations
  <1>11. NeverAfterNo(c)'
    BY <1>1, <1>3, <1>4, <1>5, <1>6, <1>7 DEF NeverAfterNo, Settling, Operations
  <1> QED BY <1>1, <1>3, <1>5, <1>7, <1>8, <1>9, <1>10, <1>11, OneCall DEF CallInv, Settling

\* An answer that comes too late changes nothing for a tool that has given up.
LEMMA LateAnswer ==
    ASSUME ToolInv, NEW c \in Calls, pc[c] \in {"cancel", "failed"}, pc'[c] = pc[c], Mailbox(c)',
           \A y \in Operations : Asked(c, y)' => y = "cancel",
           Settling(c), UNCHANGED <<aborted, command, yes, no>>, broken \subseteq broken',
           status'[c] = "approved_once" => <<c, "once">> \in yes
    PROVE  CallInv(c)'
  <1>1. CallInv(c) /\ (Allowed(c) <=> Allowed(c)')
    BY DEF ToolInv, Allowed
  <1>2. OpenWhileAsked(c)' /\ NotYet(c)'
    BY <1>1 DEF CallInv, OpenWhileAsked, NotYet, Settling, Operations
  <1>3. OnlyOnYes(c)' /\ NeverAfterNo(c)'
    BY <1>1 DEF CallInv, OnlyOnYes, NeverAfterNo, Operations, Late
  <1> QED BY <1>2, <1>3 DEF CallInv

LEMMA ServeNativeStep ==
    ASSUME ToolInv, TypeOK, NEW c \in Calls, NEW written \in BOOLEAN, ServeNative(c, written)
    PROVE  ToolInv'
  <1>1. Asked(c, "native") /\ "native" \in Operations /\ UNCHANGED <<aborted, command, yes, no>>
    BY DEF ServeNative, Operations
  <1>2. CallInv(c) /\ Mailbox(c) /\ ToolTypeOK /\ c \in Requests /\ <<c, "once">> \in yes
    BY <1>1, CallsAssumption DEF ToolInv, CallInv, OnlyOnYes
  <1>3. PICK next \in {"consume", "cancel"} :
            Reply(c, next) /\ broken' = broken /\ (next = "consume" => Found(c) /\ written)
    BY <1>1, FailingMoves DEF ServeNative
  <1>4. /\ pc' \in [Calls -> PCs] /\ inbox' \in [Calls -> Seq(Operations)]
        /\ \A d \in Calls \ {c} : pc'[d] = pc[d] /\ inbox'[d] = inbox[d]
        /\ Mailbox(c)'
        /\ \/ pc[c] = "native" /\ pc'[c] = next /\ \A y \in Operations : Asked(c, y)' => next = y
           \/ /\ pc'[c] = pc[c] /\ \A y \in Operations : Asked(c, y)' => y = "cancel"
              /\ pc[c] \in {"failed", "cancel"}
    BY <1>1, <1>2, <1>3, Served DEF PCs, Operations
  <1>5. ToolTypeOK'
    BY <1>1, <1>2, <1>3, <1>4 DEF ToolTypeOK, PCs
  <1>6. /\ Fresh(c) \in {status[c], "expired", "native_fallback"}
        /\ Fresh(c) = status[c] \/ status[c] \in Open
        /\ Fresh(c) = "native_fallback" /\ status[c] # "native_fallback"
               => status[c] \in {"pending", "claimed"}
    BY <1>2, FreshStatus
  <1>7. /\ Settling(c)
        /\ Found(c) /\ written /\ status[c] \notin {"pending", "claimed"}
               => status'[c] \notin {"pending", "claimed", "native_fallback"}
    <2>1. CASE ~Found(c)
      BY <2>1, SameSettles DEF ServeNative, vars, ledger
    <2>2. CASE Found(c)
      <3>1. PICK s \in {Fresh(c), "approved_once"} :
                /\ Put(c, s, written) /\ grants' = grants
                /\ s # Fresh(c) => Fresh(c) \in {"pending", "native_fallback"}
                /\ Fresh(c) = "native_fallback" => s = "approved_once"
        BY <2>2 DEF ServeNative, NativeApprove, Answer
      <3>2. /\ status'[c] = IF written THEN s ELSE status[c]
            /\ \A d \in Requests \ {c} : status'[d] = status[d]
        BY <1>2, <3>1, PutOne
      <3> QED BY <1>6, <3>1, <3>2, CallsAssumption DEF Settling, Open
    <2> QED BY <2>1, <2>2
  <1>8. CallInv(c)'
    <2>1. CASE pc[c] = "native" /\ pc'[c] = next /\ \A y \in Operations : Asked(c, y)' => next = y
      <3>1. /\ command[c] = "none" /\ status[c] \notin {"pending", "claimed"}
            /\ c \in no => aborted[c]
        BY <1>2, <2>1 DEF CallInv, NotYet, OpenWhileAsked, NeverAfterNo, Early
      <3>2. OpenWhileAsked(c)' /\ NotYet(c)'
        BY <1>1, <1>3, <1>7, <2>1, <3>1 DEF OpenWhileAsked, NotYet, Settling, Operations
      <3>3. OnlyOnYes(c)' /\ NeverAfterNo(c)'
        BY <1>1, <1>2, <1>3, <2>1, <3>1 DEF OnlyOnYes, NeverAfterNo, Late, Operations
      <3> QED BY <1>4, <3>2, <3>3 DEF CallInv
    <2>2. CASE pc'[c] = pc[c] /\ pc[c] \in {"failed", "cancel"}
               /\ \A y \in Operations : Asked(c, y)' => y = "cancel"
      BY <1>1, <1>2, <1>3, <1>4, <1>7, <2>2, LateAnswer
    <2> QED BY <1>4, <2>1, <2>2
  <1> QED BY <1>1, <1>3, <1>4, <1>5, <1>7, <1>8, OneCall DEF Settling

LEMMA ServeConsumeStep ==
    ASSUME ToolInv, TypeOK, NEW c \in Calls, NEW written \in BOOLEAN, ServeConsume(c, written)
    PROVE  ToolInv'
  <1>1. Asked(c, "consume") /\ "consume" \in Operations /\ UNCHANGED <<aborted, command, yes, no>>
    BY DEF ServeConsume, Operations
  <1>2. /\ CallInv(c) /\ Mailbox(c) /\ ToolTypeOK /\ c \in Requests
        /\ status[c] = "approved_once" => <<c, "once">> \in yes
    BY CallsAssumption DEF ToolInv, CallInv, OnlyOnYes
  <1>3. Settling(c) /\ (status'[c] = "approved_once" => status[c] = "approved_once")
    <2>1. CASE Found(c)
      BY <2>1, CallSettles DEF ServeConsume
    <2>2. CASE ~Found(c)
      BY <2>2, SameSettles DEF ServeConsume, vars, ledger
    <2> QED BY <2>1, <2>2
  <1>4. PICK next \in {"cancel", "start", "external", "failed"} :
            /\ Reply(c, next) /\ broken' = broken
            /\ next # "cancel" => Found(c) /\ written /\ Granted(c)
            /\ aborted[c] => next \in {"failed", "cancel"}
    <2>1. CASE Found(c) /\ written /\ Granted(c)
      BY <2>1, PermittedMoves DEF ServeConsume
    <2>2. CASE Found(c) /\ written /\ ~Granted(c)
      BY <2>2 DEF ServeConsume
    <2>3. CASE ~(Found(c) /\ written)
      BY <1>1, <2>3, FailingMoves DEF ServeConsume
    <2> QED BY <2>1, <2>2, <2>3
  <1>5. /\ pc' \in [Calls -> PCs] /\ inbox' \in [Calls -> Seq(Operations)]
        /\ \A d \in Calls \ {c} : pc'[d] = pc[d] /\ inbox'[d] = inbox[d]
        /\ Mailbox(c)'
        /\ \/ pc[c] = "consume" /\ pc'[c] = next /\ \A y \in Operations : Asked(c, y)' => next = y
           \/ /\ pc'[c] = pc[c] /\ \A y \in Operations : Asked(c, y)' => y = "cancel"
              /\ pc[c] \in {"failed", "cancel"}
    BY <1>1, <1>2, <1>4, Served DEF PCs, Operations, Prompts, Over
  <1>6. ToolTypeOK'
    BY <1>1, <1>2, <1>4, <1>5 DEF ToolTypeOK, PCs
  <1>7. /\ Fresh(c) \in {status[c], "expired", "native_fallback"}
        /\ Fresh(c) = status[c] \/ status[c] \in Open
        /\ Fresh(c) = "native_fallback" /\ status[c] # "native_fallback"
               => status[c] \in {"pending", "claimed"}
    BY <1>2, FreshStatus
  <1>8. ASSUME pc[c] = "consume", next # "cancel"
        PROVE  /\ Allowed(c) /\ status'[c] \notin Open /\ (c \in no => aborted[c])
    <2>1. Found(c) /\ written /\ Granted(c)
      BY <1>4, <1>8
    <2>2. Allowed(c)
      BY <1>2, <1>7, <2>1, MatchingAllows DEF Granted, Allowed
    <2>3. status[c] \notin {"pending", "claimed", "native_fallback"}
      BY <1>2, <1>8 DEF CallInv, OpenWhileAsked
    <2>4. status'[c] \notin Open
      <3>1. CASE Fresh(c) = "approved_once"
        <4>1. Put(c, "consumed", written)
          BY <2>1, <3>1 DEF ServeConsume, Consume
        <4>2. status'[c] = "consumed"
          BY <1>2, <2>1, <4>1, PutOne
        <4> QED BY <4>2 DEF Open
      <3>2. CASE Fresh(c) # "approved_once"
        <4>1. Fresh(c) # "consumed"
          BY <2>1, <3>2 DEF Granted
        <4>2. Put(c, Fresh(c), written)
          BY <2>1, <3>2, <4>1 DEF ServeConsume, Consume, Answer
        <4>3. status'[c] = Fresh(c)
          BY <1>2, <2>1, <4>2, PutOne
        <4> QED BY <1>7, <2>3, <3>2, <4>3 DEF Open
      <3> QED BY <3>1, <3>2
    <2>5. status[c] \notin {"rejected", "removed"}
      BY <1>7, <2>1 DEF Granted, Found, Open
    <2> QED BY <1>2, <1>8, <2>2, <2>4, <2>5 DEF CallInv, NeverAfterNo
  <1>9. CallInv(c)'
    <2>1. CASE pc[c] = "consume" /\ pc'[c] = next /\ \A y \in Operations : Asked(c, y)' => next = y
      <3>1. /\ command[c] = "none" /\ status[c] \notin {"pending", "claimed", "native_fallback"}
        BY <1>2, <2>1 DEF CallInv, NotYet, OpenWhileAsked, Early
      <3>2. OpenWhileAsked(c)' /\ NotYet(c)'
        BY <1>1, <1>3, <1>4, <1>8, <2>1, <3>1 DEF OpenWhileAsked, NotYet, Settling, Open, Operations
      <3>3. Allowed(c) <=> Allowed(c)'
        BY <1>1 DEF Allowed
      <3>4. OnlyOnYes(c)' /\ NeverAfterNo(c)'
        BY <1>1, <1>2, <1>3, <1>4, <1>8, <2>1, <3>1, <3>3 DEF OnlyOnYes, NeverAfterNo, Late, Operations
      <3> QED BY <1>5, <3>2, <3>4 DEF CallInv
    <2>2. CASE pc'[c] = pc[c] /\ pc[c] \in {"failed", "cancel"}
               /\ \A y \in Operations : Asked(c, y)' => y = "cancel"
      BY <1>1, <1>2, <1>3, <1>4, <1>5, <2>2, LateAnswer
    <2> QED BY <1>5, <2>1, <2>2
  <1> QED BY <1>1, <1>3, <1>4, <1>5, <1>6, <1>9, OneCall DEF Settling

LEMMA ServeCancelStep ==
    ASSUME ToolInv, TypeOK, NEW c \in Calls, NEW written \in BOOLEAN, ServeCancel(c, written)
    PROVE  ToolInv'
  <1>1. Asked(c, "cancel") /\ "cancel" \in Operations /\ UNCHANGED <<aborted, command, yes, no>>
    BY DEF ServeCancel, Operations
  <1>2. /\ CallInv(c) /\ Mailbox(c) /\ ToolTypeOK /\ c \in Requests
        /\ status[c] = "approved_once" => <<c, "once">> \in yes
    BY CallsAssumption DEF ToolInv, CallInv, OnlyOnYes
  <1>3. Settling(c) /\ (status'[c] = "approved_once" => status[c] = "approved_once")
    <2>1. CASE Found(c)
      BY <2>1, CallSettles DEF ServeCancel
    <2>2. CASE ~Found(c)
      BY <2>2, SameSettles DEF ServeCancel, vars, ledger
    <2> QED BY <2>1, <2>2
  <1>4. /\ Reply(c, "failed") /\ broken \subseteq broken' /\ broken' \subseteq broken \cup {c}
        /\ c \notin broken' => Found(c) /\ written
    BY <1>1, FailingMoves DEF ServeCancel
  <1>5. c \notin broken' => status'[c] \notin Open
    <2>1. SUFFICES ASSUME Found(c), written PROVE status'[c] \notin Open
      BY <1>4
    <2>2. PICK s \in {Fresh(c), "cancelled"} : Put(c, s, written) /\ (Fresh(c) \in Open => s # Fresh(c))
      BY <2>1 DEF ServeCancel, Cancel, Answer, Open
    <2>3. status'[c] = s
      BY <1>2, <2>1, <2>2, PutOne
    <2> QED BY <2>2, <2>3 DEF Open
  <1>6. /\ pc' \in [Calls -> PCs] /\ inbox' \in [Calls -> Seq(Operations)]
        /\ \A d \in Calls \ {c} : pc'[d] = pc[d] /\ inbox'[d] = inbox[d]
        /\ Mailbox(c)' /\ pc'[c] = "failed" /\ pc[c] \in {"cancel", "failed"}
        /\ \A y \in Operations : Asked(c, y)' => y = "cancel"
    BY <1>1, <1>2, <1>4, Served DEF PCs, Operations, Over
  <1>7. ToolTypeOK'
    BY <1>1, <1>2, <1>4, <1>6 DEF ToolTypeOK, PCs
  <1>8. OpenWhileAsked(c)' /\ NotYet(c)'
    BY <1>1, <1>2, <1>3, <1>5, <1>6 DEF CallInv, OpenWhileAsked, NotYet, Settling, Operations, Early
  <1>9. Allowed(c) <=> Allowed(c)'
    BY <1>1 DEF Allowed
  <1>10. OnlyOnYes(c)' /\ NeverAfterNo(c)'
    BY <1>1, <1>2, <1>3, <1>6, <1>9 DEF CallInv, OnlyOnYes, NeverAfterNo, Operations, Late
  <1> QED BY <1>1, <1>3, <1>4, <1>6, <1>7, <1>8, <1>10, OneCall DEF CallInv, Settling

LEMMA ServeStartStep ==
    ASSUME ToolInv, NEW c \in Calls, NEW spawned \in BOOLEAN, ServeStart(c, spawned)
    PROVE  ToolInv'
  <1>1. /\ Asked(c, "start") /\ "start" \in Operations
        /\ UNCHANGED <<status, grants, aborted, yes, no>>
    BY DEF ServeStart, Operations, vars, ledger
  <1>2. /\ CallInv(c) /\ Mailbox(c) /\ ToolTypeOK /\ Allowed(c) /\ c \notin no
        /\ status[c] \notin {"pending", "claimed"}
        /\ status[c] = "approved_once" => <<c, "once">> \in yes
    BY <1>1 DEF ToolInv, CallInv, OnlyOnYes, NeverAfterNo, OpenWhileAsked
  <1>3. PICK next \in {"stop", "run", "failed"} :
            /\ Reply(c, next) /\ broken' = broken
            /\ next = "failed" => command' = command
            /\ next # "failed" => command' = [command EXCEPT ![c] = "running"]
            /\ next = "stop" => aborted[c]
    BY <1>1, FailingMoves DEF ServeStart
  <1>4. /\ pc' \in [Calls -> PCs] /\ inbox' \in [Calls -> Seq(Operations)]
        /\ \A d \in Calls \ {c} : pc'[d] = pc[d] /\ inbox'[d] = inbox[d]
        /\ Mailbox(c)'
        /\ \/ pc[c] = "start" /\ pc'[c] = next /\ \A y \in Operations : Asked(c, y)' => next = y
           \/ /\ pc'[c] = pc[c] /\ \A y \in Operations : Asked(c, y)' => y = "cancel"
              /\ pc[c] = "failed"
    BY <1>1, <1>2, <1>3, Served DEF PCs, Operations, Over
  <1>5. /\ command' \in [Calls -> {"none", "running", "ended"}]
        /\ \A d \in Calls \ {c} : command'[d] = command[d]
        /\ command'[c] = IF next = "failed" THEN command[c] ELSE "running"
    BY <1>2, <1>3 DEF ToolTypeOK
  <1>6. ToolTypeOK'
    BY <1>1, <1>2, <1>3, <1>4, <1>5 DEF ToolTypeOK, PCs
  <1>7. pc[c] = "start" => status[c] \notin Open
    BY <1>2 DEF CallInv, OpenWhileAsked
  <1>8. OpenWhileAsked(c)' /\ NotYet(c)'
    <2>1. pc[c] = "failed" /\ c \notin broken => status[c] \notin Open
      BY <1>2 DEF CallInv, OpenWhileAsked
    <2> QED BY <1>1, <1>2, <1>3, <1>4, <1>5, <1>7, <2>1
            DEF OpenWhileAsked, NotYet, Open, Operations, Early
  <1>9. OnlyOnYes(c)' /\ NeverAfterNo(c)'
    <2>1. Allowed(c)'
      BY <1>1, <1>2 DEF Allowed
    <2> QED BY <1>1, <1>2, <1>3, <1>4, <2>1 DEF OnlyOnYes, NeverAfterNo, Operations
  <1> QED BY <1>1, <1>3, <1>4, <1>5, <1>6, <1>8, <1>9, OneCall DEF CallInv

LEMMA ServeStopStep ==
    ASSUME ToolInv, NEW c \in Calls, NEW confirmed \in BOOLEAN, ServeStop(c, confirmed)
    PROVE  ToolInv'
  <1>1. /\ Asked(c, "stop") /\ "stop" \in Operations /\ Reply(c, "failed")
        /\ command' = IF confirmed THEN [command EXCEPT ![c] = "ended"] ELSE command
        /\ UNCHANGED <<status, grants, aborted, yes, no, broken>>
    BY DEF ServeStop, Operations, vars, ledger
  <1>2. /\ CallInv(c) /\ Mailbox(c) /\ ToolTypeOK /\ command[c] # "none"
        /\ Allowed(c) /\ c \notin no /\ status[c] \notin {"pending", "claimed"}
        /\ status[c] = "approved_once" => <<c, "once">> \in yes
    BY <1>1 DEF ToolInv, CallInv, OnlyOnYes, NeverAfterNo, OpenWhileAsked, NotYet
  <1>3. /\ pc' \in [Calls -> PCs] /\ inbox' \in [Calls -> Seq(Operations)]
        /\ \A d \in Calls \ {c} : pc'[d] = pc[d] /\ inbox'[d] = inbox[d]
        /\ Mailbox(c)' /\ pc'[c] = "failed" /\ pc[c] \in {"stop", "failed"}
        /\ \A y \in Operations : Asked(c, y)' => y = "cancel"
    BY <1>1, <1>2, Served DEF PCs, Operations, Over
  <1>4. /\ command' \in [Calls -> {"none", "running", "ended"}]
        /\ \A d \in Calls \ {c} : command'[d] = command[d]
    BY <1>1, <1>2 DEF ToolTypeOK
  <1>5. ToolTypeOK'
    BY <1>1, <1>2, <1>3, <1>4 DEF ToolTypeOK, PCs
  <1>6. OpenWhileAsked(c)' /\ NotYet(c)'
    <2>1. c \notin broken => status[c] \notin Open
      BY <1>2, <1>3 DEF CallInv, OpenWhileAsked
    <2> QED BY <1>1, <1>2, <1>3, <2>1 DEF OpenWhileAsked, NotYet, Open, Operations, Early
  <1>7. OnlyOnYes(c)' /\ NeverAfterNo(c)'
    <2>1. Allowed(c)'
      BY <1>1, <1>2 DEF Allowed
    <2> QED BY <1>1, <1>2, <1>3, <2>1 DEF OnlyOnYes, NeverAfterNo, Operations
  <1> QED BY <1>1, <1>3, <1>4, <1>5, <1>6, <1>7, OneCall DEF CallInv

\* The daemon dies with all that it was asked.
LEMMA DaemonRestartsStep ==
    ASSUME ToolInv, DaemonRestarts
    PROVE  ToolInv'
  <1> DEFINE cut == {c \in Calls : pc[c] \in Operations \cup {"wait", "run"}}
             next(c) == IF c \in cut THEN AfterFailure(pc[c]) ELSE pc[c]
  <1>1. /\ UNCHANGED <<status, grants, aborted, command, yes, no>>
        /\ pc' = [c \in Calls |-> next(c)]
        /\ inbox' = [c \in Calls |-> IF c \in cut THEN Queue(<<>>, next(c)) ELSE <<>>]
        /\ broken' = broken \cup {c \in cut : pc[c] \in {"prepare", "cancel"}}
    BY DEF DaemonRestarts, Restart, ledger
  <1>2. ToolTypeOK /\ \A c \in Calls : CallInv(c) /\ pc[c] \in PCs
    BY DEF ToolInv, ToolTypeOK, PCs
  <1>3. ASSUME NEW c \in Calls
        PROVE  /\ c \notin cut => pc'[c] = pc[c] /\ pc[c] \in {"idle", "ask", "external", "done", "failed"}
               /\ c \in cut => pc'[c] = IF pc[c] \in {"wait", "native", "consume"} THEN "cancel"
                                        ELSE "failed"
               /\ c \in cut => pc[c] \in {"prepare", "native", "consume", "cancel", "start", "stop",
                                          "wait", "run"}
               /\ inbox'[c] = IF pc'[c] = "cancel" THEN <<"cancel">> ELSE <<>>
               /\ pc'[c] \in PCs
    <2>1. CASE c \notin cut
      BY <1>1, <1>2, <2>1 DEF PCs, Operations, Prompts, Over
    <2>2. CASE c \in cut
      <3>1. pc'[c] = AfterFailure(pc[c]) /\ inbox'[c] = Queue(<<>>, AfterFailure(pc[c]))
        BY <1>1, <2>2
      <3>2. AfterFailure(pc[c]) = IF pc[c] \in {"wait", "native", "consume"} THEN "cancel" ELSE "failed"
        BY DEF AfterFailure
      <3>3. /\ "cancel" \in Operations /\ "failed" \in PCs \ Operations /\ "cancel" \in PCs
            /\ pc[c] \in {"prepare", "native", "consume", "cancel", "start", "stop", "wait", "run"}
        BY <2>2 DEF PCs, Operations, Over
      <3> QED BY <2>2, <3>1, <3>2, <3>3, QueueEmpty
    <2> QED BY <2>1, <2>2
  <1>4. ToolTypeOK'
    <2>1. pc' \in [Calls -> PCs]
      BY <1>1, <1>3
    <2>2. <<>> \in Seq(Operations) /\ <<"cancel">> \in Seq(Operations)
      BY DEF Operations
    <2>3. inbox' \in [Calls -> Seq(Operations)]
      <3> DEFINE q(c) == IF c \in cut THEN Queue(<<>>, next(c)) ELSE <<>>
      <3>1. \A c \in Calls : q(c) \in Seq(Operations)
        BY <1>1, <1>3, <2>2
      <3> HIDE DEF q, next, cut
      <3>2. inbox' = [c \in Calls |-> q(c)]
        BY <1>1 DEF q
      <3> QED BY <3>1, <3>2
    <2>4. broken' \subseteq Calls
      BY <1>1, <1>2 DEF ToolTypeOK
    <2> HIDE DEF next, cut
    <2> QED BY <1>1, <1>2, <2>1, <2>3, <2>4 DEF ToolTypeOK, PCs
  <1>5. ASSUME NEW c \in Calls PROVE CallInv(c)'
    <2>1. CallInv(c) /\ (c \in cut /\ pc[c] \in {"prepare", "cancel"} => c \in broken')
          /\ (c \in broken => c \in broken')
      BY <1>1, <1>2
    <2>2. /\ c \notin cut => pc'[c] = pc[c] /\ pc[c] \in {"idle", "ask", "external", "done", "failed"}
          /\ c \in cut => pc'[c] = IF pc[c] \in {"wait", "native", "consume"} THEN "cancel" ELSE "failed"
          /\ c \in cut => pc[c] \in {"prepare", "native", "consume", "cancel", "start", "stop",
                                     "wait", "run"}
          /\ inbox'[c] = IF pc'[c] = "cancel" THEN <<"cancel">> ELSE <<>>
      BY <1>3
    <2> HIDE DEF cut, next
    <2>3. Mailbox(c)'
      BY <2>2 DEF Mailbox
    <2>4. \A x \in Operations : Asked(c, x)' => x = "cancel"
      BY <2>2, AsksNext DEF Operations
    <2>5. UNCHANGED <<status, aborted, command, yes, no>> /\ (Allowed(c) <=> Allowed(c)')
      BY <1>1 DEF Allowed
    <2>6. OpenWhileAsked(c)'
      BY <2>1, <2>2, <2>4, <2>5 DEF CallInv, OpenWhileAsked, Operations, Open
    <2>7. NotYet(c)'
      BY <2>1, <2>2, <2>4, <2>5 DEF CallInv, NotYet, Operations, Early
    <2>8. OnlyOnYes(c)'
      BY <2>1, <2>2, <2>4, <2>5 DEF CallInv, OnlyOnYes, Operations, Late
    <2>9. NeverAfterNo(c)'
      BY <2>1, <2>2, <2>4, <2>5 DEF CallInv, NeverAfterNo, Operations
    <2> QED BY <2>3, <2>6, <2>7, <2>8, <2>9 DEF CallInv
  <1> HIDE DEF cut, next
  <1> QED BY <1>1, <1>4, <1>5 DEF ToolInv

-----------------------------------------------------------------------------
(* Everybody else *)

\* What the companion, other requests and the end of a conversation do to the
\* request of a tool call.
Moved(c) ==
    \/ status'[c] \in {status[c], "removed"}
    \/ status[c] \in Open /\ status'[c] = "expired"
    \/ status[c] \in {"pending", "claimed"} /\ status'[c] \in {"native_fallback", "claimed"}
    \/ status[c] = "claimed" /\ status'[c] \in {"approved_once", "approved_session", "rejected"}

\* A new grant is one that was decided now.
GrantsDecided ==
    \A g \in grants' : g \in grants \/ (g \in Requests /\ Approved(g))

\* A refresh moves a request as the clock says.
LEMMA FreshMoves ==
    ASSUME TypeOK, NEW r \in Requests
    PROVE  /\ Fresh(r) = "claimed" => status[r] = "claimed"
           /\ Fresh(r) = "pending" => status[r] = "pending"
           /\ status'[r] \in {status[r], Fresh(r)} => Moved(r)
  <1>1. /\ Fresh(r) \in {status[r], "expired", "native_fallback"}
        /\ Fresh(r) = status[r] \/ status[r] \in Open
        /\ Fresh(r) = "native_fallback" /\ status[r] # "native_fallback"
               => status[r] \in {"pending", "claimed"}
    BY FreshStatus
  <1> QED BY <1>1 DEF Moved, Open

\* One request is decided, refreshed or claimed.
LEMMA DecideMoves ==
    ASSUME TypeOK, NEW r \in Requests, NEW written \in BOOLEAN,
           Claim(r, written) \/ \E decision \in Decisions : Decide(r, decision, written)
    PROVE  /\ \A q \in Requests : Moved(q)
           /\ GrantsDecided
  <1>1. CASE Claim(r, written)
    <2>1. PICK s \in {Fresh(r), "claimed"} :
              /\ Put(r, s, written) /\ grants' = grants
              /\ s # Fresh(r) => Fresh(r) = "pending"
      BY <1>1 DEF Claim, Answer
    <2>2. /\ status'[r] = IF written THEN s ELSE status[r]
          /\ \A d \in Requests \ {r} : status'[d] = status[d]
      BY <2>1, PutOne
    <2>3. Moved(r)
      BY <2>1, <2>2, FreshMoves DEF Moved
    <2> QED BY <2>1, <2>2, <2>3 DEF Moved, GrantsDecided
  <1>2. ASSUME NEW decision \in Decisions, Decide(r, decision, written)
        PROVE  (\A q \in Requests : Moved(q)) /\ GrantsDecided
    <2>1. CASE r \notin Kept(r)
      BY <1>2, <2>1 DEF Decide, Throw, ledger, Moved, GrantsDecided
    <2>2. CASE r \in Kept(r) /\ Fresh(r) # "claimed"
      <3>1. Put(r, Fresh(r), written) /\ grants' = grants
        BY <1>2, <2>2 DEF Decide
      <3>2. /\ status'[r] = IF written THEN Fresh(r) ELSE status[r]
            /\ \A d \in Requests \ {r} : status'[d] = status[d]
        BY <3>1, PutOne
      <3>3. Moved(r)
        BY <3>2, FreshMoves
      <3> QED BY <3>1, <3>2, <3>3 DEF Moved, GrantsDecided
    <2>3. CASE r \in Kept(r) /\ Fresh(r) = "claimed"
      <3>1. /\ Put(r, Decided(decision), written) /\ status[r] = "claimed"
            /\ grants' = IF written /\ decision = "approve_session" THEN grants \cup {r} ELSE grants
        BY <1>2, <2>3, FreshMoves DEF Decide
      <3>2. /\ status'[r] = IF written THEN Decided(decision) ELSE status[r]
            /\ \A d \in Requests \ {r} : status'[d] = status[d]
        BY <3>1, PutOne
      <3>3. /\ Decided(decision) \in {"approved_once", "approved_session", "rejected"}
            /\ decision = "approve_session" => Decided(decision) = "approved_session"
        BY DEF Decided, Decisions
      <3>4. Moved(r)
        BY <3>1, <3>2, <3>3 DEF Moved
      <3>5. GrantsDecided
        BY <3>1, <3>2, <3>3 DEF GrantsDecided, Approved
      <3> QED BY <3>2, <3>4, <3>5 DEF Moved
    <2> QED BY <2>1, <2>2, <2>3
  <1> QED BY <1>1, <1>2

LEMMA OthersMove ==
    ASSUME TypeOK, Others
    PROVE  (\A c \in Calls : Moved(c)) /\ GrantsDecided
  <1>1. ASSUME NEW r \in Requests \ Calls, NEW written \in BOOLEAN, RequestCall(r, written)
        PROVE  (\A c \in Calls : Moved(c)) /\ GrantsDecided
    <2>1. CASE Claim(r, written) \/ \E decision \in Decisions : Decide(r, decision, written)
      BY <2>1, DecideMoves, CallsAssumption
    <2>2. CASE \E eligible, prepare \in BOOLEAN : Create(r, eligible, prepare, written)
      BY <2>2, CallsAssumption DEF Create, TypeOK, Moved, GrantsDecided
    <2>3. CASE RevokeGrant(r, written)
      BY <2>3 DEF RevokeGrant, Moved, GrantsDecided
    <2>4. CASE \/ \E q \in Requests : Consume(r, DigestOf[q], written)
               \/ NativeApprove(r, written) \/ Cancel(r, written) \/ Poll(r, written)
      <3>1. grants' = grants /\ (status' = status \/ \E s : Put(r, s, written))
        BY <2>4 DEF Consume, NativeApprove, Cancel, Poll, Answer, Throw, ledger
      <3>2. \A c \in Calls : status'[c] = status[c]
        BY <3>1, PutOne, CallsAssumption
      <3> QED BY <3>1, <3>2 DEF Moved, GrantsDecided
    <2> QED BY <1>1, <2>1, <2>2, <2>3, <2>4 DEF RequestCall
  <1>2. ASSUME NEW c \in Calls, NEW written \in BOOLEAN, Companion(c, written)
        PROVE  (\A d \in Calls : Moved(d)) /\ GrantsDecided
    <2>1. CASE Claim(c, written) \/ \E decision \in Decisions : Decide(c, decision, written)
      BY <2>1, DecideMoves, CallsAssumption
    <2>2. CASE RevokeGrant(c, written) \/ Prune(written)
      BY <2>2 DEF RevokeGrant, Prune, Moved, GrantsDecided
    <2>3. CASE ListRequests(written)
      <3>1. \A d \in Calls : status'[d] \in {status[d], Fresh(d)}
        BY <2>3, CallsAssumption DEF ListRequests
      <3>2. grants' = grants
        BY <2>3 DEF ListRequests
      <3> QED BY <3>1, <3>2, FreshMoves, CallsAssumption DEF GrantsDecided
    <2> QED BY <1>2, <2>1, <2>2, <2>3 DEF Companion
  <1>3. ASSUME NEW o \in Owners, NEW written \in BOOLEAN, CleanupConversation(o, written)
        PROVE  (\A c \in Calls : Moved(c)) /\ GrantsDecided
    BY <1>3, CallsAssumption DEF CleanupConversation, Moved, GrantsDecided
  <1> QED BY <1>1, <1>2, <1>3 DEF Others

LEMMA OthersStep ==
    ASSUME ToolInv, TypeOK, Others
    PROVE  ToolInv'
  <1>1. /\ UNCHANGED <<pc, aborted, inbox, command, broken>>
        /\ yes' = yes \cup {<<c, "once">> : c \in {q \in Calls : Approved(q)}}
                      \cup {<<r, "session">> : r \in {q \in Requests : Approved(q) /\ q \in grants'}}
        /\ no' = no \cup {c \in Calls : status[c] = "claimed" /\ status'[c] = "rejected"}
    BY DEF Others
  <1>2. (\A c \in Calls : Moved(c)) /\ GrantsDecided
    BY OthersMove
  <1>3. ToolTypeOK'
    BY <1>1, CallsAssumption DEF ToolInv, ToolTypeOK
  <1>4. \A g \in grants' : <<g, "session">> \in yes'
    BY <1>1, <1>2 DEF ToolInv, GrantsDecided
  <1>5. ASSUME NEW c \in Calls PROVE CallInv(c)'
    <2>1. CallInv(c) /\ Moved(c) /\ yes \subseteq yes'
      BY <1>1, <1>2 DEF ToolInv
    <2>2. /\ status'[c] = "approved_once" /\ status[c] # "approved_once" => <<c, "once">> \in yes'
          /\ c \in no' => c \in no \/ (status[c] = "claimed" /\ status'[c] = "rejected")
      BY <1>1 DEF Approved
    <2>3. (\A x : Asked(c, x)' <=> Asked(c, x)) /\ Mailbox(c)' /\ (Allowed(c) => Allowed(c)')
      BY <1>1, <2>1 DEF CallInv, Mailbox, Asked, Allowed
    <2>4. OpenWhileAsked(c)'
      BY <1>1, <2>1, <2>3 DEF CallInv, OpenWhileAsked, Moved, Open
    <2>5. NotYet(c)'
      BY <1>1, <2>1, <2>3 DEF CallInv, NotYet
    <2>6. OnlyOnYes(c)'
      BY <1>1, <2>1, <2>2, <2>3 DEF CallInv, OnlyOnYes
    <2>7. NeverAfterNo(c)'
      BY <1>1, <2>1, <2>2, <2>3 DEF CallInv, NeverAfterNo, OpenWhileAsked, Moved, Open
    <2> QED BY <2>3, <2>4, <2>5, <2>6, <2>7 DEF CallInv
  <1> QED BY <1>3, <1>4, <1>5 DEF ToolInv

\* Deadlines, expiring grants and stutters leave all of it alone.
LEMMA QuietStep ==
    ASSUME ToolInv, UNCHANGED toolVars, UNCHANGED <<status, grants>>
    PROVE  ToolInv'
  BY DEF ToolInv, toolVars, ToolTypeOK, CallInv, Mailbox, OpenWhileAsked, NotYet, OnlyOnYes,
     NeverAfterNo, Allowed, Asked

-----------------------------------------------------------------------------
(* The theorems *)

LEMMA InitToolInv == ToolInit => ToolInv
  <1> SUFFICES ASSUME ToolInit PROVE ToolInv
    OBVIOUS
  <1>1. ToolTypeOK /\ grants = {}
    BY DEF ToolInit, Init, ToolTypeOK
  <1>2. ASSUME NEW c \in Calls PROVE CallInv(c)
    <2>1. /\ pc[c] = "idle" /\ inbox[c] = <<>> /\ status[c] = "absent" /\ command[c] = "none"
          /\ c \notin no
      BY CallsAssumption DEF ToolInit, Init
    <2>2. \A x \in Operations : ~Asked(c, x)
      BY <2>1 DEF Asked
    <2>3. Mailbox(c)
      BY <2>1 DEF Mailbox
    <2>4. OpenWhileAsked(c) /\ NotYet(c) /\ OnlyOnYes(c) /\ NeverAfterNo(c)
      BY <2>1, <2>2 DEF OpenWhileAsked, NotYet, OnlyOnYes, NeverAfterNo, Open, Late, Operations
    <2> QED BY <2>3, <2>4 DEF CallInv
  <1> QED BY <1>1, <1>2 DEF ToolInv

LEMMA NextToolInv == TypeOK /\ ToolInv /\ [ToolNext]_allVars => ToolInv'
  <1> SUFFICES ASSUME TypeOK, ToolInv, [ToolNext]_allVars PROVE ToolInv'
    OBVIOUS
  <1>1. ASSUME NEW c \in Calls,
               \/ Begin(c) \/ \E allowed \in BOOLEAN : Answered(c, allowed)
               \/ Abort(c) \/ GivesUp(c) \/ RunEnds(c) \/ CommandEnds(c)
        PROVE  ToolInv'
    BY <1>1, BeginStep, AnsweredStep, AbortStep, GivesUpStep, RunEndsStep, CommandEndsStep
  <1>2. ASSUME NEW c \in Calls, NEW good \in BOOLEAN, Serve(c, good) \/ ServeWait(c, good)
        PROVE  ToolInv'
    BY <1>2, ServePrepareStep, ServeNativeStep, ServeConsumeStep, ServeCancelStep, ServeStartStep,
       ServeStopStep, ServeWaitStep DEF Serve
  <1>3. CASE DaemonRestarts
    BY <1>3, DaemonRestartsStep
  <1>4. CASE Others
    BY <1>4, OthersStep
  <1>5. CASE \E r \in Requests : GrantEnds(r) \/ \E d \in Deadlines : TimePasses(r, d)
    BY <1>5, QuietStep DEF GrantEnds, GrantExpires, TimePasses, DeadlinePasses, ledger
  <1>6. CASE UNCHANGED allVars
    BY <1>6, QuietStep DEF allVars, vars, ledger
  <1> QED BY <1>1, <1>2, <1>3, <1>4, <1>5, <1>6 DEF ToolNext

\* The inductive invariant of the tool over the ledger, for any number of calls
\* and requests: what the tool waits for, what the daemon has still to carry
\* out and what approvals.json says fit together.
THEOREM ToolInductive == ToolSpec => []ToolInv
  <1>1. ToolSpec => []TypeOK
    BY ToolCallsTheLedger, LedgerInductive, PTL DEF IndInv
  <1> QED BY <1>1, InitToolInv, NextToolInv, PTL DEF ToolSpec

\* A command runs only if the policy allows it or a person approved it, this
\* request or the same command of the conversation (execute, approvalPrepare,
\* approvalConsume).
THEOREM CommandsRunOnYes == ToolSpec => []RunsOnlyOnYes
  <1>1. ToolInv => RunsOnlyOnYes
    BY DEF ToolInv, CallInv, OnlyOnYes, Allowed, RunsOnlyOnYes
  <1> QED BY <1>1, ToolInductive, PTL

\* A refused call, or one aborted before the start was asked for, never runs,
\* however late the daemon carries out what it was asked (execute).
THEOREM NoMeansNoHolds == ToolSpec => []NoMeansNo
  <1>1. ToolInv => NoMeansNo
    BY DEF ToolInv, ToolTypeOK, CallInv, NeverAfterNo, NoMeansNo
  <1> QED BY <1>1, ToolInductive, PTL

\* A call that is over leaves no request behind that the companion could still
\* decide, unless the request or its cancellation had a failed answer
\* (execute, cancelApproval).
THEOREM NothingLeftOpenHolds == ToolSpec => []NothingLeftOpen
  <1>1. ToolInv => NothingLeftOpen
    BY DEF ToolInv, CallInv, OpenWhileAsked, NothingLeftOpen, Over
  <1> QED BY <1>1, ToolInductive, PTL
=============================================================================
