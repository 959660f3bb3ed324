----------------------------- MODULE GrantProofs -----------------------------
(***************************************************************************)
(* What Grant promises for any number of requests, grants and attempts.    *)
(***************************************************************************)
EXTENDS Grant, TLAPS

USE DEF NoGrant

\* A request that moves on with a grant that was issued stays well typed.
LEMMA GotoTyped ==
  ASSUME RequestsOK, issued \in Nat, issued' \in Nat, issued <= issued', NEW r \in Requests,
         NEW phase \in Phases, NEW g \in 0 .. issued', NEW attempt \in 0 .. RefreshAttempts,
         NEW count \in Nat, phase \in Ended <=> g = NoGrant,
         phase = "polling" => count <= RotationPolls /\ attempt < RefreshAttempts,
         phase = "storing" => count <= StoreAttempts, Goto(r, phase, g, attempt, count)
  PROVE  RequestsOK'
<1> USE DEF Goto, RequestsOK
<1>1. req' \in [Requests -> [at : Phases, grant : 0 .. issued', attempt : 0 .. RefreshAttempts, count : Nat]]
  <2>1. \A s \in Requests : req[s] \in [at : Phases, grant : 0 .. issued', attempt : 0 .. RefreshAttempts, count : Nat]
    OBVIOUS
  <2> QED
    BY <2>1
<1>2. \A s \in Requests : req'[s] = IF s = r THEN [at |-> phase, grant |-> g, attempt |-> attempt, count |-> count]
                                    ELSE req[s]
  OBVIOUS
<1> QED
  BY <1>1, <1>2

\* A request that answers stays well typed.
LEMMA ReturnTyped ==
  ASSUME RequestsOK, issued \in Nat, issued' = issued, NEW r \in Requests,
         NEW answer \in Ended, Return(r, answer)
  PROVE  RequestsOK'
<1>1. answer \in Phases /\ answer # "polling" /\ answer # "storing" /\ 0 \in 0 .. RefreshAttempts
  BY GrantAssumption DEF Phases, Ended
<1> QED
  BY <1>1, GotoTyped DEF Return
\* Discord's answer to a refresh keeps its own state well typed.
LEMMA RotateTyped ==
  ASSUME TypeOK, NEW g \in Grants, Rotate(g)
  PROVE  /\ issued \in Nat /\ issued' = issued + 1 /\ issued' \in Grants
         /\ live' \subseteq 1 .. issued' /\ withdrawn' \subseteq 1 .. issued'
         /\ due' \subseteq 1 .. issued' /\ lost \subseteq 1 .. issued'
         /\ row \in 0 .. issued' /\ parent' \in [Grants -> 0 .. MaxGrants]
<1> USE GrantAssumption DEF TypeOK, Grants, Rotate
<1>1. issued \in Nat /\ issued' = issued + 1 /\ issued' \in Grants
  OBVIOUS
<1>2. 1 .. issued \subseteq 1 .. issued' /\ issued' \in 1 .. issued' /\ 0 .. issued \subseteq 0 .. issued'
  BY <1>1
<1>3. parent' \in [Grants -> 0 .. MaxGrants]
  OBVIOUS
<1> QED
  BY <1>1, <1>2, <1>3

\* Whatever Discord answers to the use of a token, a request ends; and it says
\* revoked only when Discord may have answered 401.
LEMMA VerdictsEnd ==
  ASSUME NEW statuses \in SUBSET Statuses, NEW answer \in Verdicts(statuses)
  PROVE  answer \in Ended /\ (answer = "revoked" => 401 \in statuses)
<1>1. PICK a \in Answers : /\ a.status \in statuses
                           /\ answer = resolveUser(Me(a)) \/ answer = writeMember(GuildMember(a))
  BY DEF Verdicts
<1>2. a.status \in Statuses /\ a.body \in {"whole", "partial", "garbage", "cut"}
  BY <1>1 DEF Answers
<1> DEFINE Honest(e) == e.ok \/ "APIError" \notin e.types \/ e.status = a.status
<1>3. ASSUME NEW complete \in BOOLEAN
      PROVE  Honest(ReadAnswer(a, parseAPIError(a), complete))
  <2>1. Honest(OtherError) /\ Honest(Value)
    BY DEF OtherError, Value, Failure
  <2>2. Honest(parseAPIError(a)) /\ Honest(parseRateLimitError(parseAPIError(a)))
    BY DEF parseAPIError, parseRateLimitError, Failure
  <2> HIDE DEF Honest
  <2> QED
    BY <1>2, <2>1, <2>2 DEF ReadAnswer, Statuses
<1>4. Honest(Me(a)) /\ Honest(GuildMember(a))
  BY <1>3 DEF Me, GuildMember
<1>5. ASSUME NEW e, Honest(e)
      PROVE  /\ resolveUser(e) \in Ended /\ writeMember(e) \in Ended
             /\ resolveUser(e) = "revoked" \/ writeMember(e) = "revoked" => a.status = 401
  BY <1>5 DEF resolveUser, writeMember, Ended
<1> HIDE DEF Honest
<1> QED
  BY <1>1, <1>4, <1>5

\* The same for the token of a grant.
LEMMA TokenEnds ==
  ASSUME NEW r \in Requests, UseToken(r)
  PROVE  \E answer \in Ended : Return(r, answer)
BY VerdictsEnd DEF UseToken, VerdictsOnLive, VerdictsOnReplaced, VerdictsOnWithdrawn

\* Discord accepts no grant that its owner has withdrawn, so a token it answers
\* 401 to belongs to a grant it does not accept.
LEMMA TokenVerdict ==
  ASSUME NEW r \in Requests, UseToken(r), live \cap withdrawn = {}
  PROVE  \E answer \in Ended : Return(r, answer) /\ (answer = "revoked" => req[r].grant \notin live)
<1>1. CASE req[r].grant \in live
  <2>1. req[r].grant \notin withdrawn
    BY <1>1
  <2>2. PICK answer \in VerdictsOnLive : Return(r, answer)
    BY <1>1, <2>1 DEF UseToken
  <2>3. answer \in Ended /\ answer # "revoked"
    BY VerdictsEnd DEF VerdictsOnLive
  <2> QED
    BY <2>2, <2>3
<1>2. CASE req[r].grant \notin live
  BY <1>2, TokenEnds
<1> QED
  BY <1>1, <1>2

\* A refresh is refused only for a grant that Discord does not accept.
LEMMA RefusedOnlyDead ==
  ASSUME NEW g, RefusalsOf(g) # {}
  PROVE  g \notin live
<1> SUFFICES ASSUME NEW a \in Answers, a.code # "invalid_grant", refreshRefused(requestToken(a))
             PROVE  FALSE
  BY DEF RefusalsOf, RefusalsOfLive, Refused, TroubleWithLive, Trouble
<1>1. requestToken(a).code \in {"", a.code}
  <2>1. a.status \in Statuses /\ a.body \in {"whole", "partial", "garbage", "cut"}
    BY DEF Answers
  <2> DEFINE Honest(e) == e.code \in {"", a.code}
  <2>2. Honest(OtherError) /\ Honest(Value)
    BY DEF OtherError, Value, Failure
  <2>3. Honest(parseOAuthError(a)) /\ Honest(parseRateLimitError(parseOAuthError(a)))
    BY DEF parseOAuthError, parseRateLimitError, ParsedCode, Failure
  <2> HIDE DEF Honest
  <2>4. Honest(requestToken(a))
    BY <2>1, <2>2, <2>3 DEF requestToken, ReadAnswer, Statuses
  <2> QED
    BY <2>4 DEF Honest
<1> QED
  BY <1>1 DEF refreshRefused

\* Type correctness of every handler that uses the grant; in particular no
\* request refreshes, polls or stores more often than the code allows.
THEOREM TypeCorrect == Spec => []TypeOK
<1> USE GrantAssumption
<1>1. Init => TypeOK
  BY DEF Init, TypeOK, RequestsOK, Grants, Phases, Ended
<1>2. TypeOK /\ [Next]_vars => TypeOK'
  <2> SUFFICES ASSUME TypeOK, [Next]_vars PROVE TypeOK'
    OBVIOUS
  <2>0. /\ issued \in Nat /\ RequestsOK /\ row \in 0 .. issued
        /\ \A r \in Requests : req[r].grant \in 0 .. issued
    BY DEF TypeOK, RequestsOK, Grants
  \* A step that leaves Discord alone: the row and the requests remain to show.
  <2>1. ASSUME UNCHANGED discord, row' \in 0 .. issued, RequestsOK', lost' \subseteq 1 .. issued
        PROVE  TypeOK'
    BY <2>1 DEF TypeOK, discord
  <2>2. ASSUME NEW r \in Requests, NEW g \in 1 .. issued, NEW n \in 1 .. RefreshAttempts,
               UNCHANGED issued, UseOrRefresh(r, g, n)
        PROVE  RequestsOK'
    BY <2>2, <2>0, GotoTyped DEF UseOrRefresh, Phases, Ended
  <2>3. ASSUME NEW r \in Requests, Begin(r) PROVE TypeOK'
    <3>1. RequestsOK'
      BY <2>3, <2>0, <2>2, ReturnTyped DEF Begin, discord, Ended
    <3> QED
      BY <2>3, <2>0, <2>1, <3>1 DEF Begin, TypeOK
  <2>4. ASSUME NEW r \in Requests, RefreshRotates(r) PROVE TypeOK'
    <3>1. req[r].grant \in Grants /\ Rotate(req[r].grant)
      BY <2>4, <2>0 DEF RefreshRotates, TypeOK, RequestsOK, Ended, Grants
    <3>2. RequestsOK'
      BY <2>4, <2>0, <3>1, RotateTyped, GotoTyped DEF RefreshRotates, Phases, Ended
    <3> QED
      BY <2>4, <3>1, <3>2, RotateTyped DEF RefreshRotates, TypeOK
  <2>5. ASSUME NEW r \in Requests, RefreshAnswerLost(r) PROVE TypeOK'
    <3>1. req[r].grant \in Grants /\ Rotate(req[r].grant)
      BY <2>5, <2>0 DEF RefreshAnswerLost, TypeOK, RequestsOK, Ended, Grants
    <3>2. RequestsOK'
      BY <2>5, <2>0, <3>1, RotateTyped, GotoTyped DEF RefreshAnswerLost, Return, Phases, Ended
    <3>3. lost' \subseteq 1 .. issued'
      BY <2>5, <3>1, RotateTyped DEF RefreshAnswerLost
    <3> QED
      BY <2>5, <3>1, <3>2, <3>3, RotateTyped DEF RefreshAnswerLost, TypeOK
  <2>6. ASSUME NEW r \in Requests, RefreshErrors(r) PROVE TypeOK'
    <3>1. RequestsOK'
      BY <2>6, <2>0, ReturnTyped DEF RefreshErrors, discord, Ended
    <3> QED
      BY <2>6, <2>0, <2>1, <3>1 DEF RefreshErrors, TypeOK
  <2>7. ASSUME NEW r \in Requests, RefreshRefused(r) PROVE TypeOK'
    <3>1. CASE req[r].attempt >= RefreshAttempts
      <4>1. RequestsOK'
        BY <2>7, <3>1, <2>0, ReturnTyped DEF RefreshRefused, discord, Ended
      <4> QED
        BY <2>7, <2>0, <2>1, <4>1 DEF RefreshRefused, TypeOK
    <3>2. CASE ~(req[r].attempt >= RefreshAttempts)
      <4>1. req[r].attempt \in 0 .. RefreshAttempts /\ req[r].attempt < RefreshAttempts /\ req[r].grant # NoGrant
        BY <2>7, <3>2 DEF RefreshRefused, TypeOK, RequestsOK, Ended
      <4>2. RequestsOK'
        BY <2>7, <3>2, <4>1, <2>0, GotoTyped DEF RefreshRefused, discord, Ended, Phases
      <4> QED
        BY <2>7, <2>0, <2>1, <4>2 DEF RefreshRefused, TypeOK
    <3> QED
      BY <3>1, <3>2
  <2>8. ASSUME NEW r \in Requests, Poll(r) PROVE TypeOK'
    <3>1. /\ req[r].attempt \in 0 .. RefreshAttempts /\ req[r].attempt < RefreshAttempts
          /\ req[r].grant # NoGrant /\ req[r].count \in Nat
      BY <2>8 DEF Poll, TypeOK, RequestsOK, Ended
    <3>2. ASSUME row = NoGrant /\ Return(r, "revoked")
       PROVE  RequestsOK'
      BY <2>8, <3>2, <2>0, ReturnTyped DEF Poll, discord, Ended
    <3>3. ASSUME row \notin {NoGrant, req[r].grant} /\ UseOrRefresh(r, row, req[r].attempt + 1)
       PROVE  RequestsOK'
      BY <2>8, <3>1, <3>3, <2>0, <2>2 DEF Poll, discord
    <3>4. ASSUME row = req[r].grant /\ req[r].count < RotationPolls
               /\ Goto(r, "polling", row, req[r].attempt, req[r].count + 1)
       PROVE  RequestsOK'
      BY <2>8, <3>1, <3>4, <2>0, GotoTyped DEF Poll, discord, Ended, Phases
    <3>5. ASSUME row = req[r].grant /\ Return(r, "revoked")
       PROVE  RequestsOK'
      BY <2>8, <3>5, <2>0, ReturnTyped DEF Poll, discord, Ended
    <3>6. RequestsOK'
      BY <2>8, <3>2, <3>3, <3>4, <3>5 DEF Poll
    <3> QED
      BY <2>8, <2>0, <2>1, <3>6 DEF Poll, TypeOK
  <2>9. ASSUME NEW r \in Requests, StoreGrant(r) \/ StoreFails(r) PROVE TypeOK'
    <3>1. req[r].grant \in 1 .. issued /\ req[r].count \in Nat /\ req[r].at = "storing"
      BY <2>9, <2>0 DEF StoreGrant, StoreFails, retry, TypeOK, RequestsOK, Ended
    <3>2. ASSUME Return(r, "error")
       PROVE  RequestsOK'
      BY <2>9, <3>2, <2>0, ReturnTyped DEF StoreGrant, StoreFails, retry, discord, Ended
    <3>3. ASSUME Goto(r, "using", req[r].grant, 0, 0)
       PROVE  RequestsOK'
      BY <2>9, <3>1, <3>3, <2>0, GotoTyped DEF StoreGrant, StoreFails, retry, discord, Ended, Phases
    <3>4. ASSUME Goto(r, "storing", req[r].grant, 0, req[r].count + 1) /\ req[r].count < StoreAttempts
       PROVE  RequestsOK'
      BY <2>9, <3>1, <3>4, <2>0, GotoTyped DEF StoreGrant, StoreFails, retry, discord, Ended, Phases
    <3>5. RequestsOK'
      BY <2>9, <3>2, <3>3, <3>4 DEF StoreGrant, StoreFails, retry
    <3>6. row' \in 0 .. issued /\ lost' \subseteq 1 .. issued
      BY <2>9, <3>1, <2>0 DEF StoreGrant, StoreFails, retry, TypeOK, Return, Goto
    <3> QED
      BY <2>9, <2>1, <3>5, <3>6 DEF StoreGrant, StoreFails, retry
  <2>10. ASSUME NEW r \in Requests, UseToken(r) \/ LinkStore(r) PROVE TypeOK'
    <3>1. CASE UseToken(r)
      <4>1. PICK answer \in Ended : Return(r, answer)
        BY <3>1, TokenEnds
      <4> QED
        BY <3>1, <4>1, <2>0, <2>1, ReturnTyped DEF UseToken, discord, TypeOK
    <3>2. CASE LinkStore(r)
      <4>1. RequestsOK'
        BY <3>2, <2>0, ReturnTyped DEF LinkStore, discord, Ended
      <4> QED
        BY <3>2, <4>1, <2>0, <2>1 DEF LinkStore, TypeOK
    <3> QED
      BY <2>10, <3>1, <3>2
  <2>11. ASSUME NEW r \in Requests, LinkExchange(r) PROVE TypeOK'
    <3>1. issued' = issued + 1 /\ issued' \in Grants
      BY <2>11 DEF LinkExchange, TypeOK, Grants
    <3>2. 1 .. issued \subseteq 1 .. issued' /\ issued' \in 1 .. issued' /\ 0 .. issued \subseteq 0 .. issued'
      BY <2>0, <3>1
    <3>3. RequestsOK'
      BY <2>11, <2>0, <3>1, GotoTyped DEF LinkExchange, Ended, Phases
    <3> QED
      BY <2>11, <2>0, <3>1, <3>2, <3>3 DEF LinkExchange, TypeOK
  <2>12. ASSUME NEW r \in Requests, Fail(r) PROVE TypeOK'
    <3>1. RequestsOK'
      BY <2>12, <2>0, ReturnTyped DEF Fail, discord, Ended
    <3>2. Carries(r) => req[r].grant \in 1 .. issued
      BY <2>0 DEF Carries, TypeOK, RequestsOK, Ended
    <3>3. lost' \subseteq 1 .. issued
      BY <2>12, <3>2 DEF Fail, TypeOK
    <3> QED
      BY <2>12, <2>0, <2>1, <3>1, <3>3 DEF Fail
  <2>13. ASSUME NEW g \in Grants, Expire(g) PROVE TypeOK'
    BY <2>13 DEF Expire, TypeOK, RequestsOK
  <2>14. CASE Withdraw \/ Erase \/ UNCHANGED vars
    <3>1. UNCHANGED <<issued, req>> /\ RequestsOK'
      BY <2>14, <2>0 DEF Withdraw, Erase, vars, discord, RequestsOK
    <3>2. CASE Withdraw
      BY <3>1, <3>2 DEF Withdraw, TypeOK
    <3>3. CASE Erase
      BY <3>1, <3>3, <2>0, <2>1 DEF Erase, TypeOK
    <3>4. CASE UNCHANGED vars
      BY <3>1, <3>4, <2>0, <2>1 DEF vars, discord, TypeOK
    <3> QED
      BY <2>14, <3>2, <3>3, <3>4
  <2>15. ASSUME NEW r \in Requests, Continue(r) PROVE TypeOK'
    BY <2>15, <2>4, <2>5, <2>6, <2>7, <2>8, <2>9, <2>10 DEF Continue
  <2> QED
    BY <2>3, <2>11, <2>12, <2>13, <2>14, <2>15 DEF Next
<1> QED
  BY <1>1, <1>2, PTL DEF Spec
-----------------------------------------------------------------------------
(***************************************************************************)
(* What happens to a stored grant.                                         *)
(***************************************************************************)

\* CarriedGrantsLive made inductive.  Two requests never carry one grant, a
\* carried grant is not due, and only a due grant is refreshed: so nobody
\* spends a grant that another request has yet to store.
CarriedInv ==
    /\ CarriedGrantsLive
    /\ \A r \in Requests : Carries(r) => req[r].grant \notin due
    /\ \A r, s \in Requests : Carries(r) /\ Carries(s) /\ r # s => req[r].grant # req[s].grant
    /\ \A r \in Requests : req[r].at = "refreshing" => req[r].grant \in due

\* A request that starts to carry the grant Discord has just issued.
LEMMA CarryNew ==
  ASSUME TypeOK, CarriedInv, NEW r \in Requests, NEW phase \in {"storing", "linking"},
         NEW n \in Nat, Goto(r, phase, issued + 1, 0, n), due' = due, withdrawn' = withdrawn,
         \/ live' = live \cup {issued + 1}
         \/ req[r].at = "refreshing" /\ live' = (live \ {req[r].grant}) \cup {issued + 1}
  PROVE  CarriedInv'
<1> USE DEF CarriedInv, CarriedGrantsLive, Carries
<1>1. /\ req'[r].at = phase /\ req'[r].grant = issued + 1
      /\ \A s \in Requests \ {r} : req'[s] = req[s]
  BY DEF Goto, TypeOK, RequestsOK
<1>2. issued + 1 \notin due /\ \A s \in Requests : req[s].grant # issued + 1
  BY GrantAssumption DEF TypeOK, RequestsOK, Grants
<1>3. \A s \in Requests \ {r} : Carries(s) => req[s].grant \in live' \cup withdrawn'
  OBVIOUS
<1> QED
  BY <1>1, <1>2, <1>3

\* A request that carries nothing new, or goes on carrying what it carried.
LEMMA CarryOn ==
  ASSUME TypeOK, CarriedInv, NEW r \in Requests, UNCHANGED discord,
         NEW phase \in Phases, NEW g, NEW n, NEW c, Goto(r, phase, g, n, c),
         phase = "refreshing" => g \in due,
         phase \in {"storing", "linking"} => Carries(r) /\ g = req[r].grant
  PROVE  CarriedInv'
<1>1. /\ req'[r].at = phase /\ req'[r].grant = g
      /\ \A s \in Requests \ {r} : req'[s] = req[s]
  BY DEF Goto, TypeOK, RequestsOK
<1> QED
  BY <1>1 DEF CarriedInv, CarriedGrantsLive, Carries, discord

\* The same for a request that answers.
LEMMA CarryReturn ==
  ASSUME TypeOK, CarriedInv, NEW r \in Requests, UNCHANGED discord,
         NEW answer \in Ended, Return(r, answer)
  PROVE  CarriedInv'
<1>1. answer \in Phases /\ answer \notin {"refreshing", "storing", "linking"}
  BY DEF Phases, Ended
<1> QED
  BY <1>1, CarryOn DEF Return

LEMMA CarriedStep == TypeOK /\ CarriedInv /\ [Next]_vars => CarriedInv'
<1> SUFFICES ASSUME TypeOK, CarriedInv, [Next]_vars PROVE CarriedInv'
  OBVIOUS
<1>1. ASSUME NEW r \in Requests, NEW g, NEW n, UNCHANGED discord, UseOrRefresh(r, g, n)
      PROVE  CarriedInv'
  BY <1>1, CarryOn DEF UseOrRefresh, Phases
<1>2. ASSUME NEW r \in Requests, Begin(r) \/ Poll(r) PROVE CarriedInv'
  BY <1>2, <1>1, CarryOn, CarryReturn DEF Begin, Poll, Phases, Ended
<1>3. ASSUME NEW r \in Requests, RefreshRotates(r) PROVE CarriedInv'
  BY <1>3, CarryNew DEF RefreshRotates, Rotate
<1>4. ASSUME NEW r \in Requests, RefreshAnswerLost(r) PROVE CarriedInv'
  <2>1. /\ req'[r].at = "error" /\ \A s \in Requests \ {r} : req'[s] = req[s]
        /\ due' = due /\ withdrawn' = withdrawn
        /\ live' = (live \ {req[r].grant}) \cup {issued + 1} /\ req[r].grant \in due
    BY <1>4 DEF RefreshAnswerLost, Rotate, Return, Goto, TypeOK, RequestsOK, CarriedInv
  <2> QED
    BY <2>1 DEF CarriedInv, CarriedGrantsLive, Carries
<1>5. ASSUME NEW r \in Requests, RefreshErrors(r) \/ UseToken(r) \/ LinkStore(r) \/ Fail(r)
      PROVE  CarriedInv'
  <2>1. CASE UseToken(r)
    <3>1. PICK answer \in Ended : Return(r, answer)
      BY <2>1, TokenEnds
    <3> QED
      BY <2>1, <3>1, CarryReturn DEF UseToken
  <2> QED
    BY <1>5, <2>1, CarryReturn DEF RefreshErrors, LinkStore, Fail, Ended
<1>6. ASSUME NEW r \in Requests, RefreshRefused(r) PROVE CarriedInv'
  BY <1>6, CarryOn, CarryReturn DEF RefreshRefused, Phases, Ended
<1>7. ASSUME NEW r \in Requests, StoreGrant(r) \/ StoreFails(r) PROVE CarriedInv'
  BY <1>7, CarryOn, CarryReturn DEF StoreGrant, StoreFails, retry, Carries, Phases, Ended
<1>8. ASSUME NEW r \in Requests, LinkExchange(r) PROVE CarriedInv'
  BY <1>8, CarryNew DEF LinkExchange
<1>9. ASSUME NEW g \in Grants, Expire(g) PROVE CarriedInv'
  BY <1>9 DEF Expire, CarriedInv, CarriedGrantsLive, Carries
<1>10. CASE Withdraw
  <2>1. \A r \in Requests : Carries(r) => req[r].grant \in withdrawn'
    <3>1. ASSUME NEW r \in Requests, Carries(r) PROVE req[r].at \notin Ended
      BY <3>1 DEF Carries, Ended
    <3>2. ASSUME NEW r \in Requests, Carries(r) PROVE req[r].grant \in 1 .. issued
      BY <3>1, <3>2 DEF TypeOK, RequestsOK, Grants
    <3> QED
      BY <1>10, <3>2 DEF Withdraw
  <2> QED
    BY <1>10, <2>1 DEF Withdraw, CarriedInv, CarriedGrantsLive, Carries
<1>11. CASE Erase \/ UNCHANGED vars
  BY <1>11 DEF Erase, vars, discord, CarriedInv, CarriedGrantsLive, Carries
<1>12. ASSUME NEW r \in Requests, Continue(r) PROVE CarriedInv'
  BY <1>12, <1>2, <1>3, <1>4, <1>5, <1>6, <1>7 DEF Continue
<1> QED
  BY <1>2, <1>5, <1>8, <1>9, <1>10, <1>11, <1>12 DEF Next

\* CarriedInv holds of every reachable state.
LEMMA CarriedInvariant == Spec => []CarriedInv
<1>1. Init => CarriedInv
  BY DEF Init, CarriedInv, CarriedGrantsLive, Carries
<1> QED
  BY <1>1, TypeCorrect, CarriedStep, PTL DEF Spec

\* A grant on its way to the database is one that Discord accepts, or that its
\* owner has withdrawn.
THEOREM CarriesLiveGrants == Spec => []CarriedGrantsLive
<1>1. CarriedInv => CarriedGrantsLive
  BY DEF CarriedInv
<1> QED
  BY <1>1, CarriedInvariant, PTL

\* No write replaces a grant that Discord accepts by one it does not: what the
\* writers of the row write is what they carry.
THEOREM OverwritesNoUsableGrant == Spec => NeverOverwritesUsable
<1>1. TypeOK /\ CarriedInv /\ [Next]_vars
        => [row' \notin {NoGrant, row} /\ row \in live => row' \in live' \cup withdrawn']_vars
  <2> SUFFICES ASSUME TypeOK, CarriedInv, Next, row' # NoGrant, row' # row
               PROVE  row' \in live' \cup withdrawn'
    OBVIOUS
  <2>1. PICK r \in Requests : StoreGrant(r) \/ StoreFails(r) \/ LinkStore(r)
    BY DEF Next, Continue, Begin, LinkExchange, RefreshRotates, RefreshAnswerLost, RefreshErrors,
           RefreshRefused, Poll, UseToken, Fail, Expire, Withdraw, Erase
  <2>2. Carries(r) /\ row' = req[r].grant /\ live' = live /\ withdrawn' = withdrawn
    BY <2>1 DEF StoreGrant, StoreFails, retry, LinkStore, Carries, discord
  <2> QED
    BY <2>2 DEF CarriedInv, CarriedGrantsLive
<1> QED
  BY <1>1, TypeCorrect, CarriedInvariant, PTL DEF Spec, NeverOverwritesUsable
-----------------------------------------------------------------------------
(***************************************************************************)
(* Why a stored grant stops working.                                       *)
(***************************************************************************)

\* Grant g is under way to the database, or was lost on the way.
Accounted(g) == g \in lost \/ \E r \in Requests : Carries(r) /\ req[r].grant = g

\* A grant stays accounted for until it is stored.
LEMMA AccountedStep ==
  ASSUME TypeOK, CarriedInv, Next, NEW g, Accounted(g), row' \notin live' \cup withdrawn'
  PROVE  Accounted(g)'
<1> USE DEF Accounted, Carries, TypeOK, RequestsOK
<1>1. CASE g \in lost
  <2>1. lost \subseteq lost'
    BY DEF Next, Continue, Begin, LinkExchange, RefreshRotates, RefreshAnswerLost, RefreshErrors,
           RefreshRefused, Poll, UseToken, StoreGrant, StoreFails, retry, LinkStore, Fail, Expire, Withdraw, Erase
  <2> QED
    BY <1>1, <2>1
<1>2. ASSUME NEW s \in Requests, Carries(s), req[s].grant = g PROVE Accounted(g)'
  <2>1. CASE req'[s] = req[s]
    BY <1>2, <2>1
  <2>2. ASSUME NEW r \in Requests, r # s, \E phase, n, a, c : Goto(r, phase, n, a, c) PROVE req'[s] = req[s]
    BY <2>2 DEF Goto
  <2>3. CASE StoreGrant(s) \/ StoreFails(s) \/ LinkStore(s)
    BY <1>2, <2>3 DEF StoreGrant, StoreFails, retry, LinkStore, Goto, Return, discord, CarriedInv, CarriedGrantsLive
  <2>4. CASE Fail(s)
    BY <1>2, <2>4 DEF Fail
  <2>5. ASSUME NEW r \in Requests, Begin(r) \/ LinkExchange(r) \/ Continue(r) \/ Fail(r) PROVE Accounted(g)'
    <3>1. CASE r # s
      <4>1. \E phase, n, a, c : Goto(r, phase, n, a, c)
        BY <2>5 DEF Continue, Begin, LinkExchange, RefreshRotates, RefreshAnswerLost, RefreshErrors,
           RefreshRefused, Poll, UseToken, StoreGrant, StoreFails, retry, LinkStore, Fail, UseOrRefresh, Return
      <4> QED
        BY <2>1, <2>2, <3>1, <4>1
    <3>2. CASE r = s
      <4>1. StoreGrant(s) \/ StoreFails(s) \/ LinkStore(s) \/ Fail(s)
        BY <1>2, <2>5, <3>2 DEF Continue, Begin, LinkExchange, RefreshRotates, RefreshAnswerLost,
           RefreshErrors, RefreshRefused, Poll, UseToken, Ended
      <4> QED
        BY <2>3, <2>4, <4>1
    <3> QED
      BY <3>1, <3>2
  <2>6. CASE (\E h \in Grants : Expire(h)) \/ Withdraw \/ Erase
    BY <2>1, <2>6 DEF Expire, Withdraw, Erase
  <2> QED
    BY <2>5, <2>6 DEF Next
<1> QED
  BY <1>1, <1>2

\* A stored grant that Discord no longer accepts was withdrawn by its owner,
\* or its successor is accounted for.
LEMMA TraceableStep == TypeOK /\ CarriedInv /\ RowTraceable /\ [Next]_vars => RowTraceable'
<1> SUFFICES ASSUME TypeOK, CarriedInv, RowTraceable, [Next]_vars,
                    row' \notin {NoGrant} \cup live' \cup withdrawn'
             PROVE  \E g \in Grants : parent'[g] = row' /\ Accounted(g)'
  BY DEF RowTraceable, Accounted
<1>1. CASE UNCHANGED vars
  BY <1>1 DEF vars, RowTraceable, Accounted, Carries
<1>2. ASSUME Next PROVE \E g \in Grants : parent'[g] = row' /\ Accounted(g)'
  <2>1. row' = row
    <3>1. ASSUME NEW r \in Requests, StoreGrant(r) \/ StoreFails(r) \/ LinkStore(r) PROVE row' = row
      BY <3>1 DEF StoreGrant, StoreFails, retry, LinkStore, discord, CarriedInv, CarriedGrantsLive, Carries
    <3> QED
      BY <1>2, <3>1 DEF Next, Continue, Begin, LinkExchange, RefreshRotates, RefreshAnswerLost, RefreshErrors,
             RefreshRefused, Poll, UseToken, Fail, Expire, Withdraw, Erase
  <2>2. ASSUME NEW g \in Grants, parent[g] = row, Accounted(g)
        PROVE  parent'[g] = row' /\ Accounted(g)'
    <3>1. g \in 1 .. issued
      BY <2>2 DEF Accounted, TypeOK, RequestsOK, Carries, Ended, Grants
    <3>2. parent' = parent \/ \E h : parent' = [parent EXCEPT ![issued + 1] = h]
      BY <1>2 DEF Next, Continue, Begin, LinkExchange, RefreshRotates, RefreshAnswerLost, Rotate,
             RefreshErrors, RefreshRefused, Poll, UseToken, StoreGrant, StoreFails, retry, LinkStore, Fail,
             Expire, Withdraw, Erase, discord
    <3>3. parent'[g] = parent[g]
      <4>1. g # issued + 1 /\ DOMAIN parent = Grants
        BY <3>1 DEF TypeOK, Grants
      <4> QED
        BY <2>2, <3>2, <4>1 DEF TypeOK
    <3> QED
      BY <1>2, <2>1, <2>2, <3>3, AccountedStep
  <2>3. CASE row \notin live \cup withdrawn
    BY <2>1, <2>2, <2>3 DEF RowTraceable, Accounted
  <2>4. CASE row \in live \cup withdrawn
    <3>1. PICK r \in Requests : (RefreshRotates(r) \/ RefreshAnswerLost(r)) /\ req[r].grant = row
      <4>1. withdrawn \subseteq withdrawn'
        BY <1>2 DEF Next, Continue, Begin, LinkExchange, RefreshRotates, RefreshAnswerLost, Rotate,
             RefreshErrors, RefreshRefused, Poll, UseToken, StoreGrant, StoreFails, retry, LinkStore, Fail,
             Expire, Withdraw, Erase, discord, TypeOK
      <4>2. ~Withdraw
        BY <2>1, <2>4 DEF Withdraw, TypeOK
      <4> QED
        BY <1>2, <2>1, <2>4, <4>1, <4>2 DEF Next, Continue, Begin, LinkExchange, RefreshRotates, RefreshAnswerLost, Rotate,
             RefreshErrors, RefreshRefused, Poll, UseToken, StoreGrant, StoreFails, retry, LinkStore, Fail,
             Expire, Erase, discord
    <3>2. PICK g \in Grants : g = issued + 1 /\ parent'[g] = row
      BY <3>1, GrantAssumption DEF RefreshRotates, RefreshAnswerLost, Rotate, TypeOK, Grants
    <3>3. CASE RefreshRotates(r)
      <4>1. req'[r].at = "storing" /\ req'[r].grant = g
        BY <3>2, <3>3 DEF RefreshRotates, Goto, TypeOK, RequestsOK
      <4> QED
        BY <2>1, <3>2, <4>1 DEF Accounted, Carries
    <3>4. CASE RefreshAnswerLost(r)
      BY <2>1, <3>2, <3>4 DEF RefreshAnswerLost, Accounted
    <3> QED
      BY <3>1, <3>3, <3>4
  <2> QED
    BY <2>3, <2>4
<1> QED
  BY <1>1, <1>2

\* A stored grant dies only when its owner withdraws it or on the way of its
\* successor to the row: "losing this write costs the user their grant".
THEOREM RowIsTraceable == Spec => []RowTraceable
<1>1. Init => RowTraceable
  BY DEF Init, RowTraceable
<1> QED
  BY <1>1, TypeCorrect, CarriedInvariant, TraceableStep, PTL DEF Spec
-----------------------------------------------------------------------------
(***************************************************************************)
(* Who is told that the grant is gone.                                     *)
(***************************************************************************)

\* What makes NeverRevokesUsable hold of the next step.  Discord never accepts
\* again what it has once refused: so a request that polls because its refresh
\* was refused still holds a dead grant when it gives up.
DeadInv ==
    /\ live \cap withdrawn = {}
    /\ \A r \in Requests : req[r].at = "polling" => req[r].grant \notin live

LEMMA DeadStep == TypeOK /\ DeadInv /\ [Next]_vars => DeadInv'
<1> SUFFICES ASSUME TypeOK, DeadInv, [Next]_vars PROVE DeadInv'
  OBVIOUS
<1>1. \/ live' \subseteq live \cup {issued + 1} /\ withdrawn' = withdrawn
      \/ live' = {}
  BY DEF Next, Continue, Begin, LinkExchange, RefreshRotates, RefreshAnswerLost, Rotate,
         RefreshErrors, RefreshRefused, Poll, UseToken, StoreGrant, StoreFails, retry, LinkStore, Fail,
         Expire, Withdraw, Erase, discord, vars
<1>2. issued + 1 \notin withdrawn /\ \A r \in Requests : req[r].grant # issued + 1
  BY GrantAssumption DEF TypeOK, RequestsOK, Grants
<1>3. ASSUME NEW r \in Requests, req'[r].at = "polling" PROVE req'[r].grant \notin live'
  <2>1. req'[r].grant \notin live /\ req'[r].grant # issued + 1
    <3>1. CASE req'[r] = req[r]
      BY <1>2, <1>3, <3>1 DEF DeadInv
    <3>2. CASE RefreshRefused(r)
      BY <1>2, <1>3, <3>2, RefusedOnlyDead DEF RefreshRefused, Return, Goto, TypeOK, RequestsOK
    <3>3. CASE Poll(r)
      BY <1>2, <1>3, <3>3 DEF Poll, UseOrRefresh, Return, Goto, TypeOK, RequestsOK, DeadInv
    <3>4. ASSUME ~RefreshRefused(r), ~Poll(r) PROVE req'[r] = req[r]
      <4>1. ASSUME NEW q \in Requests, NEW phase, NEW g, NEW n, NEW c, Goto(q, phase, g, n, c), phase # "polling"
            PROVE  req'[r] = req[r]
        BY <1>3, <4>1 DEF Goto, TypeOK, RequestsOK
      <4>2. ASSUME NEW q \in Requests, q # r, NEW phase, NEW g, NEW n, NEW c, Goto(q, phase, g, n, c)
            PROVE  req'[r] = req[r]
        BY <4>2 DEF Goto, TypeOK, RequestsOK
      <4>3. ASSUME NEW q \in Requests, UseToken(q) PROVE req'[r] = req[r]
        BY <4>1, <4>3, TokenEnds DEF Return, Ended
      <4>4. ASSUME NEW q \in Requests, RefreshRefused(q) \/ Poll(q) PROVE req'[r] = req[r]
        <5>1. q # r
          BY <3>4, <4>4
        <5> QED
          BY <4>2, <4>4, <5>1 DEF RefreshRefused, Poll, UseOrRefresh, Return
      <4>5. ASSUME NEW q \in Requests,
                   \/ Begin(q) \/ LinkExchange(q) \/ RefreshRotates(q) \/ RefreshAnswerLost(q)
                   \/ RefreshErrors(q) \/ StoreGrant(q) \/ StoreFails(q) \/ LinkStore(q) \/ Fail(q)
            PROVE  req'[r] = req[r]
        BY <4>1, <4>5 DEF Begin, LinkExchange, RefreshRotates, RefreshAnswerLost, RefreshErrors,
               StoreGrant, StoreFails, retry, LinkStore, Fail, UseOrRefresh, Return
      <4> QED
        BY <4>3, <4>4, <4>5 DEF Next, Continue, Expire, Withdraw, Erase, vars
    <3> QED
      BY <3>1, <3>2, <3>3, <3>4
  <2> QED
    BY <1>1, <2>1
<1> QED
  BY <1>1, <1>2, <1>3 DEF DeadInv

LEMMA DeadInvariant == Spec => []DeadInv
<1>1. Init => DeadInv
  BY DEF Init, DeadInv
<1> QED
  BY <1>1, TypeCorrect, DeadStep, PTL DEF Spec

\* Whoever is told that the access is revoked held a grant that Discord did not
\* accept, whatever Discord answered.
THEOREM RevokesNoUsableGrant == Spec => NeverRevokesUsable
<1>1. TypeOK /\ DeadInv /\ [Next]_vars
        => [\A r \in Requests : req[r].at # "revoked" /\ req'[r].at = "revoked" => req[r].grant \notin live]_vars
  <2> SUFFICES ASSUME TypeOK, DeadInv, Next, NEW r \in Requests,
                      req[r].at # "revoked", req'[r].at = "revoked"
               PROVE  req[r].grant \notin live
    OBVIOUS
  <2>1. ASSUME NEW q \in Requests, NEW phase, NEW g, NEW n, NEW c, Goto(q, phase, g, n, c)
        PROVE  q = r /\ phase = "revoked"
    BY <2>1 DEF Goto, TypeOK, RequestsOK
  <2>2. ASSUME NEW q \in Requests, UseToken(q) PROVE req[r].grant \notin live
    <3>1. PICK answer \in Ended : Return(q, answer) /\ (answer = "revoked" => req[q].grant \notin live)
      BY <2>2, TokenVerdict DEF DeadInv
    <3> QED
      BY <2>1, <3>1 DEF Return
  <2>3. ASSUME NEW q \in Requests, RefreshRefused(q) PROVE req[r].grant \notin live
    <3>1. q = r
      BY <2>1, <2>3 DEF RefreshRefused, Return
    <3> QED
      BY <2>3, <3>1, RefusedOnlyDead DEF RefreshRefused
  <2>4. ASSUME NEW q \in Requests, Poll(q) PROVE req[r].grant \notin live
    <3>1. q = r
      BY <2>1, <2>4 DEF Poll, UseOrRefresh, Return
    <3> QED
      BY <2>4, <3>1 DEF Poll, DeadInv
  <2>5. ASSUME NEW q \in Requests,
               \/ Begin(q) \/ LinkExchange(q) \/ RefreshRotates(q) \/ RefreshAnswerLost(q)
               \/ RefreshErrors(q) \/ StoreGrant(q) \/ StoreFails(q) \/ LinkStore(q) \/ Fail(q)
        PROVE  FALSE
    BY <2>1, <2>5 DEF Begin, LinkExchange, RefreshRotates, RefreshAnswerLost, RefreshErrors,
           StoreGrant, StoreFails, retry, LinkStore, Fail, UseOrRefresh, Return
  <2>6. req' # req
    BY DEF TypeOK, RequestsOK
  <2> QED
    BY <2>2, <2>3, <2>4, <2>5, <2>6 DEF Next, Continue, Expire, Withdraw, Erase
<1> QED
  BY <1>1, TypeCorrect, DeadInvariant, PTL DEF Spec, NeverRevokesUsable
-----------------------------------------------------------------------------
(***************************************************************************)
(* Grant implements Custody: where a grant may be.                         *)
(***************************************************************************)

\* The grants that requests other than r carry.
HandsOfOthers(r) == {req[q].grant : q \in {s \in Requests \ {r} : Carries(s)}}

\* What a step of request r does to the grants in hand.
LEMMA HandsChange ==
  ASSUME TypeOK, CarriedInv, NEW r \in Requests,
         NEW phase, NEW g, NEW n, NEW c, Goto(r, phase, g, n, c)
  PROVE  /\ Hands = HandsOfOthers(r) \cup (IF Carries(r) THEN {req[r].grant} ELSE {})
         /\ Hands' = HandsOfOthers(r) \cup (IF phase \in {"storing", "linking"} THEN {g} ELSE {})
         /\ Carries(r) => req[r].grant \notin HandsOfOthers(r)
<1>1. /\ req'[r].at = phase /\ req'[r].grant = g
      /\ \A s \in Requests \ {r} : req'[s] = req[s]
  BY DEF Goto, TypeOK, RequestsOK
<1>2. Hands = HandsOfOthers(r) \cup (IF Carries(r) THEN {req[r].grant} ELSE {})
  BY DEF Hands, HandsOfOthers
<1>3. Hands' = HandsOfOthers(r) \cup (IF phase \in {"storing", "linking"} THEN {g} ELSE {})
  BY <1>1 DEF Hands, HandsOfOthers, Carries
<1>4. Carries(r) => req[r].grant \notin HandsOfOthers(r)
  BY DEF HandsOfOthers, CarriedInv
<1> QED
  BY <1>2, <1>3, <1>4

\* A request that carries nothing before or after its step.
LEMMA EmptyHanded ==
  ASSUME TypeOK, CarriedInv, NEW r \in Requests, ~Carries(r), UNCHANGED <<discord, row, lost>>,
         NEW phase, phase \notin {"storing", "linking"}, NEW g, NEW n, NEW c, Goto(r, phase, g, n, c)
  PROVE  UNCHANGED Held!vars
BY HandsChange DEF Held!vars, discord

LEMMA EmptyHandedReturn ==
  ASSUME TypeOK, CarriedInv, NEW r \in Requests, ~Carries(r), UNCHANGED <<discord, row, lost>>,
         NEW answer \in Ended, Return(r, answer)
  PROVE  UNCHANGED Held!vars
BY EmptyHanded DEF Return, Ended

LEMMA EmptyHandedUse ==
  ASSUME TypeOK, CarriedInv, NEW r \in Requests, ~Carries(r), UNCHANGED <<discord, row, lost>>,
         NEW g, NEW n, UseOrRefresh(r, g, n)
  PROVE  UNCHANGED Held!vars
BY EmptyHanded DEF UseOrRefresh

\* A refresh spends a grant that is in nobody's hands, for it is due and what is
\* carried is not.
LEMMA RefreshKeepsCustody ==
  ASSUME TypeOK, CarriedInv, NEW r \in Requests, RefreshRotates(r) \/ RefreshAnswerLost(r)
  PROVE  Held!Refresh(req[r].grant)
<1>1. ~Carries(r) /\ req[r].grant \in live \ Hands
  BY DEF RefreshRotates, RefreshAnswerLost, Carries, CarriedInv, Hands
<1>2. CASE RefreshRotates(r)
  <2>1. Hands' = Hands \cup {issued + 1}
    BY <1>1, <1>2, HandsChange DEF RefreshRotates
  <2> QED
    BY <1>1, <1>2, <2>1 DEF RefreshRotates, Rotate, Held!Refresh, Held!Tell
<1>3. CASE RefreshAnswerLost(r)
  <2>1. Hands' = Hands
    BY <1>1, <1>3, HandsChange DEF RefreshAnswerLost, Return
  <2> QED
    BY <1>1, <1>3, <2>1 DEF RefreshAnswerLost, Rotate, Held!Refresh, Held!Tell
<1> QED
  BY <1>2, <1>3

\* A write stores what its writer carries, who is then done with it, tries again
\* or gives up.
LEMMA WriteKeepsCustody ==
  ASSUME TypeOK, CarriedInv, NEW r \in Requests, StoreGrant(r) \/ StoreFails(r) \/ LinkStore(r)
  PROVE  \/ \E g \in Hands : Held!Store(g) \/ Held!Lose(g)
         \/ UNCHANGED Held!vars
<1> DEFINE g == req[r].grant
<1>1. Carries(r) /\ g \in Hands /\ UNCHANGED <<issued, live, withdrawn>> /\ row' \in {row, g}
  BY DEF StoreGrant, StoreFails, retry, LinkStore, Carries, Hands, discord
<1>2. ASSUME NEW phase, phase \notin {"storing", "linking"}, NEW h, NEW n, NEW c, Goto(r, phase, h, n, c)
      PROVE  Hands' = Hands \ {g}
  BY <1>1, <1>2, HandsChange
<1>3. ASSUME NEW n, NEW c, Goto(r, "storing", g, n, c)
      PROVE  Hands' = Hands
  BY <1>1, <1>3, HandsChange
<1>4. CASE row' = g /\ Hands' \in {Hands, Hands \ {g}} /\ lost' = lost
  BY <1>1, <1>4 DEF Held!Store
<1>5. CASE Hands' = Hands \ {g} /\ lost' = lost \cup {g}
  BY <1>1, <1>5 DEF Held!Lose
<1>6. CASE Hands' = Hands /\ lost' = lost /\ row' = row
  BY <1>1, <1>6 DEF Held!vars
<1>7. CASE StoreGrant(r)
  BY <1>2, <1>4, <1>5, <1>7 DEF StoreGrant, Return
<1>8. CASE StoreFails(r)
  BY <1>1, <1>2, <1>3, <1>4, <1>5, <1>6, <1>8 DEF StoreFails, retry, Return
<1>9. CASE LinkStore(r)
  BY <1>2, <1>4, <1>9 DEF LinkStore, Return
<1> QED
  BY <1>7, <1>8, <1>9

\* Every step of Grant is one step of Custody or leaves it alone.
LEMMA StepKeepsCustody == TypeOK /\ CarriedInv /\ [Next]_vars => [Held!Next]_(Held!vars)
<1> SUFFICES ASSUME TypeOK, CarriedInv, [Next]_vars PROVE Held!Next \/ UNCHANGED Held!vars
  OBVIOUS
<1>1. ASSUME NEW r \in Requests, Begin(r) \/ RefreshErrors(r) \/ RefreshRefused(r) \/ Poll(r)
      PROVE  UNCHANGED Held!vars
  <2>1. ~Carries(r)
    BY <1>1 DEF Begin, RefreshErrors, RefreshRefused, Poll, Carries, Ended
  <2> QED
    BY <1>1, <2>1, EmptyHanded, EmptyHandedReturn, EmptyHandedUse
    DEF Begin, RefreshErrors, RefreshRefused, Poll, Ended
<1>2. ASSUME NEW r \in Requests, UseToken(r) PROVE UNCHANGED Held!vars
  <2>1. PICK answer \in Ended : Return(r, answer)
    BY <1>2, TokenEnds
  <2> QED
    BY <1>2, <2>1, EmptyHandedReturn DEF UseToken, Carries
<1>3. ASSUME NEW r \in Requests, RefreshRotates(r) \/ RefreshAnswerLost(r) PROVE Held!Next
  <2>1. Held!Refresh(req[r].grant) /\ req[r].grant \in live
    BY <1>3, RefreshKeepsCustody DEF Held!Refresh
  <2> QED
    BY <2>1 DEF Held!Next
<1>4. ASSUME NEW r \in Requests, StoreGrant(r) \/ StoreFails(r) \/ LinkStore(r)
      PROVE  Held!Next \/ UNCHANGED Held!vars
  BY <1>4, WriteKeepsCustody DEF Held!Next
<1>5. ASSUME NEW r \in Requests, LinkExchange(r) PROVE Held!Next
  <2>1. Hands' = Hands \cup {issued + 1}
    BY <1>5, HandsChange DEF LinkExchange, Carries, Ended
  <2> QED
    BY <1>5, <2>1 DEF LinkExchange, Held!Next, Held!Authorize, Held!Tell
<1>6. ASSUME NEW r \in Requests, Fail(r) PROVE Held!Next \/ UNCHANGED Held!vars
  <2>1. CASE Carries(r)
    <3>1. req[r].grant \in Hands /\ Hands' = Hands \ {req[r].grant}
      BY <1>6, <2>1, HandsChange DEF Fail, Return, Hands
    <3>2. Held!Lose(req[r].grant)
      BY <1>6, <2>1, <3>1 DEF Fail, discord, Held!Lose
    <3> QED
      BY <3>1, <3>2 DEF Held!Next
  <2>2. CASE ~Carries(r)
    BY <1>6, <2>2, EmptyHandedReturn DEF Fail, Ended
  <2> QED
    BY <2>1, <2>2
<1>7. ASSUME req' = req PROVE Hands' = Hands
  BY <1>7 DEF Hands, Carries
<1>8. CASE (\E g \in Grants : Expire(g)) \/ UNCHANGED vars
  BY <1>7, <1>8 DEF Expire, vars, Held!vars
<1>9. CASE Withdraw \/ Erase
  BY <1>7, <1>9 DEF Withdraw, Erase, discord, Held!Next, Held!Withdraw, Held!Erase, Held!NoGrant
<1>10. ASSUME NEW r \in Requests, Continue(r) PROVE Held!Next \/ UNCHANGED Held!vars
  BY <1>1, <1>2, <1>3, <1>4, <1>10 DEF Continue
<1> QED
  BY <1>1, <1>5, <1>6, <1>8, <1>9, <1>10 DEF Next

\* Any number of resolves, members and links, with their refreshes, polls, retries
\* and failures, keep custody of the grants as Custody has it: nothing but a write
\* by its only carrier moves a grant to the row.
THEOREM ImplementsCustody == Spec => KeepsCustody
<1>1. Init => Held!Init
  BY DEF Init, Held!Init, Hands, Carries
<1> QED
  BY <1>1, StepKeepsCustody, TypeCorrect, CarriedInvariant, PTL DEF Spec, KeepsCustody, Held!Spec

-----------------------------------------------------------------------------
\* What each further attempt is worth.
LEMMA Products ==
  ASSUME NEW n \in Nat, NEW m \in Nat
  PROVE  n * m \in Nat /\ (n + 1) * m = n * m + m
OBVIOUS

LEMMA StoreCalls == CallsToStore \in Nat /\ CallsToStore = StoreAttempts + 1 /\ CallsToStore >= 2
BY GrantAssumption DEF CallsToStore

LEMMA Attempts ==
  ASSUME NEW a \in 0 .. RefreshAttempts
  PROVE  /\ CallsAfter(a) \in Nat /\ CallsAfter(a) >= CallsToStore
         /\ a < RefreshAttempts => CallsAfter(a) = CallsAfter(a + 1) + RotationPolls + 1
<1> DEFINE n == RefreshAttempts - a
           k == RefreshAttempts - (a + 1)
           m == RotationPolls + 1
<1>1. n \in Nat /\ m \in Nat /\ (a < RefreshAttempts => k \in Nat /\ n = k + 1)
  BY GrantAssumption
<1>2. CallsAfter(a) = n * m + CallsToStore /\ CallsAfter(a + 1) = k * m + CallsToStore
  BY DEF CallsAfter
<1> HIDE DEF n, k, m
<1>3. n * m \in Nat /\ (a < RefreshAttempts => n * m = k * m + m /\ k * m \in Nat)
  BY <1>1, Products
<1> QED
  BY <1>1, <1>2, <1>3, StoreCalls, GrantAssumption DEF m

\* The calls that a request has left where it goes.
LEMMA CallsAt ==
  ASSUME RequestsOK, NEW r \in Requests, NEW phase, NEW g, NEW attempt, NEW count,
         Goto(r, phase, g, attempt, count)
  PROVE  /\ CallsLeft(r)' =
              CASE phase \in Ended -> 0
                [] phase \in {"using", "linking"} -> 1
                [] phase = "storing" -> CallsToStore - (count - 1)
                [] phase = "polling" -> CallsAfter(attempt) - (count - 1)
                [] phase = "refreshing" -> CallsAfter(attempt) + 1
         /\ \A s \in Requests \ {r} : req'[s] = req[s]
<1>1. /\ req'[r].at = phase /\ req'[r].attempt = attempt /\ req'[r].count = count
      /\ \A s \in Requests \ {r} : req'[s] = req[s]
  BY DEF Goto, RequestsOK
<1> QED
  BY <1>1 DEF CallsLeft

LEMMA CallsAtEnd ==
  ASSUME RequestsOK, NEW r \in Requests, NEW answer \in Ended, Return(r, answer)
  PROVE  CallsLeft(r)' = 0 /\ \A s \in Requests \ {r} : req'[s] = req[s]
BY CallsAt DEF Return, Ended

\* What a request has left, by its phase.
LEMMA CallsNow ==
  ASSUME TypeOK, NEW r \in Requests
  PROVE  /\ CallsLeft(r) \in Nat
         /\ req[r].at \notin Ended => CallsLeft(r) >= 1
         /\ req[r].at \in {"storing", "polling", "refreshing"} => CallsLeft(r) >= 2
         /\ req[r].at = "storing" => CallsLeft(r) = CallsToStore - (req[r].count - 1)
         /\ req[r].at = "polling" => CallsLeft(r) = CallsAfter(req[r].attempt) - (req[r].count - 1)
         /\ req[r].at = "refreshing" => CallsLeft(r) = CallsAfter(req[r].attempt) + 1
<1>1. /\ req[r].at \in Phases /\ req[r].attempt \in 0 .. RefreshAttempts /\ req[r].count \in Nat
      /\ req[r].at = "polling" => req[r].count <= RotationPolls /\ req[r].attempt < RefreshAttempts
      /\ req[r].at = "storing" => req[r].count <= StoreAttempts
  BY DEF TypeOK, RequestsOK
<1>2. CASE req[r].at \in Ended
  BY <1>2 DEF CallsLeft, Ended
<1>3. CASE req[r].at \in {"using", "linking"}
  BY <1>3 DEF CallsLeft, Ended
<1>4. CASE req[r].at = "storing"
  <2>1. CallsLeft(r) = CallsToStore - (req[r].count - 1)
    BY <1>4 DEF CallsLeft, Ended
  <2> QED
    BY <1>1, <1>4, <2>1, StoreCalls, GrantAssumption
<1>5. CASE req[r].at = "polling"
  <2>1. CallsLeft(r) = CallsAfter(req[r].attempt) - (req[r].count - 1)
    BY <1>5 DEF CallsLeft, Ended
  <2>2. CallsAfter(req[r].attempt) = CallsAfter(req[r].attempt + 1) + RotationPolls + 1
    BY <1>1, <1>5, Attempts
  <2>3. CallsAfter(req[r].attempt + 1) \in Nat /\ CallsAfter(req[r].attempt + 1) >= 2
    BY <1>1, <1>5, Attempts, StoreCalls, GrantAssumption
  <2> QED
    BY <1>1, <1>5, <2>1, <2>2, <2>3, GrantAssumption
<1>6. CASE req[r].at = "refreshing"
  <2>1. CallsLeft(r) = CallsAfter(req[r].attempt) + 1
    BY <1>6 DEF CallsLeft, Ended
  <2>2. CallsAfter(req[r].attempt) \in Nat /\ CallsAfter(req[r].attempt) >= 2
    BY <1>1, Attempts, StoreCalls
  <2> QED
    BY <1>6, <2>1, <2>2
<1> QED
  BY <1>1, <1>2, <1>3, <1>4, <1>5, <1>6 DEF Phases

\* accessToken, readRotatedUser and retry: each call that a request makes leaves
\* it with fewer to make.
LEMMA ContinueCounts ==
  ASSUME TypeOK, NEW r \in Requests, Continue(r) \/ Fail(r)
  PROVE  /\ CallsLeft(r)' \in 0 .. CallsLeft(r) - 1
         /\ \A s \in Requests \ {r} : req'[s] = req[s]
<1>0. /\ RequestsOK /\ req[r].attempt \in 0 .. RefreshAttempts /\ req[r].count \in Nat
      /\ req[r].at \notin Ended
  BY DEF TypeOK, RequestsOK, Continue, Fail, RefreshRotates, RefreshAnswerLost, RefreshErrors,
         RefreshRefused, Poll, StoreGrant, StoreFails, UseToken, LinkStore, Ended
<1> HIDE DEF NoGrant
<1> DEFINE Others == \A s \in Requests \ {r} : req'[s] = req[s]
           now == req[r].attempt
<1>1. ASSUME NEW answer \in Ended, Return(r, answer)
      PROVE  CallsLeft(r)' \in 0 .. CallsLeft(r) - 1 /\ Others
  BY <1>0, <1>1, CallsAtEnd, CallsNow
<1>2. ASSUME req[r].at \in {"polling", "refreshing", "storing"}, NEW g, Goto(r, "using", g, 0, 0)
      PROVE  CallsLeft(r)' \in 0 .. CallsLeft(r) - 1 /\ Others
  <2>1. CallsLeft(r)' = 1 /\ Others
    BY <1>0, <1>2, CallsAt DEF Ended
  <2> QED
    BY <1>0, <1>2, <2>1, CallsNow
<1>3. CASE RefreshRotates(r)
  <2>1. CallsLeft(r)' = CallsToStore - (1 - 1) /\ Others
    BY <1>0, <1>3, CallsAt DEF RefreshRotates, Ended
  <2>2. CallsLeft(r) = CallsAfter(now) + 1 /\ CallsAfter(now) \in Nat /\ CallsAfter(now) >= CallsToStore
    BY <1>0, <1>3, CallsNow, Attempts DEF RefreshRotates
  <2> QED
    BY <2>1, <2>2, StoreCalls
<1>4. CASE RefreshAnswerLost(r) \/ RefreshErrors(r) \/ LinkStore(r) \/ Fail(r)
  BY <1>1, <1>4 DEF RefreshAnswerLost, RefreshErrors, LinkStore, Fail, Ended
<1>5. CASE UseToken(r)
  BY <1>1, <1>5, TokenEnds
<1>6. CASE RefreshRefused(r)
  <2>1. CASE Return(r, "revoked")
    BY <1>1, <2>1 DEF Ended
  <2>2. CASE Goto(r, "polling", req[r].grant, now, 1)
    <3>1. CallsLeft(r)' = CallsAfter(now) - (1 - 1) /\ Others
      BY <1>0, <2>2, CallsAt DEF Ended
    <3>2. CallsLeft(r) = CallsAfter(now) + 1 /\ CallsAfter(now) \in Nat
      BY <1>0, <1>6, CallsNow, Attempts DEF RefreshRefused
    <3> QED
      BY <3>1, <3>2
  <2> QED
    BY <1>6, <2>1, <2>2 DEF RefreshRefused
<1>7. CASE Poll(r)
  <2>1. req[r].at = "polling" /\ now < RefreshAttempts /\ req[r].count <= RotationPolls
    BY <1>7 DEF Poll, TypeOK, RequestsOK
  <2>2. /\ CallsLeft(r) = CallsAfter(now) - (req[r].count - 1)
        /\ CallsAfter(now) = CallsAfter(now + 1) + RotationPolls + 1
    BY <1>0, <2>1, CallsNow, Attempts
  <2>3. CallsAfter(now + 1) \in Nat /\ CallsAfter(now + 1) >= 2
    BY <1>0, <2>1, Attempts, StoreCalls, GrantAssumption
  <2>4. CASE Return(r, "revoked")
    BY <1>1, <2>4 DEF Ended
  <2>5. CASE UseOrRefresh(r, row, now + 1)
    <3>1. CASE Goto(r, "refreshing", row, now + 1, 0)
      <4>1. CallsLeft(r)' = CallsAfter(now + 1) + 1 /\ Others
        BY <1>0, <3>1, CallsAt DEF Ended
      <4> QED
        BY <1>0, <2>1, <2>2, <2>3, <4>1, GrantAssumption
    <3>2. CASE Goto(r, "using", row, 0, 0)
      BY <1>2, <2>1, <3>2
    <3> QED
      BY <2>5, <3>1, <3>2 DEF UseOrRefresh
  <2>6. CASE Goto(r, "polling", row, now, req[r].count + 1) /\ req[r].count < RotationPolls
    <3>1. CallsLeft(r)' = CallsAfter(now) - (req[r].count + 1 - 1) /\ Others
      BY <1>0, <2>6, CallsAt DEF Ended
    <3> QED
      BY <1>0, <2>2, <2>3, <2>6, <3>1, GrantAssumption
  <2> QED
    BY <1>7, <2>4, <2>5, <2>6 DEF Poll
<1>8. CASE StoreGrant(r)
  BY <1>1, <1>2, <1>8 DEF StoreGrant, Ended
<1>9. CASE StoreFails(r)
  <2>1. CASE Goto(r, "storing", req[r].grant, 0, req[r].count + 1) /\ req[r].count < StoreAttempts
    <3>1. CallsLeft(r)' = CallsToStore - (req[r].count + 1 - 1) /\ Others
      BY <1>0, <2>1, CallsAt DEF Ended
    <3>2. CallsLeft(r) = CallsToStore - (req[r].count - 1)
      BY <1>9, CallsNow DEF StoreFails
    <3> QED
      BY <1>0, <2>1, <3>1, <3>2, StoreCalls, GrantAssumption
  <2> QED
    BY <1>1, <1>9, <2>1 DEF StoreFails, retry, Ended
<1> QED
  BY <1>3, <1>4, <1>5, <1>6, <1>7, <1>8, <1>9 DEF Continue

\* A request begins with no more calls to make than the code allows.
LEMMA BeginCounts ==
  ASSUME TypeOK, NEW r \in Requests, Begin(r) \/ LinkExchange(r)
  PROVE  /\ req[r].at \in Ended /\ CallsLeft(r)' \in 0 .. MaxCalls
         /\ \A s \in Requests \ {r} : req'[s] = req[s]
<1>0. RequestsOK /\ req[r].at \in Ended
  BY DEF TypeOK, Begin, LinkExchange
<1>1. MaxCalls = CallsAfter(1) + 1 /\ CallsAfter(1) \in Nat
  BY GrantAssumption, Attempts DEF MaxCalls
<1> HIDE DEF NoGrant
<1> DEFINE Others == \A s \in Requests \ {r} : req'[s] = req[s]
<1>2. CASE Return(r, "unlinked")
  BY <1>0, <1>1, <1>2, CallsAtEnd DEF Ended
<1>3. CASE Goto(r, "refreshing", row, 1, 0)
  <2>1. CallsLeft(r)' = CallsAfter(1) + 1 /\ Others
    BY <1>0, <1>3, CallsAt DEF Ended
  <2> QED
    BY <1>0, <1>1, <2>1
<1>4. ASSUME NEW g, NEW phase \in {"using", "linking"}, Goto(r, phase, g, 0, 0)
      PROVE  CallsLeft(r)' \in 0 .. MaxCalls /\ Others
  <2>1. CallsLeft(r)' = 1 /\ Others
    BY <1>0, <1>4, CallsAt DEF Ended
  <2> QED
    BY <1>1, <2>1
<1> QED
  BY <1>0, <1>2, <1>3, <1>4 DEF Begin, UseOrRefresh, LinkExchange

\* resolve.go, refreshAttempts, rotationPolls and tokenStoreAttempts: together
\* they bound the calls of a request, whatever other requests, links, erasures
\* and withdrawals do to the grant it uses; so every handler that goes on ends.
THEOREM BoundsCalls == Spec => CallsBounded
<1> DEFINE Counts == \A r \in Requests : req'[r] # req[r] =>
             CallsLeft(r)' \in 0 .. IF req[r].at \in Ended THEN MaxCalls ELSE CallsLeft(r) - 1
<1>1. TypeOK /\ [Next]_vars => Counts
  <2> SUFFICES ASSUME TypeOK, [Next]_vars, NEW s \in Requests, req'[s] # req[s]
               PROVE  CallsLeft(s)' \in 0 .. IF req[s].at \in Ended THEN MaxCalls ELSE CallsLeft(s) - 1
    OBVIOUS
  <2>1. PICK r \in Requests : Begin(r) \/ LinkExchange(r) \/ Continue(r) \/ Fail(r)
    BY DEF Next, Expire, Withdraw, Erase, vars
  <2>2. CASE Begin(r) \/ LinkExchange(r)
    BY <2>2, BeginCounts
  <2>3. CASE Continue(r) \/ Fail(r)
    <3>1. req[r].at \notin Ended
      BY <2>3 DEF Continue, Fail, RefreshRotates, RefreshAnswerLost, RefreshErrors,
                  RefreshRefused, Poll, StoreGrant, StoreFails, UseToken, LinkStore, Ended
    <3> QED
      BY <2>3, <3>1, ContinueCounts
  <2> QED
    BY <2>1, <2>2, <2>3
<1> QED
  BY <1>1, TypeCorrect, PTL DEF Spec, CallsBounded
-----------------------------------------------------------------------------
(***************************************************************************)
(* The promise of rotationPolls, for requests that do not overlap.         *)
(***************************************************************************)

\* One request or link at a time.
Alone == \A r, s \in Requests : r = s \/ req[r].at \in Ended \/ req[s].at \in Ended

\* The owner has withdrawn a grant, or a request has failed to store one.
Excused == withdrawn # {} \/ lost # {}

\* Without an excuse the grant a request has read stays good until that request
\* itself replaces it, so none finds its access revoked.
Untroubled ==
    \A r \in Requests :
      /\ req[r].at \in {"refreshing", "polling", "using"} => req[r].grant \in live
      /\ req[r].at # "revoked"
AloneInv == Excused \/ Untroubled

\* A request that goes on while the others rest, with a good grant if any.
LEMMA GoesUntroubled ==
  ASSUME RequestsOK, Untroubled, NEW r \in Requests, NEW phase, NEW g, NEW n, NEW c,
         Goto(r, phase, g, n, c), phase # "revoked", phase \in {"refreshing", "polling", "using"} => g \in live',
         \A s \in Requests \ {r} : req[s].at \in Ended
  PROVE  Untroubled'
<1>1. req'[r].at = phase /\ req'[r].grant = g /\ \A s \in Requests \ {r} : req'[s] = req[s]
  BY DEF Goto, RequestsOK
<1> QED
  BY <1>1 DEF Untroubled, Ended

LEMMA AloneStep ==
  ASSUME TypeOK, CarriedInv, RowTraceable, DeadInv, AloneInv, Alone, Alone', [Next]_vars
  PROVE  AloneInv'
<1> SUFFICES ASSUME ~Excused' PROVE Untroubled'
  BY DEF AloneInv
<1>1. withdrawn = {} /\ lost = {} /\ withdrawn' = {}
  <2>1. lost \subseteq lost'
    BY DEF Next, Continue, Begin, LinkExchange, RefreshRotates, RefreshAnswerLost, RefreshErrors,
           RefreshRefused, Poll, UseToken, StoreGrant, StoreFails, retry, LinkStore, Fail,
           Expire, Withdraw, Erase, discord, vars
  <2>2. withdrawn' = withdrawn \/ withdrawn' = 1 .. issued
    BY DEF Next, Continue, Begin, LinkExchange, RefreshRotates, RefreshAnswerLost, Rotate,
           RefreshErrors, RefreshRefused, Poll, UseToken, StoreGrant, StoreFails, LinkStore, Fail,
           Expire, Withdraw, Erase, discord, vars
  <2>3. 1 \in 1 .. issued
    BY GrantAssumption DEF TypeOK, Grants
  <2> QED
    BY <2>1, <2>2, <2>3 DEF Excused
<1>2. Untroubled /\ RequestsOK
  BY <1>1 DEF AloneInv, Excused, TypeOK
<1>3. /\ \A r \in Requests : Carries(r) => req[r].grant \in live
      /\ (\A r \in Requests : ~Carries(r)) => row \in live \cup {NoGrant}
      /\ \A r \in Requests : req[r].at # "polling"
  BY <1>1, <1>2 DEF CarriedInv, CarriedGrantsLive, RowTraceable, DeadInv, Untroubled
<1>4. ASSUME NEW r \in Requests, req[r].at \notin Ended \/ req'[r].at \notin Ended,
             \A s \in Requests \ {r} : req'[s] = req[s]
      PROVE  \A s \in Requests \ {r} : req[s].at \in Ended
  BY <1>4 DEF Alone
<1>5. ASSUME NEW r \in Requests, Begin(r) PROVE Untroubled'
  <2>1. CASE Return(r, "unlinked")
    BY <1>2, <1>5, <2>1 DEF Begin, Return, Goto, Untroubled, RequestsOK, discord
  <2>2. CASE row # NoGrant /\ UseOrRefresh(r, row, 1)
    <3>1. PICK phase \in {"refreshing", "using"} : \E n : Goto(r, phase, row, n, 0)
      BY <2>2 DEF UseOrRefresh
    <3>2. req'[r].at = phase /\ \A s \in Requests \ {r} : req'[s] = req[s]
      BY <1>2, <3>1 DEF Goto, RequestsOK
    <3>3. \A s \in Requests \ {r} : req[s].at \in Ended
      BY <1>4, <3>2 DEF Ended
    <3>4. \A s \in Requests : ~Carries(s)
      BY <1>5, <3>3 DEF Begin, Carries, Ended
    <3>5. row \in live'
      BY <1>3, <1>5, <2>2, <3>4 DEF Begin, discord
    <3> QED
      BY <1>2, <3>1, <3>3, <3>5, GoesUntroubled
  <2> QED
    BY <1>5, <2>1, <2>2 DEF Begin
<1>6. ASSUME NEW r \in Requests, LinkExchange(r) PROVE Untroubled'
  <2>1. /\ req'[r].at = "linking" /\ \A s \in Requests \ {r} : req'[s] = req[s]
        /\ live \subseteq live'
    BY <1>2, <1>6 DEF LinkExchange, Goto, RequestsOK
  <2> QED
    BY <1>2, <2>1 DEF Untroubled
<1>7. ASSUME NEW r \in Requests, Continue(r) PROVE Untroubled'
  <2>0. req[r].at \notin Ended
    BY <1>7 DEF Continue, RefreshRotates, RefreshAnswerLost, RefreshErrors,
           RefreshRefused, Poll, StoreGrant, StoreFails, UseToken, LinkStore, Ended
  <2>1. \A s \in Requests \ {r} : req[s].at \in Ended
    BY <2>0 DEF Alone
  <2>2. ASSUME NEW answer, Return(r, answer), answer \in Ended, answer # "revoked" PROVE Untroubled'
    BY <1>2, <2>1, <2>2, GoesUntroubled DEF Return, Ended
  <2>3. CASE RefreshRotates(r)
    BY <1>2, <2>1, <2>3, GoesUntroubled DEF RefreshRotates
  <2>4. CASE RefreshAnswerLost(r) \/ RefreshErrors(r) \/ LinkStore(r)
    BY <2>2, <2>4 DEF RefreshAnswerLost, RefreshErrors, LinkStore, Ended
  <2>5. CASE RefreshRefused(r)
    BY <1>2, <2>5, RefusedOnlyDead DEF RefreshRefused, Untroubled
  <2>6. CASE Poll(r)
    BY <1>3, <2>6 DEF Poll
  <2>7. CASE StoreGrant(r)
    <3>1. CASE Return(r, "error")
      BY <2>2, <3>1 DEF Ended
    <3>2. CASE Goto(r, "using", req[r].grant, 0, 0)
      <4>1. req[r].grant \in live'
        BY <1>3, <2>7 DEF StoreGrant, Carries, discord
      <4> QED
        BY <1>2, <2>1, <3>2, <4>1, GoesUntroubled
    <3> QED
      BY <2>7, <3>1, <3>2 DEF StoreGrant
  <2>8. CASE StoreFails(r)
    BY <1>2, <2>1, <2>2, <2>8, GoesUntroubled DEF StoreFails, retry, Ended
  <2>9. CASE UseToken(r)
    <3>1. PICK answer \in Ended : Return(r, answer) /\ (answer = "revoked" => req[r].grant \notin live)
      BY <2>9, TokenVerdict DEF DeadInv
    <3>2. req[r].grant \in live
      BY <1>2, <2>9 DEF UseToken, Untroubled
    <3> QED
      BY <2>2, <3>1, <3>2
  <2> QED
    BY <1>7, <2>3, <2>4, <2>5, <2>6, <2>7, <2>8, <2>9 DEF Continue
<1>8. ASSUME NEW r \in Requests, Fail(r) PROVE Untroubled'
  <2>1. /\ req'[r].at = "error" /\ \A s \in Requests \ {r} : req'[s] = req[s]
        /\ live' = live
    BY <1>2, <1>8 DEF Fail, Return, Goto, RequestsOK, discord
  <2> QED
    BY <1>2, <2>1 DEF Untroubled
<1>9. ASSUME UNCHANGED <<req, live>> PROVE Untroubled'
  BY <1>2, <1>9 DEF Untroubled
<1>10. ~Withdraw
  BY <1>1, GrantAssumption DEF Withdraw, TypeOK, Grants
<1> QED
  BY <1>5, <1>6, <1>7, <1>8, <1>9, <1>10 DEF Next, Expire, Erase, discord, vars

\* resolve.go, rotationPolls: the stored grant is read again "before concluding it
\* really is revoked".  The code keeps this in every run in which no two requests
\* and links overlap: there the author is told so only once a grant has been
\* withdrawn, or a rotated one lost; to be told so for nothing takes two requests
\* refreshing at once, which is what the polls are for.
THEOREM RevokedAlone == Spec /\ []Alone => []RevokedMeansRevoked
<1>1. Init => AloneInv
  BY DEF Init, AloneInv, Untroubled
<1>2. TypeOK /\ CarriedInv /\ RowTraceable /\ DeadInv /\ AloneInv /\ Alone /\ Alone' /\ [Next]_vars => AloneInv'
  BY AloneStep
<1>3. AloneInv => RevokedMeansRevoked
  BY DEF AloneInv, Excused, Untroubled, RevokedMeansRevoked
<1> QED
  BY <1>1, <1>2, <1>3, TypeCorrect, CarriedInvariant, RowIsTraceable, DeadInvariant, PTL DEF Spec
=============================================================================
