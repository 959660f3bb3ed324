-------------------------------- MODULE Grant --------------------------------
(***************************************************************************)
(* The Discord grant behind one linked account: an access token and a      *)
(* refresh token that Discord replaces on every refresh (accessToken,      *)
(* refreshedAccessToken, readRotatedUser and storeRefreshedGrant in        *)
(* internal/server/resolve.go, the discord_users row in                    *)
(* internal/storage/discord.go).                                           *)
(*                                                                         *)
(* Any number of resolve and member requests may use the account at once,  *)
(* while its owner links it again.  Grants are numbered as Discord issues  *)
(* them; one action is one call to Discord or to the database.             *)
(***************************************************************************)
EXTENDS DiscordClient

CONSTANTS Requests,         \* the requests the server may serve at the same time
          MaxGrants,        \* bound: how many grants Discord issues in a run
          RefreshAttempts,  \* refreshAttempts
          RotationPolls,    \* rotationPolls
          StoreAttempts     \* tokenStoreAttempts

ASSUME GrantAssumption ==
    /\ MaxGrants \in Nat \ {0}
    /\ RefreshAttempts \in Nat \ {0}
    /\ RotationPolls \in Nat \ {0}
    /\ StoreAttempts \in Nat \ {0}

VARIABLES
    issued,    \* the number of the last grant Discord issued
    live,      \* grants whose refresh token Discord accepts
    withdrawn, \* grants of an access the account's owner has withdrawn
    due,       \* grants whose access token has expired, or is about to
    row,       \* the grant stored in discord_users, or NoGrant
    req,       \* what each request is about to do, and the grant it holds
    \* History: no handler reads these.
    parent,    \* the grant each grant was issued to replace
    lost       \* grants whose holder ended before it could store them

vars == <<issued, live, withdrawn, due, row, req, parent, lost>>
discord == <<issued, live, withdrawn, due, parent>>

NoGrant == 0
Grants == 1 .. MaxGrants

Ended == {"idle", "unlinked", "linked", "not_a_member", "revoked", "error"}
Phases == Ended \cup {"refreshing", "polling", "storing", "linking", "using"}

\* A request that has a new grant to store: it alone knows that grant.
Carries(r) == req[r].at \in {"storing", "linking"}

Init ==
    /\ issued = 1
    /\ live = {1}
    /\ withdrawn = {}
    /\ due = {}
    /\ row = 1
    /\ req = [r \in Requests |-> [at |-> "idle", grant |-> NoGrant, attempt |-> 0, count |-> 0]]
    /\ parent = [g \in Grants |-> NoGrant]
    /\ lost = {}

\* The attempt counts refreshes, count the polls or stores made in a phase.
Goto(r, phase, g, attempt, count) ==
    req' = [req EXCEPT ![r] = [at |-> phase, grant |-> g, attempt |-> attempt, count |-> count]]
Return(r, answer) == Goto(r, answer, NoGrant, 0, 0)

-----------------------------------------------------------------------------
(***************************************************************************)
(* accessToken: use the stored access token, or refresh a grant that is    *)
(* within refreshSkew of its expiry.                                       *)
(***************************************************************************)

\* What a request does with the grant g it has read.
UseOrRefresh(r, g, attempt) ==
    IF g \in due THEN Goto(r, "refreshing", g, attempt, 0) ELSE Goto(r, "using", g, 0, 0)

\* Mutant of Begin: refreshes without looking at the expiry.
BeginRefreshing(r) ==
    /\ req[r].at \in Ended
    /\ IF row = NoGrant THEN Return(r, "unlinked") ELSE Goto(r, "refreshing", row, 1, 0)
    /\ UNCHANGED <<discord, row, lost>>

\* DiscordUserByConnection, at the start of a resolve or member request.
Begin(r) ==
    /\ req[r].at \in Ended
    /\ IF row = NoGrant THEN Return(r, "unlinked") ELSE UseOrRefresh(r, row, 1)
    /\ UNCHANGED <<discord, row, lost>>

\* Discord replaces grant g: its refresh token is spent and a new grant issued.
Rotate(g) ==
    /\ issued < MaxGrants
    /\ issued' = issued + 1
    /\ live' = (live \ {g}) \cup {issued + 1}
    /\ parent' = [parent EXCEPT ![issued + 1] = g]
    /\ UNCHANGED <<withdrawn, due>>

\* What Discord may answer to a refresh of grant g that it does not carry out:
\* invalid_grant only of a grant it does not accept, trouble of its own always.
Trouble == {a \in Answers : a.status # 200 /\ (a.code = "invalid_grant" => a.status = 400)}
TroubleWithLive == {a \in Trouble : a.code # "invalid_grant"}

\* The answers that the handler takes for a refusal of the grant, and the others.
Refused(answers) == {a \in answers : refreshRefused(requestToken(a))}
RefusalsOfLive == Refused(TroubleWithLive)
RefusalsOfDead == Refused(Trouble)
ErrorsOfLive == TroubleWithLive \ RefusalsOfLive
ErrorsOfDead == Trouble \ RefusalsOfDead
RefusalsOf(g) == IF g \in live THEN RefusalsOfLive ELSE RefusalsOfDead
ErrorsOf(g) == IF g \in live THEN ErrorsOfLive ELSE ErrorsOfDead

\* Mutant of RefreshRotates: uses the new grant without storing it.
RefreshUnstored(r) ==
    /\ req[r].at = "refreshing" /\ req[r].grant \in live
    /\ Rotate(req[r].grant)
    /\ Goto(r, "using", issued + 1, 0, 0)
    /\ UNCHANGED <<row, lost>>

\* Refresh succeeds; storeRefreshedGrant goes on to store the answer.
RefreshRotates(r) ==
    /\ req[r].at = "refreshing" /\ req[r].grant \in live
    /\ Rotate(req[r].grant)
    /\ Goto(r, "storing", issued + 1, 0, 1)
    /\ UNCHANGED <<row, lost>>

\* Discord rotates the grant, and its answer never arrives or cannot be read.
RefreshAnswerLost(r) ==
    /\ req[r].at = "refreshing" /\ req[r].grant \in live
    /\ Rotate(req[r].grant)
    /\ lost' = lost \cup {issued + 1}
    /\ Return(r, "error")
    /\ UNCHANGED row

\* Any error but invalid_grant: nobody's grant is at fault.
RefreshErrors(r) ==
    /\ req[r].at = "refreshing"
    /\ ErrorsOf(req[r].grant) # {}
    /\ Return(r, "error")
    /\ UNCHANGED <<discord, row, lost>>

\* Mutant of RefreshRefused: no bound on the refreshes.
RefreshRefusedAlways(r) ==
    /\ req[r].at = "refreshing" /\ req[r].grant \notin live
    /\ Goto(r, "polling", req[r].grant, req[r].attempt, 1)
    /\ UNCHANGED <<discord, row, lost>>

\* invalid_grant: spent or withdrawn.  The last attempt answers revoked at
\* once, the others look whether another request has rotated the grant.
RefreshRefused(r) ==
    /\ req[r].at = "refreshing"
    /\ RefusalsOf(req[r].grant) # {}
    /\ IF req[r].attempt >= RefreshAttempts
       THEN Return(r, "revoked")
       ELSE Goto(r, "polling", req[r].grant, req[r].attempt, 1)
    /\ UNCHANGED <<discord, row, lost>>

\* Mutant of Poll: polls until the grant changes.
PollForever(r) ==
    /\ req[r].at = "polling"
    /\ IF row = NoGrant THEN Return(r, "revoked")
       ELSE IF row # req[r].grant THEN UseOrRefresh(r, row, req[r].attempt + 1)
       ELSE UNCHANGED req
    /\ UNCHANGED <<discord, row, lost>>

\* Mutant of Poll: a refresh of the winner's grant counts as the same attempt.
PollUncounted(r) ==
    /\ req[r].at = "polling"
    /\ \/ row = NoGrant /\ Return(r, "revoked")
       \/ row \notin {NoGrant, req[r].grant} /\ UseOrRefresh(r, row, req[r].attempt)
       \/ /\ row = req[r].grant
          /\ IF req[r].count < RotationPolls
             THEN Goto(r, "polling", row, req[r].attempt, req[r].count + 1)
             ELSE Return(r, "revoked")
    /\ UNCHANGED <<discord, row, lost>>

\* readRotatedUser: DiscordUserByID, until the stored grant differs.
Poll(r) ==
    /\ req[r].at = "polling"
    /\ \/ row = NoGrant /\ Return(r, "revoked")
       \/ row \notin {NoGrant, req[r].grant} /\ UseOrRefresh(r, row, req[r].attempt + 1)
       \/ /\ row = req[r].grant
          /\ IF req[r].count < RotationPolls
             THEN Goto(r, "polling", row, req[r].attempt, req[r].count + 1)
             ELSE Return(r, "revoked")
    /\ UNCHANGED <<discord, row, lost>>

\* UpdateDiscordUserTokens: an unconditional UPDATE, so it replaces whatever
\* the row holds; without a row it fails for good.
StoreGrant(r) ==
    /\ req[r].at = "storing"
    /\ IF row = NoGrant
       THEN Return(r, "error") /\ lost' = lost \cup {req[r].grant} /\ UNCHANGED row
       ELSE Goto(r, "using", req[r].grant, 0, 0) /\ row' = req[r].grant /\ UNCHANGED lost
    /\ UNCHANGED discord

\* Mutant of retry: the last failure is only logged.
retryQuietly(r) ==
    IF req[r].count < StoreAttempts
    THEN Goto(r, "storing", req[r].grant, 0, req[r].count + 1) /\ UNCHANGED lost
    ELSE Goto(r, "using", req[r].grant, 0, 0) /\ UNCHANGED lost

\* retry: a store that failed is tried again until tokenStoreAttempts are
\* spent; the error of the last one is the request's.
retry(r) ==
    IF req[r].count < StoreAttempts
    THEN Goto(r, "storing", req[r].grant, 0, req[r].count + 1) /\ UNCHANGED lost
    ELSE Return(r, "error") /\ lost' = lost \cup {req[r].grant}

\* The store reports an error, having written the row or not.
StoreFails(r) ==
    /\ req[r].at = "storing" /\ row # NoGrant
    /\ row' \in {row, req[r].grant}
    /\ retry(r)
    /\ UNCHANGED discord

\* What a request may answer after Me, for a resolve, or GuildMember, for a member
\* request, when Discord answers with one of these statuses.
Verdicts(statuses) ==
    {resolveUser(Me(a)) : a \in {x \in Answers : x.status \in statuses}}
      \cup {writeMember(GuildMember(a)) : a \in {x \in Answers : x.status \in statuses}}
VerdictsOnLive == Verdicts(Statuses \ {401})
VerdictsOnReplaced == Verdicts(Statuses)
VerdictsOnWithdrawn == Verdicts(Statuses \ {200})

\* The access token of grant g: 401 once access is withdrawn, and possibly when
\* the grant has been replaced since.
UseToken(r) ==
    /\ req[r].at = "using"
    /\ \E answer \in IF req[r].grant \in withdrawn THEN VerdictsOnWithdrawn
                     ELSE IF req[r].grant \in live THEN VerdictsOnLive ELSE VerdictsOnReplaced :
          Return(r, answer)
    /\ UNCHANGED <<discord, row, lost>>

-----------------------------------------------------------------------------
(***************************************************************************)
(* handleLinkDiscordCallback, as far as the grant goes                     *)
(***************************************************************************)

\* Exchange: the owner authorizes the app again, which leaves the grants it
\* already has alone.
LinkExchange(r) ==
    /\ req[r].at \in Ended
    /\ issued < MaxGrants
    /\ issued' = issued + 1
    /\ live' = live \cup {issued + 1}
    /\ Goto(r, "linking", issued + 1, 0, 0)
    /\ UNCHANGED <<withdrawn, due, parent, row, lost>>

\* LinkGitHubDiscord: upserts the account's tokens.
LinkStore(r) ==
    /\ req[r].at = "linking"
    /\ row' = req[r].grant
    /\ Return(r, "linked")
    /\ UNCHANGED <<discord, lost>>

\* A call fails, or the process stops: the request ends where it stands, and
\* a grant it had not stored is lost.
Fail(r) ==
    /\ req[r].at \notin Ended
    /\ lost' = IF Carries(r) THEN lost \cup {req[r].grant} ELSE lost
    /\ Return(r, "error")
    /\ UNCHANGED <<discord, row>>

-----------------------------------------------------------------------------
(***************************************************************************)
(* Time, the account's owner and the operator                              *)
(***************************************************************************)

\* An access token lasts days and a request seconds: no grant comes due while
\* a request holds it.
Expire(g) ==
    /\ g \in 1 .. issued
    /\ \A r \in Requests : req[r].grant # g
    /\ due' = due \cup {g}
    /\ UNCHANGED <<issued, live, withdrawn, row, req, parent, lost>>

\* The owner removes the app in Discord's settings.
Withdraw ==
    /\ withdrawn' = 1 .. issued
    /\ live' = {}
    /\ UNCHANGED <<issued, due, row, req, parent, lost>>

\* The operator deletes the account's data on request.
Erase ==
    /\ row' = NoGrant
    /\ UNCHANGED <<discord, req, lost>>

-----------------------------------------------------------------------------
\* The steps a request takes once it has begun.
Continue(r) ==
    \/ RefreshRotates(r)
    \/ RefreshAnswerLost(r)
    \/ RefreshErrors(r)
    \/ RefreshRefused(r)
    \/ Poll(r)
    \/ StoreGrant(r)
    \/ StoreFails(r)
    \/ UseToken(r)
    \/ LinkStore(r)

Next ==
    \/ \E r \in Requests : Begin(r) \/ LinkExchange(r) \/ Continue(r) \/ Fail(r)
    \/ \E g \in Grants : Expire(g)
    \/ Withdraw
    \/ Erase

Spec == Init /\ [][Next]_vars

\* A handler that has begun goes on: its calls carry a timeout and return.
Fairness == \A r \in Requests : WF_vars(Continue(r))

FairSpec == Spec /\ Fairness

-----------------------------------------------------------------------------
(***************************************************************************)
(* Properties                                                              *)
(***************************************************************************)

\* Only a request that is under way holds a grant, and it makes no more
\* refreshes, polls or stores than the code allows.
RequestsOK ==
    /\ req \in [Requests -> [at : Phases, grant : 0 .. issued,
                             attempt : 0 .. RefreshAttempts, count : Nat]]
    /\ \A r \in Requests :
         /\ req[r].at \in Ended <=> req[r].grant = NoGrant
         /\ req[r].at = "polling" => req[r].count <= RotationPolls
         /\ req[r].at = "polling" => req[r].attempt < RefreshAttempts
         /\ req[r].at = "storing" => req[r].count <= StoreAttempts

\* Every variable has its type.
TypeOK ==
    /\ issued \in Grants
    /\ live \subseteq 1 .. issued
    /\ withdrawn \subseteq 1 .. issued
    /\ due \subseteq 1 .. issued
    /\ lost \subseteq 1 .. issued
    /\ row \in 0 .. issued
    /\ parent \in [Grants -> 0 .. MaxGrants]
    /\ RequestsOK

\* No request overwrites the only copy of a grant another request is about to
\* store, nor spends it: a grant under way to the database is good unless its
\* owner withdrew it.
CarriedGrantsLive == \A r \in Requests : Carries(r) => req[r].grant \in live \cup withdrawn

\* "Losing this write costs the user their grant" (resolve.go): a stored grant
\* that Discord no longer accepts was withdrawn by its owner, or its successor
\* is under way to the database, or the successor's holder failed.
RowTraceable ==
    row \notin {NoGrant} \cup live \cup withdrawn =>
        \E g \in Grants :
            /\ parent[g] = row
            /\ g \in lost \/ \E r \in Requests : Carries(r) /\ req[r].grant = g

\* A write to the row never replaces a grant that Discord accepts by one that
\* it does not, but for a grant its owner withdrew.
NeverOverwritesUsable ==
    [][row' \notin {NoGrant, row} /\ row \in live => row' \in live' \cup withdrawn']_vars

\* No request calls a grant revoked that Discord accepts: not when Discord limits
\* it, is down or answers nonsense.  Of a grant that another request has replaced
\* meanwhile, which Discord accepts no longer, this says nothing: whether its
\* reader finds the new one is the matter of RevokedMeansRevoked.
NeverRevokesUsable ==
    [][\A r \in Requests : req[r].at # "revoked" /\ req'[r].at = "revoked" =>
          req[r].grant \notin live]_vars

\* Custody, the abstract specification of where a grant may be.
Hands == {req[r].grant : r \in {s \in Requests : Carries(s)}}
Held == INSTANCE Custody WITH hands <- Hands

\* Whatever requests overlap, fail and retry, a grant that Discord issues goes to
\* one pair of hands, and from there to the row or is lost; nothing else ever
\* changes the row but an erasure.
KeepsCustody == Held!Spec

\* Every request ends, whatever the other requests do to the grant it uses.
RequestsEnd == \A r \in Requests : req[r].at \notin Ended ~> req[r].at \in Ended

\* The calls a request may still make: each refresh but the last may be followed
\* by rotationPolls reads, and a grant that was refreshed is stored and used.
CallsToStore == StoreAttempts + 1
CallsAfter(attempt) == (RefreshAttempts - attempt) * (RotationPolls + 1) + CallsToStore
MaxCalls == CallsAfter(1) + 1
CallsLeft(r) ==
    CASE req[r].at \in Ended -> 0
      [] req[r].at \in {"using", "linking"} -> 1
      [] req[r].at = "storing" -> CallsToStore - (req[r].count - 1)
      [] req[r].at = "polling" -> CallsAfter(req[r].attempt) - (req[r].count - 1)
      [] req[r].at = "refreshing" -> CallsAfter(req[r].attempt) + 1

\* No request makes more calls than that, however often other requests, links and
\* erasures change the grant under it, and none but its own steps count: what
\* RequestsEnd rests on.
CallsBounded ==
    [][\A r \in Requests : req'[r] # req[r] =>
          CallsLeft(r)' \in 0 .. IF req[r].at \in Ended THEN MaxCalls ELSE CallsLeft(r) - 1]_vars

\* resolve.go, rotationPolls: a losing refresh re-reads the stored grant
\* "before concluding it really is revoked".
RevokedMeansRevoked ==
    \A r \in Requests : req[r].at = "revoked" => withdrawn # {} \/ lost # {} \/ row = NoGrant
=============================================================================
