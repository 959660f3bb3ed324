--------------------------------- MODULE Link ---------------------------------
(***************************************************************************)
(* The browser flow that links a GitHub user to a Discord account          *)
(* (handleLink, handleLinkGitHubCallback, handleLinkDiscord and            *)
(* handleLinkDiscordCallback in internal/server/link.go, LinkGitHubDiscord *)
(* in internal/storage/discord.go).                                        *)
(*                                                                         *)
(* The server keeps nothing between the steps: a sealed state cookie and a *)
(* sealed handoff cookie in the browser carry the attempt.  A browser may  *)
(* have several tabs, so requests overlap and their answers, which set and *)
(* clear the cookies, arrive in any order.                                 *)
(*                                                                         *)
(* Nonces are numbered as newNonce makes them.  A nonce stands for the     *)
(* redirect that carries it: for GitHub the sealed state token, for        *)
(* Discord the state sealed in the handoff cookie.  What the handlers do   *)
(* to the setup comment and the pull request is in SetupComment and Gate.  *)
(***************************************************************************)
EXTENDS Naturals, Sequences

CONSTANTS Browsers,
          Requests,    \* the requests the server may serve at the same time
          Links,       \* the links that resolve has handed out
          Users,       \* GitHub users
          Accounts,    \* Discord accounts
          Repositories,
          Author,      \* the GitHub user each link is for
          Repository,  \* and its repository
          NoAccount, NoBrowser,
          MaxNonces    \* bound: how many nonces the server makes in a run

ASSUME LinkAssumption ==
    /\ Author \in [Links -> Users]
    /\ Repository \in [Links -> Repositories]
    /\ NoAccount \notin Accounts
    /\ NoBrowser \notin Browsers
    /\ MaxNonces \in Nat

VARIABLES
    redirects,   \* per nonce: where it sends a browser, and for which link
    known,       \* nonces of the redirects that have reached their browser
    stateCookie, \* arbiterer_link_state in each browser, by its nonce
    handoff,     \* arbiterer_link in each browser, by its nonce
    connection,  \* github_discord_connections
    req,         \* what each request is about to do
    \* History: no handler reads these.
    proved,      \* the users GitHub has named in callbacks that went on, per browser
    spent        \* nonces of the cookies a callback's answer has cleared

vars == <<redirects, known, stateCookie, handoff, connection, req, proved, spent>>
cookies == <<known, stateCookie, handoff, spent>>

None == 0
Nonces == 1 .. Len(redirects)

Phases == {"idle", "rejecting", "handing", "resuming", "authorizing", "linked"}

\* A request: the browser that sent it, the nonce in its URL, and the nonce of the
\* cookie that it carries or that its answer will set.
Idle == [at |-> "idle", browser |-> NoBrowser, state |-> None, cookie |-> None]

Init ==
    /\ redirects = <<>>
    /\ known = {}
    /\ stateCookie = [b \in Browsers |-> None]
    /\ handoff = [b \in Browsers |-> None]
    /\ connection = [c \in Users \X Repositories |-> NoAccount]
    /\ req = [r \in Requests |-> Idle]
    /\ proved = [b \in Browsers |-> {}]
    /\ spent = {}

Goto(r, phase, b, n, c) ==
    req' = [req EXCEPT ![r] = [at |-> phase, browser |-> b, state |-> n, cookie |-> c]]
End(r) == req' = [req EXCEPT ![r] = Idle]

\* newNonce, and the redirect made under it.
Issue(to, b, l) ==
    /\ Len(redirects) < MaxNonces
    /\ redirects' = Append(redirects, [to |-> to, browser |-> b, link |-> l])
NewNonce == Len(redirects) + 1

\* A browser opens a redirect it knows: its owner has come back from GitHub or
\* Discord, or goes back, reloads, or opens the address in the other browser.
MayCall(r, n, to) ==
    /\ req[r].at = "idle"
    /\ n \in known
    /\ redirects[n].to = to

-----------------------------------------------------------------------------
(***************************************************************************)
(* GET /v1/link and /v1/link/github/callback                               *)
(***************************************************************************)

\* handleLink: a link may be opened any number of times until it expires.  The
\* handler reads no cookie and calls nobody, so it is one step, taken when its
\* answer arrives; an answer that never arrives changes nothing.
OpenLink(b, l) ==
    /\ Issue("github", b, l)
    /\ stateCookie' = [stateCookie EXCEPT ![b] = NewNonce]
    /\ known' = known \cup {NewNonce}
    /\ UNCHANGED <<handoff, connection, req, proved, spent>>

\* handleLinkGitHubCallback: the state must be the one the browser's state
\* cookie was made for, and Exchange and FetchUser must name the link's own
\* author.  Then redirectToDiscord.
GitHubCallback(r, b, n, u) ==
    /\ MayCall(r, n, "github")
    /\ stateCookie[b] = n
    /\ u = Author[redirects[n].link]
    /\ proved' = [proved EXCEPT ![b] = @ \cup {u}]
    /\ Issue("discord", b, redirects[n].link)
    /\ Goto(r, "handing", b, n, NewNonce)
    /\ UNCHANGED <<cookies, connection>>

\* The state does not match or has expired, a call to GitHub fails, or it names
\* another user.
RejectGitHubCallback(r, b, n) ==
    /\ MayCall(r, n, "github")
    /\ Goto(r, "rejecting", b, n, None)
    /\ UNCHANGED <<redirects, cookies, connection, proved>>

\* Mutant of ClearStateCookie: the browser keeps the cookie.
KeepStateCookie(b) ==
    /\ spent' = spent \cup {stateCookie[b]}
    /\ UNCHANGED stateCookie

\* "every path below must consume it": the answer expires the cookie, which by
\* then may be the one of another tab.
ClearStateCookie(b) ==
    /\ stateCookie' = [stateCookie EXCEPT ![b] = None]
    /\ spent' = spent \cup {stateCookie[b]}

AnswerRejected(r) ==
    /\ req[r].at = "rejecting"
    /\ ClearStateCookie(req[r].browser)
    /\ End(r)
    /\ UNCHANGED <<redirects, known, handoff, connection, proved>>

\* Mutant of AnswerIdentified: the handoff cookie keeps GitHub's nonce.
AnswerWithOldNonce(r) ==
    /\ req[r].at = "handing"
    /\ ClearStateCookie(req[r].browser)
    /\ handoff' = [handoff EXCEPT ![req[r].browser] = req[r].state]
    /\ known' = known \cup {req[r].cookie}
    /\ End(r)
    /\ UNCHANGED <<redirects, connection, proved>>

AnswerIdentified(r) ==
    /\ req[r].at = "handing"
    /\ ClearStateCookie(req[r].browser)
    /\ handoff' = [handoff EXCEPT ![req[r].browser] = req[r].cookie]
    /\ known' = known \cup {req[r].cookie}
    /\ End(r)
    /\ UNCHANGED <<redirects, connection, proved>>

-----------------------------------------------------------------------------
(***************************************************************************)
(* GET /v1/link/discord and /v1/link/discord/callback                      *)
(***************************************************************************)

\* Mutant of Resume: the link of the latest redirect, whoever it was made for.
ResumeLatest(r, b) ==
    /\ req[r].at = "idle"
    /\ handoff[b] # None
    /\ Issue("discord", b, redirects[Len(redirects)].link)
    /\ Goto(r, "resuming", b, None, NewNonce)
    /\ UNCHANGED <<cookies, connection, proved>>

\* handleLinkDiscord: the attempt in the handoff cookie, under a new nonce.
Resume(r, b) ==
    /\ req[r].at = "idle"
    /\ handoff[b] # None
    /\ Issue("discord", b, redirects[handoff[b]].link)
    /\ Goto(r, "resuming", b, None, NewNonce)
    /\ UNCHANGED <<cookies, connection, proved>>

AnswerResume(r) ==
    /\ req[r].at = "resuming"
    /\ handoff' = [handoff EXCEPT ![req[r].browser] = req[r].cookie]
    /\ known' = known \cup {req[r].cookie}
    /\ End(r)
    /\ UNCHANGED <<redirects, stateCookie, connection, proved, spent>>

\* Mutant of DiscordCallback: any handoff cookie will do.
DiscordCallbackUnbound(r, b, n) ==
    /\ MayCall(r, n, "discord")
    /\ handoff[b] # None
    /\ Goto(r, "authorizing", b, n, handoff[b])
    /\ UNCHANGED <<redirects, cookies, connection, proved>>

\* handleLinkDiscordCallback up to its checks; a rejected one changes nothing.
DiscordCallback(r, b, n) ==
    /\ MayCall(r, n, "discord")
    /\ handoff[b] = n
    /\ Goto(r, "authorizing", b, n, handoff[b])
    /\ UNCHANGED <<redirects, cookies, connection, proved>>

\* The row that request r is about to write: its key is in the handoff cookie.
Key(r) == LET l == redirects[req[r].cookie].link IN <<Author[l], Repository[l]>>

\* Mutant of Taken: a user who is linked already may take any account.
TakenByNewcomer(r, d) ==
    /\ connection[Key(r)] = NoAccount
    /\ \E c \in Users \X Repositories :
          c # Key(r) /\ c[2] = Key(r)[2] /\ connection[c] = d

\* UNIQUE (discord_user_id, repository_id): another user has account d.
Taken(r, d) ==
    \E c \in Users \X Repositories :
        c # Key(r) /\ c[2] = Key(r)[2] /\ connection[c] = d

\* Exchange and Me name the account d.  LinkGitHubDiscord, one transaction:
\* the account's tokens, which Grant models, and the connection, which replaces
\* the user's earlier one; or neither, when the account is another user's in
\* this repository.
LinkStore(r, d) ==
    /\ req[r].at = "authorizing"
    /\ IF Taken(r, d)
       THEN End(r) /\ UNCHANGED connection
       ELSE /\ connection' = [connection EXCEPT ![Key(r)] = d]
            /\ Goto(r, "linked", req[r].browser, req[r].state, req[r].cookie)
    /\ UNCHANGED <<redirects, cookies, proved>>

\* The answer expires the handoff cookie, which by then may be the one of
\* another tab.
AnswerLinked(r) ==
    /\ req[r].at = "linked"
    /\ handoff' = [handoff EXCEPT ![req[r].browser] = None]
    /\ spent' = spent \cup {handoff[req[r].browser]}
    /\ End(r)
    /\ UNCHANGED <<redirects, known, stateCookie, connection, proved>>

\* A call fails, the process stops, or the answer never arrives: the request
\* ends where it stands and the browser keeps its cookies.
Fail(r) ==
    /\ req[r].at # "idle"
    /\ End(r)
    /\ UNCHANGED <<redirects, cookies, connection, proved>>

-----------------------------------------------------------------------------
(***************************************************************************)
(* Time and the operator                                                   *)
(***************************************************************************)

\* A cookie reaches LinkCookieLifetime.
ExpireStateCookie(b) ==
    /\ stateCookie' = [stateCookie EXCEPT ![b] = None]
    /\ UNCHANGED <<redirects, known, handoff, spent, connection, req, proved>>

ExpireHandoff(b) ==
    /\ handoff' = [handoff EXCEPT ![b] = None]
    /\ UNCHANGED <<redirects, known, stateCookie, spent, connection, req, proved>>

\* The operator deletes an account's data: the connections follow (CASCADE).
Erase(d) ==
    /\ connection' = [c \in Users \X Repositories |->
                        IF connection[c] = d THEN NoAccount ELSE connection[c]]
    /\ UNCHANGED <<redirects, cookies, req, proved>>

-----------------------------------------------------------------------------
\* The steps of a request that has begun.
Continue(r) ==
    \/ AnswerRejected(r)
    \/ AnswerIdentified(r)
    \/ AnswerResume(r)
    \/ \E d \in Accounts : LinkStore(r, d)
    \/ AnswerLinked(r)
    \/ Fail(r)

Send(r, b) ==
    \/ \E n \in Nonces, u \in Users : GitHubCallback(r, b, n, u)
    \/ \E n \in Nonces : RejectGitHubCallback(r, b, n)
    \/ Resume(r, b)
    \/ \E n \in Nonces : DiscordCallback(r, b, n)

Next ==
    \/ \E r \in Requests : Continue(r) \/ \E b \in Browsers : Send(r, b)
    \/ \E b \in Browsers, l \in Links : OpenLink(b, l)
    \/ \E b \in Browsers : ExpireStateCookie(b) \/ ExpireHandoff(b)
    \/ \E d \in Accounts : Erase(d)

Spec == Init /\ [][Next]_vars

-----------------------------------------------------------------------------
(***************************************************************************)
(* Properties                                                              *)
(***************************************************************************)

\* The nonces of redirects to GitHub, or to Discord.
NoncesTo(to) == {n \in Nonces : redirects[n].to = to}

\* Every variable has its type; a cookie holds the nonce of a redirect to the
\* side whose callback reads it.
CookiesOK ==
    /\ stateCookie \in [Browsers -> NoncesTo("github") \cup {None}]
    /\ handoff \in [Browsers -> NoncesTo("discord") \cup {None}]

TypeOK ==
    /\ redirects \in Seq([to : {"github", "discord"}, browser : Browsers, link : Links])
    /\ known \subseteq Nonces
    /\ CookiesOK
    /\ connection \in [Users \X Repositories -> Accounts \cup {NoAccount}]
    /\ req \in [Requests -> [at : Phases, browser : Browsers \cup {NoBrowser},
                              state : Nonces \cup {None}, cookie : Nonces \cup {None}]]
    /\ proved \in [Browsers -> SUBSET Users]
    /\ spent \subseteq Nonces \cup {None}

\* Request r may make a connection under key: its browser has signed in as the
\* key's user, and Discord's consent came back on a redirect that the server made in
\* this very browser for a link of that user and repository.
Earned(r, key) ==
    LET redirect == redirects[req[r].state] IN
    /\ req[r].at = "authorizing"
    /\ redirect.to = "discord" /\ redirect.browser = req[r].browser
    /\ key = <<Author[redirect.link], Repository[redirect.link]>>
    /\ key[1] \in proved[req[r].browser]

\* A connection is only ever made by a browser that proved to be the GitHub
\* user and that was asked for Discord's consent for that very link, however
\* the tabs and browsers of several users are mixed.
ConnectionsEarned ==
    [][\A c \in Users \X Repositories :
          connection'[c] \notin {NoAccount, connection[c]} =>
              \E r \in Requests : Earned(r, c)]_vars

\* A cookie that an answer has cleared is never accepted again, though answers
\* set and clear the cookies in any order.
Accepted(r) == req[r].at \in {"handing", "authorizing"}
SpentForGood ==
    [][\A r \in Requests : Accepted(r)' /\ ~Accepted(r) => req'[r].state \notin spent]_vars

\* Linking, the abstract specification: a browser was asked for consent when a
\* redirect to Discord was made for it.
Asked == {<<redirects[n].browser, redirects[n].link>> : n \in NoncesTo("discord")}
Promise == INSTANCE Linking WITH asked <- Asked

\* The cookies, nonces and callbacks implement what linking promises: a step of
\* any request is a sign-in, one connection for a consent asked for in that very
\* browser, or nothing to the outside.
LinksAsPromised == Promise!Spec

\* README: "one-to-one per repository".  The rows that requests of several users
\* write across each other never give an account two users in a repository.
OneUserPerAccount == Promise!OneUserPerAccount
=============================================================================
