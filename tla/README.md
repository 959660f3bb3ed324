# A specification of Arbiterer

Arbiterer is a GitHub Action (`src/scripts/`) and a Go service (`src/internal/`) that
let a repository require the authors of pull requests to link their GitHub account to
a Discord account, and to pass rules about that account. This directory holds TLA+
modules of the service's protocols, TLC configurations that check them on small
instances, and TLAPS proofs of their main invariants for every size.

Nearly everything that is hard about this program happens *between* calls: a handler
reads a row, calls GitHub or Discord, and writes a row, with no lock and no
transaction around the three, while other handlers, people on GitHub and the author's
browser act. So each module is one protocol, with one action per external call (HTTP or
SQL), and everyone else may act between any two of them.

## Inventory

| Part | State | Operations | Interacts with | What is hard | What makes it correct |
|---|---|---|---|---|---|
| Check run: `scripts/*.js` | the job, the answer it got | resolve, then close, or rules and open/passed/rules-failed | the service, by `api.js` (retried POST) | a retry of an answered request; acting on an old answer | every verdict is applied once, to the pull request it is about |
| Resolve: `server/resolve.go` | none of its own | read the connection, use the grant, sync the comment, store run and job | Discord, GitHub, all tables | the job is stored last | an author who links gets a check that sees it |
| Discord grant: `server/resolve.go`, `storage/discord.go` | `discord_users` | use, refresh, poll, store | Discord replaces the refresh token on each refresh | two refreshes of one grant; crash between refresh and store | the only copy of a grant is never lost without cause |
| Account linking: `server/link.go` | two sealed cookies in the browser; `github_discord_connections` | five GET requests | GitHub and Discord OAuth, the setup comment, the gate | tabs share cookies; repeated callbacks; answers out of order | who is connected proved to be who they are, in that browser |
| After a link: `server/link.go` | `setup_comments.rerun_job_id` | open the pull request, or take and rerun the job | GitHub | races the check that stores the job | one rerun for each check that asked for a link |
| Auto-close: `server/pull_request.go` | `auto_closed_pull_requests` | close, open, passed | GitHub, people | read, compare, PATCH is not atomic | opens what it closed, and nothing else |
| The author heard: `server/webhook.go` | none | a comment's webhook compares the close it was sent with the record | auto-close, recheck | the payload is older than the record, or newer | a close of the app's own lets the author's recheck through |
| Setup comment: `server/comment.go` | `setup_comments`; the comment at GitHub | sync, notify passed, notify rules failed | every other part | read, edit, store is not atomic; people delete comments | one comment, that shows what the row says |
| Recheck: `server/webhook.go`, `storage/run.go` | `pull_request_runs.last_recheck_at` | take, start, release, react | GitHub webhooks | release after failure; lost answers; cancelled requests | one recheck per cooldown, and failures are free |
| Clients: `internal/github`, `internal/discord` | none | one HTTP call each; status and body become a value or an error | every handler | errors that look alike mean different things | only the right error says "revoked", "not a member" or "deleted" |
| Marketplace webhook, OIDC verifier, sealer, config, lifecycle, migrations, routing | none, or set once | single calls | | | not modelled, see below |

The hazards of this code, each with its line and the properties that watch it, are in
`PROJECT.json`.

## Modules

Each `MCx` module only names model values, small sets and symmetry for TLC; each
`xProofs` module extends `x`. A handler is a request with a phase; the phase says which
call comes next. A definition named *Mutant of A* in a module is a plausible bug in A;
each property is known to fail under one of them (`mutants` in `PROJECT.json`). Variables marked
*History* record the past for the properties, and no handler's guard reads them.

**AutoClose** — the close handler (`CloseLoads`, `CloseAtGitHub`, `RecordClose`) and
`openIfAutoClosed` (`OpenReadsRecord`, `OpenLoads`, `OpenAtGitHub`, `ForgetClose`), with
`PersonCloses` (merging included) and `PersonReopens` at any point. `closed_at` has
GitHub's whole seconds, so two closes may share one. `Fail` ends a request before any
call, as every error branch and a process stop do. A request in `Webhooks` may instead be
the author's recheck command (`ReceiveCommand`, `LookUpClose`, `EndRecheck`): on a closed
pull request it is heard only if the close in its payload is the one on record. What a
command that is heard goes on to do is `Recheck`.

**Grant** — `accessToken` to `storeRefreshedTokens`. Grants are numbered as Discord
issues them; `row` is the stored one. `RefreshRotates` and `RefreshAnswerLost` spend the
grant at Discord; `Poll` is `readRotatedUser`; `StoreGrant` and `StoreFails` the UPDATE
retried by `retry` (it may have been applied although it reports an error); `UseToken` is
the lookup of the user or of the guild member that a request was for. The author may link
again, withdraw access or be erased. Access tokens outlive a request, so a grant does
not expire in a request's hands (`Expire`).

**DiscordClient** and **GitHubClient** — what the clients make of an answer: its status
and how much of its body can be used become a value or an error, with the types that
`errors.As` finds, and the handlers' own tests (`refreshRefused`, `resolveUser`,
`writeMember`; `commentDeleted` in SetupComment) read that error. Grant and SetupComment
draw their answers from these modules, not from a list of outcomes.

**Custody** — the abstract specification of a grant: told to one pair of hands, then
stored or lost. Grant implements it with `hands` the grants its requests carry.

**SetupComment** — `sync`, `notifyPassed` and `notifyRulesFailed` are one handler asked
for different statuses. A comment's body is the status it shows. `UpdateComment` and
`CreateComment` take an answer of GitHub and do what the handler does with it: an edit
that was carried out may still look like a failure, and only a 404 means a deleted
comment.

**Gate** — the composition seen from one pull request: checks, resolves and links. Grant,
SetupComment and AutoClose appear in it as single steps, so that it can have several
checks, reruns and links; whether the account is linked is what resolving it reports. The
verdict of the rules is a choice. `AskAgain`, `GiveUp` and `Requested` are `api.js`: a
resolve, close or open whose answer was an error or lost is made again, whatever the
server had done about it, and the second attempt finds what others did in between.
`openAfterLink` has both of its failures: the pull request stayed closed, or it opened and
GitHub's answer or the deletion of the record failed; either way the link goes on to run
the job again. A pull request that the app closed without a record of it is `"left"`:
nothing of the app's opens it. Only links completed through this pull request take its
job; `LinkElsewhere` is one that the author completes through another, which changes the
account and nothing else here, and counts as `crossed`. A job without a check run number,
which GitHub's tokens do not lack, is taken for a failure to store it. `LinkOffered` lets
a link complete whenever a check has offered one, however old: an over-approximation of
the tokens' lifetimes.

**Recheck** — `recheckPullRequest` with the SQL of `storage/run.go`: `TakeRun` takes run
and cooldown in one statement, `ReleaseRun` compares nothing but the row. `ctx` is the
webhook request's context: once it is cancelled every later call fails. `Timeout` bounds
what a handler's calls take, below the cooldown, as the 5 minutes of the code and the
clients' timeouts make it.

**Link** — the browser flow. A nonce stands for the redirect it was made for, since
nobody but the server can seal a state or a cookie. A cookie is written when the answer
arrives, not when the handler runs, and answers of several tabs arrive in any order or
not at all. Handlers that read no cookie and call nobody (`handleLink`) are one step, at
the moment of the answer. Exchange and user requests touch no shared state, so they are
part of the step that uses what they return. A callback may be repeated, or opened in
another browser. Known addresses never expire in the model: the rejection of an expired
one is `RejectGitHubCallback`, and an expired handoff cookie is gone (`ExpireHandoff`).

**Linking** — the abstract specification of the flow, without cookies, nonces or tabs:
sign in, connect what was asked for in that browser, erase. Link implements it; its
`asked` is the set of redirects Link has made to Discord.

## Runs

| Run | Instance | What it shows |
|---|---|---|
| `autoclose` | 3 requests, one of them a comment's webhook at will, 3 seconds | the app takes for its own only closes that fell in a claimable second; loses the record of a close only to a failed or overlapping request; overrides a person only in that race; ignores its own pull request's author only while, or because, the close is not on record; opens what it closed |
| `grant` | 2 requests, 4 grants, 3/2/2 attempts | a grant under way to the row is live; a dead row has a successor under way or lost; no write replaces a usable grant by a dead one; no answer of Discord makes a request call a usable grant revoked; every request ends, within the calls its limits allow; Grant implements Custody |
| `comment` | 2 syncs, 3 comments, a request to the author, a verdict and both settled statuses, every answer of GitHub | body and row agree unless edits crossed; a passing check never posts; an ask is never stored without being shown; strays need a race |
| `gate_safety` | 2 links, 3 checks (1 pushed), 2 attempts, failures, access withdrawn by erasure; linked authors get a comment (`gate_live` has both settings, and both withdrawals) | a check is rerun at most once, and only if it found its author unlinked; a step adds no more checks than its push or link pays for, but for a closing or opening whose success goes unheard |
| `gate_live` | 2 links and links from other pull requests, 1 push, 6 checks, no failures | everything begun comes to rest; without a race a linked author gets a check that saw the link, and an open pull request, and has both whenever everything rests; a push or a link accounts for two checks at most |
| `recheck` | 3 commands, 5 ticks, cooldown 3 | successful rechecks are a cooldown apart; a cooldown left over was earned, or its release failed |
| `link` | 2 browsers, 2 users with a link each, 2 Discord accounts, 2 overlapping requests, 4 nonces | only a browser that signed in as the user and was asked for that link connects an account; a cleared cookie is never accepted again; an account never has two users; Link implements Linking |

Five runs end in a violation, each of something a doc or comment of the repository
says, by what the code does (see `findings`):

| Run | Said | Done |
|---|---|---|
| `autoclose_override` | never reopens a pull request closed by anyone else | a person's close between the handler's read and its PATCH is taken for the app's, or undone |
| `grant_revoked` | a losing refresh re-reads before concluding the grant is revoked | the polls run out while the winner still stores |
| `comment_asked` | a settled author's earlier comment is rewritten | crossed edits leave the comment asking, the row settled |
| `gate_lost` | the check re-runs automatically once they link | a link that completes during a resolve finds no job |
| `recheck_kept` | a failed start can be retried immediately | with a cancelled webhook the release fails too |

### Why these bounds

A race in this code is between two requests, and a third to come back and notice it:
`autoclose` and `recheck` have three actors, of which one webhook suffices in `autoclose`
since commands write nothing there. `grant` has two requests that may each begin anew
after they end, so several act on one row over time; four grants are a first one, two
refreshes and a link. Two syncs suffice for `comment`: a sync that has returned may begin
again. Its asks are one of each kind the code tells apart (`revoked` and `github_verified`
are handled as `unlinked` is); the proofs are about all of them. `recheck` has one stored
run, and its proofs any number. `gate_safety` needs a check, its rerun and one that an
opening starts beside them; the proofs of its four properties are for any number. The next
check that GitHub would start waits there for room, as it does not in the code: with
failures no bound leaves enough. `gate_live` bounds pushes rather than reruns: its six
checks are two for its push and each of its two links, and `RoomToStart` proves that such
a bound never keeps a check from starting as long as no call fails, which none does in
that run. `link` needs four nonces for two complete attempts side by side, and two
accounts so that a user can move to one that is taken. Where a run has symmetry it checks
no liveness. `recheck` turns deadlock checking off: all its commands are answered once and
the clock stops at its bound, as do `gate_safety`, `gate_live` and the other
configurations that say so, whose checks, pushes and links are used up.

### Fairness

`FairSpec` of AutoClose and Grant, and `LiveSpec` of Gate, are weakly fair only for
the steps of a handler or job that has begun: the clients set timeouts, so each call
returns, and handlers never wait for one another. Nothing makes a person push, link,
close or come back, no call is assumed to succeed in AutoClose and Grant, and no
request is assumed to start. `gate_live` runs without failures, since the code gives
up a rerun whose call fails (it logs it): with failures the promise does not hold.

## Proofs

For every value of the constants, by TLAPS:

- **AutoClose**: `TypeOK`; `OnlyClaimable`, which is inductive with the types;
  `OverridesOnlyARace` from it; and `AppCloseRemembered`. The latter needs
  `RememberedInv`: while the app's close holds with no failure and no overlap, every
  request about to record carries that close; once none is, the row holds it, and no
  request is about to delete the row or compares with an older close. `OwnCloseHeard` is
  `AppCloseRemembered` read at the step that drops a command.
- **Grant**: `TypeOK`; `CarriedGrantsLive` through `CarriedInv` (two requests never
  carry one grant, a carried grant is not due for a refresh, and only a due grant is
  refreshed); `NeverOverwritesUsable` and `RowTraceable` follow with it.
  `NeverRevokesUsable` needs `DeadInv` (a grant that is polled for was refused, and what
  Discord has stopped accepting it never accepts again) and lemmas on `DiscordClient`: no
  answer to a live grant is read as a refusal. `KeepsCustody` is a step simulation, one
  case per action of Grant, under `CarriedInv`: the initial states and every step map to
  an initial state, a step or a stutter of Custody. `CallsBounded` is the safety half of
  `RequestsEnd`: `CallsLeft` weighs a refresh with all the polls that may follow it, so a
  step that goes from a lost race to a new refresh still comes out smaller, and nothing
  that others do to the grant adds to it.
- **SetupComment**: `TypeOK` through `TypeInv`, which adds that a sync edits the comment
  of the row it read, and leaves it for a new one only once it is deleted.
  `BodyMatchesStored` through `BodyInv`: the comment a sync is about to store shows that
  sync's status, and no two syncs are about to store one comment, unless it is blurred or
  deleted. `PassingNeverPosts`, `AskIsShown` and `StraysNeedARace` follow from `TypeInv`,
  with a lemma on what `GitHubClient` makes of each answer.
- **Recheck**: `TypeOK`; `TakesSpaced` and `CooldownEarned` through `CooldownInv`: one
  command at a time is at work on a run, the cooldown is its own and nobody took a run
  after it; the cooldown of a command told of a start is still on the row, or was over
  when the next one took the run; and a cooldown on the row is that of a command at work,
  of one whose run GitHub started, or of one that could not give it back. This is where
  `Timeout < recheckCooldown` is used.
- **Gate**: `TypeOK`; `RerunsOnce` and `RerunsOnlyUnlinked` through `JobInv`: the job of
  a check that asked once is in one place: not stored yet, in the row, in the hands of
  one link, or run again. The two properties read off the last place. Calls may fail.
  `RestSeesLink` and `RestOpens` (no failed call, no crossed change of the account) need
  `RestInv`, which has two halves. Until the author is linked no link and no check that saw
  one is under way, and a latest check that found the author unlinked has left a row and,
  once it has answered, a job, its own or an earlier check's that ended later. After the
  link no check that found otherwise is under way, a latest one that is still owed a
  rerun has a link about to run a job again, and a closed pull request one about to open
  it. At rest nothing is under way. `ChecksPaidFor` is a potential: checks begun, checks
  under way and a closed pull request on one side, two for each push and each served link
  on the other. A closing spends the check that closes, an opening the closing; only a
  push or a link that is served adds. This holds as long as no call fails; the bound on
  the checks in a run, which the code does not have, follows from it then
  (`RoomToStart`). With failures it does not hold: the check whose closing went unheard
  closes again, the link whose opening went unheard runs the job again as well.
  `StepsPaidFor` says that this is all: every step keeps the account, whatever fails,
  but for one more where a closing or opening goes unheard (`StepPays`), and such a step
  takes a failed call (`Heard`).
- **Link**: `TypeOK`, and `ConnectionsEarned` through `AttemptInv`: whatever carries a
  nonce towards the Discord callback (a handoff cookie, an answer that will set one, a
  callback under way) carries one the server made for that browser after the link's own
  user had signed in there. `SpentForGood` through `FreshInv`: no cookie that a browser
  holds or an answer is about to set has been cleared, no nonce is in two places, and a
  state cookie belongs to the browser that holds it. `LinksAsPromised` is the step
  simulation of Linking under `AttemptInv`, and `OneUserPerAccount` is inductive with it.

Four of the promises that a run refutes are proved for the behaviours without the race
or failure that refutes them, so that there is no other way to break them. The hypotheses
are about the behaviour (in Recheck, about `Failures`), and each leaves failures, crashes
and what people do as they are except for what it names:

| Theorem | Hypothesis | What then holds |
|---|---|---|
| `NeverReopensWithoutARace` (AutoClose) | nobody closes the pull request between a handler's read and its PATCH, nor in a second whose close the app may claim | `NeverReopensOthersClose`, with any number of racing and failing requests: a person's close in force is never claimable (`ForeignInv`) |
| `RevokedAlone` (Grant) | no two requests or links of the account overlap | `RevokedMeansRevoked`: the grant that a request has read stays good until that request replaces it (`Untroubled`), or one was withdrawn or lost |
| `RetryableUnlessCancelled` (Recheck) | a call fails only when its request was given up on | `FailedStartFree`, or the cooldown is of a command that was given up on (`KeptInv`) |
| `OneCommentAlone` (SetupComment) | syncs do not overlap, and each stores what it did | `SettledAuthorNotAsked`, and one live comment at most: a sync works on the row as it is (`AloneInv`) |

For the fifth, `RerunsOnceLinked`, `RestSeesLink` plays that part, for the one pull
request that Gate is about: the author's link is one completed through that pull request.
The connection is per user and repository, so a link through another of their pull
requests changes the account as well, and takes the other one's job, not this one's: the
check here is then not run again, by what the code does. `crossed` excludes it, in
`RestOpens`, `LinkIsFollowedByCheck` and `LinkOpens`, too.

The assumptions are otherwise the named ASSUMEs of the modules, which TLC evaluates on each
run.

Only model-checked: the leads-to properties (`RequestsEnd`, `OpensWhatItClosed`,
`LinkIsFollowedByCheck`, `LinkOpens`, `ComesToRest`: liveness under fairness is out of the
prover's reach, and `CallsBounded`, `RestSeesLink`, `RestOpens`, `ChecksPaidFor` and
`StepsPaidFor` are the safety halves that could be proved) and the five violations. Every
invariant and action property of the passing runs is a theorem.

## Known races that are not runs of their own

The models have these behaviours; the properties above say how far the damage goes.

- A close and an open request that cross lose the record of the app's close although no
  call fails (`AppCloseRemembered` excuses it as `overlap`).
- Two first syncs post two comments (`StraysNeedARace`).
- A recheck whose answer is lost is released, so that a second start within the
  cooldown is possible; commands that were *told* of a start stay apart (`TakesSpaced`).
- A check that found its author unlinked may close the pull request after the link
  opened it (`LinkOpens` excuses it as `crossed`).
- A close whose answer was lost is repeated, and may close again what a link has opened
  meanwhile; an open that GitHub carried out but whose record could not be deleted is an
  error, so the Action asks again, and a link runs the job again beside the check that the
  opening started (`StepsPaidFor` counts each as `Unheard`).
- A link through one pull request leaves the checks of the author's other pull requests as
  they are, until the next push there (`crossed`).
- The answer of a finished link clears the handoff cookie of an attempt begun meanwhile
  in another tab of the same browser, which then has to start again. Likewise any
  answered GitHub callback clears another tab's state cookie.

## Not modelled

- Rules and member lookups: repository-supplied JavaScript; a verdict in Gate.
- Wording, Markdown and URLs (`formatCommentBody`, `rulesLines`, `workflowFile`): no
  property is about them yet.
- `exemptAssociations`, a missing app and other paths that end a check before it calls the service,
  or that skip it: they leave all modelled state alone.
- Timed-out attempts of `api.js` that still run in the server beside their retry.
- Signatures, OIDC and sealing, taken for what they guarantee.
- The clients beyond the calls whose failures are told apart: one request, which takes
  effect, fails, or takes effect with its answer lost.
- Redelivered webhooks: to Recheck they are further commands. The marketplace webhook
  forwards a notification and keeps nothing.
- The deployment scripts' rollback: sequential shell, outside the service.
- Several pull requests of one author side by side: Gate has one, and of the others only
  that links through them change the account (`LinkElsewhere`).
- Migrations, configuration, repository scripts.

## Plan

Done: the five protocols and the linking flow above, in the order of what an author
would lose if they were wrong; the clients where their errors decide something; Linking
and Custody with their refinements; the proofs. Next, in this order:

1. `Action`: `api.js` and the scripts as an at-least-once client with attempts that
   outlive their timeout, composed with the handlers.
2. An atomic close/open that AutoClose implements when requests do not overlap, and the
   steps that Gate takes in one; what Gate keeps at rest in runs whose failures are over,
   with the failure recorded per check rather than excluded by a constant.
3. `RunOrder`: `recordPullRequestRun` under pushes that finish out of order, with Recheck.
4. Pure operators (`isRecheckCommand`, `workflowFile`, `sameClosedAt` parsing) against
   reference definitions, in one run.
