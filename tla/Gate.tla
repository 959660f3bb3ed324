--------------------------------- MODULE Gate ---------------------------------
(***************************************************************************)
(* The whole gate on one pull request: its check runs (the Action,         *)
(* scripts/), the resolve request each of them makes                       *)
(* (internal/server/resolve.go), and the authors who come back from        *)
(* linking (internal/server/link.go).                                      *)
(*                                                                         *)
(* A check that reports an unlinked author leaves the number of its job    *)
(* for the link that follows to take and re-run.  A resolve reads the      *)
(* account first and leaves the job last, a link stores the account first  *)
(* and takes the job last, and nothing orders the two.  How the comment is *)
(* kept, how a grant is refreshed and how a pull request is closed and     *)
(* opened have modules of their own (SetupComment, Grant, AutoClose): here *)
(* they are single steps.                                                  *)
(***************************************************************************)
EXTENDS Integers, FiniteSets

CONSTANTS Links,           \* the times the author may complete the link flow
          MaxPushes,       \* bound: how many checks pushes start
          MaxChecks,       \* bound: how many checks start, re-runs included
          CloseOnFailure,  \* the values the close-on-failure input takes in its checks
          CommentOnLinked, \* the values the comment-on-linked setting takes
          maxAttempts,     \* how often api.js makes a request at most
          Withdrawn,       \* what resolving reports of an author who was linked
          MayFail,         \* whether calls fail, answers get lost, processes stop
          LinksElsewhere   \* whether the author links from other pull requests, too

ASSUME GateAssumption ==
    /\ MaxPushes \in Nat
    /\ MaxChecks \in Nat \ {0}
    /\ CloseOnFailure \subseteq BOOLEAN /\ CommentOnLinked \subseteq BOOLEAN
    /\ Withdrawn \subseteq {"unlinked", "revoked"}
    /\ maxAttempts \in Nat \ {0} /\ MayFail \in BOOLEAN /\ LinksElsewhere \in BOOLEAN

VARIABLES
    account,  \* the author's connection, as resolving it reports it
    row,      \* whether the pull request has a setup_comments row
    job,      \* its rerun_job_id: the check to run again, or NoJob
    pr,       \* "open"; "closed" by the app, which keeps a record of that; or
              \* "left" closed by it, which never opens what it has no record of
    checks,   \* the check runs, in the order GitHub starts them
    begun,    \* how many of them have started
    pushes,   \* how many of those a push started
    links,    \* the requests that complete the link flow
    crossed   \* history: the account changed beside a check or a link, or elsewhere

vars == <<account, row, job, pr, checks, begun, pushes, links, crossed>>

Checks == 1 .. MaxChecks
NoJob == 0
statuses == {"unlinked", "linked", "revoked"}
NeedsLink == {"unlinked", "revoked"}

\* A check is one job run: a request the server is answering ("start" to
\* "recording"), then the Action acting on the answer.  It reports a status, was
\* told or not that the app has closed the pull request, and may be a re-run of
\* another.  It has asked the server at least once, and has made so many attempts
\* to close or open the pull request that it has to repeat.
Unanswered == {"start", "reading", "syncing", "recording"}
Asking(of, n) == [at |-> "start", status |-> "none", told |-> FALSE, of |-> of, asks |-> n, tries |-> 0]
Started(of) == Asking(of, 1)
Absent == [at |-> "absent", status |-> "none", told |-> FALSE, of |-> NoJob, asks |-> 0, tries |-> 0]
Running(c) == checks[c].at \notin {"absent", "done"}
Quiet == /\ \A c \in Checks : ~Running(c)
         /\ \A l \in Links : links[l].at \in {"idle", "done"}

CheckGoes(c, phase) == checks' = [checks EXCEPT ![c].at = phase]
LinkGoes(l, phase) == links' = [links EXCEPT ![l].at = phase]
StartCheck(of) ==
    /\ begun < MaxChecks
    /\ begun' = begun + 1
    /\ checks' = [checks EXCEPT ![begun + 1] = Started(of)]

Init ==
    /\ account \in {"unlinked", "linked"}
    /\ row = FALSE /\ job = NoJob /\ pr = "open"
    /\ checks = [c \in Checks |-> Absent]
    /\ begun = 0 /\ pushes = 0
    /\ links = [l \in Links |-> [at |-> "idle", job |-> NoJob]]
    /\ crossed = FALSE

-----------------------------------------------------------------------------
(* handleDiscordResolve *)

\* The connection is read, and the user at Discord with it.
ResolveUser(c) ==
    /\ checks[c].at = "start"
    /\ checks' = [checks EXCEPT ![c].at = IF account = "linked" THEN "reading" ELSE "syncing",
                                ![c].status = account]
    /\ UNCHANGED <<account, row, job, pr, begun, pushes, links, crossed>>

\* A linked author's check is told whether the app has closed the pull request:
\* whether it has a record of that, which may not have been deleted, or be read.
ReadAutoClosed(c) ==
    /\ checks[c].at = "reading"
    /\ \E told \in BOOLEAN :
         /\ told = (pr = "closed") \/ MayFail
         /\ checks' = [checks EXCEPT ![c].at = "syncing", ![c].told = told]
    /\ UNCHANGED <<account, row, job, pr, begun, pushes, links, crossed>>

\* The comment is reconciled; a failure is only logged.
SyncSetupComment(c) ==
    /\ checks[c].at = "syncing"
    /\ CheckGoes(c, "recording")
    /\ \/ \E commentOnLinked \in CommentOnLinked :
            row' = (row \/ checks[c].status \in NeedsLink \/ commentOnLinked)
       \/ MayFail /\ UNCHANGED row
    /\ UNCHANGED <<account, job, pr, begun, pushes, links, crossed>>

\* Mutant of recordPendingRerun: never clears the job.
RecordAlways(c) ==
    /\ checks[c].at = "recording"
    /\ CheckGoes(c, "answered")
    /\ job' = IF row THEN c ELSE job
    /\ UNCHANGED <<account, row, pr, begun, pushes, links, crossed>>

\* The job is left for the link that follows, in the row if there is one, or
\* forgotten once the author is linked; then the server answers.  A token that
\* names no check run, which GitHub's do, leaves no job either: a failure here.
recordPendingRerun(c) ==
    /\ checks[c].at = "recording"
    /\ CheckGoes(c, "answered")
    /\ \/ job' = IF ~row THEN job ELSE IF checks[c].status = "linked" THEN NoJob ELSE c
       \/ MayFail /\ UNCHANGED job
    /\ UNCHANGED <<account, row, pr, begun, pushes, links, crossed>>

\* The answer is an error or lost, whatever the server has done: api.js asks
\* again, or the check ends.
AskAgain(c) ==
    /\ MayFail
    /\ checks[c].at \in Unanswered \cup {"answered"} /\ checks[c].asks < maxAttempts
    /\ checks' = [checks EXCEPT ![c] = Asking(@.of, @.asks + 1)]
    /\ UNCHANGED <<account, row, job, pr, begun, pushes, links, crossed>>

GiveUp(c) ==
    /\ MayFail
    /\ checks[c].at \in Unanswered \cup {"answered"}
    /\ CheckGoes(c, "done")
    /\ UNCHANGED <<account, row, job, pr, begun, pushes, links, crossed>>

-----------------------------------------------------------------------------
(* The Action *)

\* resolve.js: the check fails; the pull request closes if the repository asks.
ReportUnlinked(c) ==
    /\ checks[c].at = "answered" /\ checks[c].status \in NeedsLink
    /\ \E closeOnFailure \in CloseOnFailure : CheckGoes(c, IF closeOnFailure THEN "closing" ELSE "done")
    /\ UNCHANGED <<account, row, job, pr, begun, pushes, links, crossed>>

\* rules.js: the repository's own rules pass or fail the linked author, or crash.
\* What the check was told of the pull request is used here, and nowhere later.
EvaluateRules(c) ==
    /\ checks[c].at = "answered" /\ checks[c].status = "linked"
    /\ \E closeOnFailure \in CloseOnFailure :
         \/ checks' = [checks EXCEPT ![c].at = IF closeOnFailure /\ checks[c].told THEN "opening" ELSE "done",
                                     ![c].told = FALSE]
         \/ \E phase \in {IF closeOnFailure THEN "closing" ELSE "notifying", "done"} :
              checks' = [checks EXCEPT ![c].at = phase, ![c].status = "rules_failed", ![c].told = FALSE]
    /\ UNCHANGED <<account, row, job, pr, begun, pushes, links, crossed>>

\* notifyRulesFailed: the comment says that the rules failed the author.
NotifyRulesFailed(c) ==
    /\ checks[c].at = "notifying"
    /\ CheckGoes(c, "done")
    /\ \/ row' = TRUE
       \/ MayFail /\ UNCHANGED row
    /\ UNCHANGED <<account, job, pr, begun, pushes, links, crossed>>

\* api.js: a request to close or open ends the check, or is made again when its
\* answer is an error or lost, whatever the server has done about it.
Requested(c) ==
    {[checks[c] EXCEPT !.at = "done", !.tries = 0]} \cup
    {again \in {[checks[c] EXCEPT !.tries = @ + 1]} : MayFail /\ again.tries < maxAttempts}

\* pull-request.js, closePullRequest, which reports failed rules as well.  The
\* server closes an open pull request and records that; a failure to record it
\* is no error, and any error only a warning of the Action in the end.
ClosePullRequest(c) ==
    /\ checks[c].at = "closing"
    /\ \/ row' = (row \/ checks[c].status = "rules_failed")
       \/ MayFail /\ UNCHANGED row
    /\ \/ pr = "open" /\ pr' = "closed"
       \/ pr = "open" /\ MayFail /\ pr' = "left"
       \/ (pr # "open" \/ MayFail) /\ UNCHANGED pr
    /\ \E next \in Requested(c) : checks' = [checks EXCEPT ![c] = next]
    /\ UNCHANGED <<account, job, begun, pushes, links, crossed>>

\* pull-request.js, openPullRequest; GitHub starts a check of an opened one.  A
\* record that cannot be deleted then is an error, too.
OpenPullRequest(c) ==
    /\ checks[c].at = "opening"
    /\ \E next \in Requested(c) :
         \/ /\ pr = "closed" /\ pr' = "open"
            /\ begun < MaxChecks /\ begun' = begun + 1
            /\ checks' = [checks EXCEPT ![c] = next, ![begun + 1] = Started(NoJob)]
         \/ /\ pr # "closed" \/ MayFail
            /\ checks' = [checks EXCEPT ![c] = next]
            /\ UNCHANGED <<pr, begun>>
    /\ UNCHANGED <<account, row, job, pushes, links, crossed>>

-----------------------------------------------------------------------------
(* handleLinkDiscordCallback *)

\* A comment or a failed check gives the author a link to follow, and a link
\* stays good after its comment has been edited.
LinkOffered ==
    row \/ \E c \in Checks : checks[c].at \in {"closing", "done"} /\ checks[c].status \in NeedsLink

\* LinkGitHubDiscord stores the connection.
LinkGitHubDiscord(l) ==
    /\ links[l].at = "idle" /\ LinkOffered
    /\ account' = "linked"
    /\ crossed' = (crossed \/ (account # "linked" /\ ~Quiet))
    /\ LinkGoes(l, "syncing")
    /\ UNCHANGED <<row, job, pr, checks, begun, pushes>>

\* The comment says linked; a failure is only logged.
SyncAfterLink(l) ==
    /\ links[l].at = "syncing"
    /\ LinkGoes(l, "opening")
    /\ \/ \E commentOnLinked \in CommentOnLinked : row' = (row \/ commentOnLinked)
       \/ MayFail /\ UNCHANGED row
    /\ UNCHANGED <<account, job, pr, checks, begun, pushes, crossed>>

\* Mutant of openAfterLink: leaves an open pull request to the next push.
OpenOnly(l) ==
    /\ links[l].at = "opening"
    /\ \/ /\ pr = "closed" /\ pr' = "open"
          /\ StartCheck(NoJob)
          /\ LinkGoes(l, "clearing")
       \/ /\ pr # "closed" \/ MayFail
          /\ LinkGoes(l, "done")
          /\ UNCHANGED <<pr, checks, begun>>
    /\ UNCHANGED <<account, row, job, pushes, crossed>>

\* Mutant of openAfterLink: runs the job of an open pull request again, and
\* leaves a closed one alone.
RerunOnly(l) ==
    /\ links[l].at = "opening"
    /\ LinkGoes(l, IF pr = "closed" THEN "done" ELSE "taking")
    /\ UNCHANGED <<account, row, job, pr, checks, begun, pushes, crossed>>

\* Mutant of openAfterLink: goes on to run the job again beside the new check.
OpenAndRerun(l) ==
    /\ links[l].at = "opening"
    /\ LinkGoes(l, "taking")
    /\ \/ pr = "closed" /\ pr' = "open" /\ StartCheck(NoJob)
       \/ (pr # "closed" \/ MayFail) /\ UNCHANGED <<pr, checks, begun>>
    /\ UNCHANGED <<account, row, job, pushes, crossed>>

\* openIfAutoClosed: a pull request the app closed opens, and GitHub starts a
\* check of it.  One that stays as it is has its job run again instead, and so has
\* one that opened if openIfAutoClosed returned an error: the answer of GitHub was
\* lost, or the record could not be deleted.
openAfterLink(l) ==
    /\ links[l].at = "opening"
    /\ \/ /\ pr = "closed" /\ pr' = "open"
          /\ StartCheck(NoJob)
          /\ \/ LinkGoes(l, "clearing")
             \/ MayFail /\ LinkGoes(l, "taking")
       \/ /\ pr # "closed" \/ MayFail
          /\ LinkGoes(l, "taking")
          /\ UNCHANGED <<pr, checks, begun>>
    /\ UNCHANGED <<account, row, job, pushes, crossed>>

clearPendingRerun(l) ==
    /\ links[l].at = "clearing"
    /\ LinkGoes(l, "done")
    /\ \/ job' = NoJob
       \/ MayFail /\ UNCHANGED job
    /\ UNCHANGED <<account, row, pr, checks, begun, pushes, crossed>>

\* Mutant of takeRerunJob: reads the job and leaves it.
ReadRerunJob(l) ==
    /\ links[l].at = "taking"
    /\ links' = [links EXCEPT ![l] = [at |-> IF job = NoJob THEN "done" ELSE "rerunning", job |-> job]]
    /\ UNCHANGED <<account, row, job, pr, checks, begun, pushes, crossed>>

\* Mutant of takeRerunJob: goes on when there was none to take.
TakeKeepingPhase(l) ==
    /\ links[l].at = "taking"
    /\ links' = [links EXCEPT ![l] = [at |-> "rerunning", job |-> job]]
    /\ job' = NoJob
    /\ UNCHANGED <<account, row, pr, checks, begun, pushes, crossed>>

\* Mutant of takeRerunJob: waits for a check that has yet to leave its job.
TakeWaiting(l) ==
    /\ links[l].at = "taking" /\ job # NoJob
    /\ links' = [links EXCEPT ![l] = [at |-> "rerunning", job |-> job]]
    /\ job' = NoJob
    /\ UNCHANGED <<account, row, pr, checks, begun, pushes, crossed>>

\* TakeSetupCommentRerunJob clears and returns the job in one statement.
takeRerunJob(l) ==
    /\ links[l].at = "taking"
    /\ links' = [links EXCEPT ![l] = [at |-> IF job = NoJob THEN "done" ELSE "rerunning", job |-> job]]
    /\ job' = NoJob
    /\ UNCHANGED <<account, row, pr, checks, begun, pushes, crossed>>

\* Mutant of rerunAfterLink: asks for the re-run again until GitHub rejects it.
RerunUntilRejected(l) ==
    /\ links[l].at = "rerunning"
    /\ \/ ~Running(links[l].job) /\ StartCheck(links[l].job) /\ UNCHANGED links
       \/ /\ Running(links[l].job) /\ UNCHANGED <<checks, begun>>
          /\ links' = [links EXCEPT ![l] = [at |-> "done", job |-> NoJob]]
    /\ UNCHANGED <<account, row, job, pr, pushes, crossed>>

\* GitHub runs the job again if it has ended, and rejects the request while it
\* runs.  Either way the job has been taken.
rerunAfterLink(l) ==
    /\ links[l].at = "rerunning"
    /\ links' = [links EXCEPT ![l] = [at |-> "done", job |-> NoJob]]
    /\ \/ ~Running(links[l].job) /\ StartCheck(links[l].job)
       \/ (Running(links[l].job) \/ MayFail) /\ UNCHANGED <<checks, begun>>
    /\ UNCHANGED <<account, row, job, pr, pushes, crossed>>

\* The handler's process stops, or it returns on an error.
LinkFails(l) ==
    /\ MayFail
    /\ links[l].at \notin {"idle", "done"}
    /\ links' = [links EXCEPT ![l] = [at |-> "done", job |-> NoJob]]
    /\ UNCHANGED <<account, row, job, pr, checks, begun, pushes, crossed>>

-----------------------------------------------------------------------------
(* The author *)

\* Opening a pull request, or pushing to an open one, starts a check.
Push ==
    /\ pushes < MaxPushes /\ pr = "open"
    /\ pushes' = pushes + 1
    /\ StartCheck(NoJob)
    /\ UNCHANGED <<account, row, job, pr, links, crossed>>

\* The author withdraws the app's access to the Discord account, which is then
\* reported as revoked, or the account is erased, and they are not linked.
Withdraw ==
    /\ account = "linked"
    /\ account' \in Withdrawn
    /\ crossed' = (crossed \/ ~Quiet)
    /\ UNCHANGED <<row, job, pr, checks, begun, pushes, links>>

\* Or links from another pull request of the repository: the connection is that of
\* the author there, the job that of the other pull request.
LinkElsewhere ==
    /\ LinksElsewhere /\ account # "linked"
    /\ account' = "linked"
    /\ crossed' = TRUE
    /\ UNCHANGED <<row, job, pr, checks, begun, pushes, links>>

-----------------------------------------------------------------------------
ServeCheck(c) ==
    \/ ResolveUser(c) \/ ReadAutoClosed(c) \/ SyncSetupComment(c) \/ recordPendingRerun(c)
    \/ ReportUnlinked(c) \/ EvaluateRules(c) \/ NotifyRulesFailed(c)
    \/ ClosePullRequest(c) \/ OpenPullRequest(c)

ServeLink(l) ==
    SyncAfterLink(l) \/ openAfterLink(l) \/ clearPendingRerun(l) \/ takeRerunJob(l) \/ rerunAfterLink(l)

Next ==
    \/ \E c \in Checks : ServeCheck(c) \/ AskAgain(c) \/ GiveUp(c)
    \/ \E l \in Links : LinkGitHubDiscord(l) \/ ServeLink(l) \/ LinkFails(l)
    \/ Push \/ Withdraw \/ LinkElsewhere

Spec == Init /\ [][Next]_vars

\* GitHub runs the jobs it has started, and the server its handlers.  Nothing
\* makes an author push, link or withdraw.
LiveSpec ==
    /\ Spec
    /\ \A c \in Checks : WF_vars(ServeCheck(c))
    /\ \A l \in Links : WF_vars(ServeLink(l))

-----------------------------------------------------------------------------
(***************************************************************************)
(* Properties                                                              *)
(***************************************************************************)

Phases == {"absent", "answered", "notifying", "closing", "opening", "done"} \cup Unanswered
LinkPhases == {"idle", "syncing", "opening", "clearing", "taking", "rerunning", "done"}

ChecksOK ==
    /\ checks \in [Checks -> [at : Phases, status : statuses \cup {"none", "rules_failed"},
                              told : BOOLEAN, of : 0 .. MaxChecks,
                              asks : 0 .. maxAttempts, tries : 0 .. maxAttempts]]
    /\ \A c \in Checks : IF c > begun THEN checks[c] = Absent ELSE checks[c].at # "absent"

LinksOK ==
    /\ links \in [Links -> [at : LinkPhases, job : 0 .. MaxChecks]]
    /\ \A l \in Links : links[l].job # NoJob <=> links[l].at = "rerunning"

\* Every variable has its type, checks start in order, and a link holds a job
\* exactly when it is about to run it again.
TypeOK ==
    /\ ChecksOK
    /\ LinksOK
    /\ account \in statuses
    /\ row \in BOOLEAN
    /\ job \in 0 .. MaxChecks
    /\ pr \in {"open", "closed", "left"}
    /\ begun \in 0 .. MaxChecks
    /\ pushes \in 0 .. MaxPushes
    /\ crossed \in BOOLEAN

\* A check that api.js has not made ask the server again.
AskedOnce(c) == checks[c].asks <= 1

\* A check that found the author not linked is run again at most once for it,
\* however many links complete, however they interleave with checks, and
\* whatever fails: its job is taken once.  Only a check that api.js made ask a
\* second time may leave its job a second time.
RerunsOnce ==
    \A c, d \in Checks :
        checks[c].of # NoJob /\ AskedOnce(checks[c].of) /\ checks[c].of = checks[d].of => c = d

\* Linking runs no check again but one that found the author not linked: never
\* one whose author passed or failed the rules.
RerunsOnlyUnlinked ==
    \A c \in Checks :
        checks[c].of # NoJob /\ AskedOnce(checks[c].of) => checks[checks[c].of].status \in NeedsLink

\* The checks under way, and the links that have gone on to start one or not.
Underway == {c \in Checks : Running(c)}
Served == {l \in Links : links[l].at \in {"clearing", "done"}}

\* What is at work: the checks started so far, those under way, which may yet close
\* or open the pull request, and the check that opening a closed one will start.
Weight == begun + Cardinality(Underway) + (IF pr = "closed" THEN 1 ELSE 0)
Paid == 2 * (pushes + Cardinality(Served))

\* Closing, opening and running again cannot keep one another going: opening a
\* pull request starts a check, which may close it for the next one to open, but as
\* long as no call fails each push and each link pays for two checks at most.
ChecksPaidFor == ~MayFail => Weight <= Paid

\* GitHub has closed or opened the pull request, but whoever asked for that was
\* told of an error or of nothing, and goes on: api.js makes the request again, a
\* link has a job run again beside the check of the opening.
Unheard ==
    /\ pr' # pr
    /\ \/ \E c \in Checks : /\ checks[c].at \in {"closing", "opening"}
                            /\ checks'[c].at = checks[c].at /\ checks'[c].tries # checks[c].tries
       \/ \E l \in Links : links[l].at = "opening" /\ links'[l].at = "taking"

\* With failures there is no such bound, and this is the only reason: a step adds no
\* more than the push or the link it serves pays for, and one more if it is such a
\* closing or opening.
StepsPaidFor == [][Weight' - Weight <= Paid' - Paid + IF Unheard THEN 1 ELSE 0]_vars

\* Nothing that has begun is left waiting, for a job, a check or a link that may
\* never come: unless people go on, every check ends and every link is answered,
\* the checks they start included.
ComesToRest == []<>Quiet

LatestStatus == IF begun = 0 THEN "none" ELSE checks[begun].status

\* The promise of the gate, in the absence of a race: unless the account
\* changed while a check or another link was under way, a linked author's
\* latest check is one that saw the link.
LinkIsFollowedByCheck ==
    account = "linked" /\ begun > 0
      ~> LatestStatus \in {"linked", "rules_failed"} \/ account # "linked" \/ crossed

\* And the pull request of such an author does not stay closed, unless the
\* repository's rules failed the author.
LinkOpens ==
    account = "linked" /\ pr = "closed"
      ~> \/ pr = "open" \/ account # "linked" \/ crossed
         \/ \E c \in Checks : checks[c].status = "rules_failed"

\* What a rest may be asked about: no call has failed, and the account did not
\* change beside a check or another link.
Undisturbed == ~MayFail /\ ~crossed

\* The safety half of LinkIsFollowedByCheck, as far as linkRequiredMessage can be
\* kept: when everything is at rest, a linked author's latest check is not one
\* that reported otherwise - neither a job taken twice nor one overwritten or
\* cleared by another check leaves the author without it.
RestSeesLink ==
    Undisturbed /\ Quiet /\ account = "linked" => LatestStatus \notin NeedsLink

\* The safety half of LinkOpens: at such a rest the app keeps no linked author's
\* pull request closed, unless the rules failed the author.
RestOpens ==
    Undisturbed /\ Quiet /\ account = "linked" /\ pr = "closed"
      => \E c \in Checks : checks[c].status = "rules_failed"

\* resolve.js, linkRequiredMessage: "This check re-runs automatically once they
\* link": when everything is at rest, a linked author's latest check is not one
\* that reported otherwise.
RerunsOnceLinked ==
    Quiet /\ account = "linked" => LatestStatus \notin NeedsLink
=============================================================================
