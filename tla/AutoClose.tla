------------------------------ MODULE AutoClose ------------------------------
(***************************************************************************)
(* One pull request that Arbiterer closes when a check fails and opens     *)
(* again when a later check passes (internal/server/pull_request.go and    *)
(* internal/storage/pull_request.go), and the recheck commands of its      *)
(* author, which a closed one takes only if Arbiterer closed it            *)
(* (internal/server/webhook.go; Recheck has the rest of the command).      *)
(*                                                                         *)
(* Every request is a sequence of calls to GitHub and to the database, one *)
(* action per call: between two calls any other request, and any person on *)
(* GitHub, may act.  A request whose call fails returns at once, as every  *)
(* error branch of the handlers does; a stop of the process ends it the    *)
(* same way.                                                               *)
(***************************************************************************)
EXTENDS Naturals

CONSTANTS Requests,   \* the requests the server may serve at the same time
          Webhooks,   \* those of them that may be a comment's webhook as well
          MaxClock    \* bound: the last second of the run

ASSUME ClockAssumption == MaxClock \in Nat \ {0}
ASSUME WebhookAssumption == Webhooks \subseteq Requests

VARIABLES
    clock,    \* GitHub's clock, in the whole seconds of its closed_at
    pr,       \* the pull request at GitHub
    record,   \* closed_at of its auto_closed_pull_requests row, or Never
    req,      \* what each request is about to do, and the time it holds
    \* History: no handler reads these.
    claimable, \* seconds of the closes by the app, or made under a handler's feet
    overlap,   \* the app's last close ran into another request
    failed     \* a request was cut short since the app's last close

vars == <<clock, pr, record, req, claimable, overlap, failed>>

Never == 0
Times == 0 .. MaxClock
Phases == {"idle", "closing", "recording", "loading", "opening", "forgetting",
           "looking", "rechecking"}
Idle == [at |-> "idle", closedAt |-> Never]

\* The pull request as GitHub keeps it once somebody has opened or closed it.
OpenedBy(who) == [state |-> "open", merged |-> FALSE, closedAt |-> Never, by |-> who]
ClosedBy(who, merge) == [state |-> "closed", merged |-> merge, closedAt |-> clock, by |-> who]

At(r, phase) == req[r].at = phase

\* A handler that has read the pull request and is about to change its state.
Deciding == \E r \in Requests : At(r, "closing") \/ At(r, "opening")

\* Another request than r that may still write the record: one that opens,
\* or a close that has not recorded its own close yet.
Crossing(r) ==
    \E s \in Requests \ {r} :
        req[s].at \in {"recording", "loading", "opening", "forgetting"}

Init ==
    /\ clock = 1
    /\ pr = OpenedBy("person")
    /\ record = Never
    /\ req = [r \in Requests |-> Idle]
    /\ claimable = {}
    /\ overlap = FALSE
    /\ failed = FALSE

Goto(r, phase, time) == req' = [req EXCEPT ![r] = [at |-> phase, closedAt |-> time]]
Return(r) == req' = [req EXCEPT ![r] = Idle]

-----------------------------------------------------------------------------
(***************************************************************************)
(* POST /v1/github/pulls/close                                             *)
(***************************************************************************)

\* Mutant of CloseLoads: no early return for a pull request already closed.
CloseLoadsAny(r) ==
    /\ At(r, "idle")
    /\ Goto(r, "closing", Never)
    /\ UNCHANGED <<clock, pr, record, claimable, overlap, failed>>

\* loadPullRequest: a pull request that is not open is not the app's to close.
CloseLoads(r) ==
    /\ At(r, "idle")
    /\ Goto(r, IF pr.state = "open" THEN "closing" ELSE "idle", Never)
    /\ UNCHANGED <<clock, pr, record, claimable, overlap, failed>>

\* PATCH state=closed.  GitHub answers with the pull request it now has: one
\* that was closed in the meantime keeps its closed_at, and its merged flag.
CloseAtGitHub(r) ==
    /\ At(r, "closing")
    /\ pr' = IF pr.state = "open" THEN ClosedBy("app", FALSE) ELSE pr
    /\ Goto(r, "recording", pr'.closedAt)
    /\ claimable' = IF pr.state = "open" THEN claimable \cup {clock} ELSE claimable
    /\ overlap' = Crossing(r)
    /\ failed' = FALSE
    /\ UNCHANGED <<clock, record>>

\* Mutant of RecordClose: ON CONFLICT DO NOTHING, an older row stays.
RecordCloseOnce(r) ==
    /\ At(r, "recording")
    /\ record' = IF record = Never THEN req[r].closedAt ELSE record
    /\ Return(r)
    /\ overlap' = (overlap \/ Crossing(r))
    /\ UNCHANGED <<clock, pr, claimable, failed>>

\* UpsertAutoClosedPullRequest with the closed_at GitHub answered.
RecordClose(r) ==
    /\ At(r, "recording")
    /\ record' = req[r].closedAt
    /\ Return(r)
    /\ overlap' = (overlap \/ Crossing(r))
    /\ UNCHANGED <<clock, pr, claimable, failed>>

-----------------------------------------------------------------------------
(***************************************************************************)
(* openIfAutoClosed: POST /v1/github/pulls/open, and after a link          *)
(***************************************************************************)

\* AutoClosedPullRequest: without a row the app never opens.
OpenReadsRecord(r) ==
    /\ At(r, "idle")
    /\ Goto(r, IF record # Never THEN "loading" ELSE "idle", record)
    /\ UNCHANGED <<clock, pr, record, claimable, overlap, failed>>

\* Mutant of sameClosedAt: any close that is not older than the recorded one.
SinceClosedAt(a, b) == a >= b

\* Mutant of sameClosedAt: only a close later than the recorded one.
LaterClosedAt(a, b) == a > b

\* sameClosedAt: GitHub keeps whole seconds.
sameClosedAt(a, b) == a = b

\* loadPullRequest and the three reasons to forget the record instead.
OpenLoads(r) ==
    /\ At(r, "loading")
    /\ LET foreign == pr.merged \/ pr.state = "open" \/ ~sameClosedAt(pr.closedAt, req[r].closedAt)
       IN  Goto(r, IF foreign THEN "forgetting" ELSE "opening", req[r].closedAt)
    /\ UNCHANGED <<clock, pr, record, claimable, overlap, failed>>

\* PATCH state=open.  GitHub refuses it for a merged pull request, and the
\* handler then returns the error; on an open one it changes nothing.
OpenAtGitHub(r) ==
    /\ At(r, "opening")
    /\ IF pr.merged
       THEN Return(r) /\ failed' = TRUE /\ UNCHANGED pr
       ELSE /\ Goto(r, "forgetting", req[r].closedAt)
            /\ pr' = IF pr.state = "open" THEN pr ELSE OpenedBy("app")
            /\ UNCHANGED failed
    /\ UNCHANGED <<clock, record, claimable, overlap>>

\* Mutant of ForgetClose: the request keeps its copy of the record.
ForgetCloseKeeping(r) ==
    /\ At(r, "forgetting")
    /\ record' = Never
    /\ Goto(r, "idle", req[r].closedAt)
    /\ UNCHANGED <<clock, pr, claimable, overlap, failed>>

\* DeleteAutoClosedPullRequest, whatever the row holds by now.
ForgetClose(r) ==
    /\ At(r, "forgetting")
    /\ record' = Never
    /\ Return(r)
    /\ UNCHANGED <<clock, pr, claimable, overlap, failed>>

-----------------------------------------------------------------------------
(***************************************************************************)
(* handleIssueComment                                                      *)
(***************************************************************************)

\* The author comments a command, and GitHub sends the pull request as it now
\* is: every other comment, and any on a merged one, is ignored.
ReceiveCommand(r) ==
    /\ At(r, "idle") /\ r \in Webhooks /\ ~pr.merged
    /\ Goto(r, IF pr.state = "closed" THEN "looking" ELSE "rechecking", pr.closedAt)
    /\ UNCHANGED <<clock, pr, record, claimable, overlap, failed>>

\* closedByApp: the close that GitHub sent against the record, as it is by now.
LookUpClose(r) ==
    /\ At(r, "looking")
    /\ IF record # Never /\ sameClosedAt(req[r].closedAt, record)
       THEN Goto(r, "rechecking", req[r].closedAt)
       ELSE Return(r)
    /\ UNCHANGED <<clock, pr, record, claimable, overlap, failed>>

\* recheckPullRequest leaves the pull request as it is.
EndRecheck(r) ==
    /\ At(r, "rechecking")
    /\ Return(r)
    /\ UNCHANGED <<clock, pr, record, claimable, overlap, failed>>

-----------------------------------------------------------------------------
\* A call fails, its answer is lost, or the process stops: the request ends
\* where it stands.
Fail(r) ==
    /\ ~At(r, "idle")
    /\ Return(r)
    /\ failed' = TRUE
    /\ UNCHANGED <<clock, pr, record, claimable, overlap>>

(***************************************************************************)
(* People on GitHub, and time                                              *)
(***************************************************************************)

\* Somebody closes or merges the pull request.  If a handler has already
\* decided what to do, the close happens under its feet.
PersonCloses ==
    /\ pr.state = "open"
    /\ \E merge \in BOOLEAN : pr' = ClosedBy("person", merge)
    /\ claimable' = IF Deciding THEN claimable \cup {clock} ELSE claimable
    /\ UNCHANGED <<clock, record, req, overlap, failed>>

PersonReopens ==
    /\ pr.state = "closed" /\ ~pr.merged
    /\ pr' = OpenedBy("person")
    /\ UNCHANGED <<clock, record, req, claimable, overlap, failed>>

Tick ==
    /\ clock < MaxClock
    /\ clock' = clock + 1
    /\ UNCHANGED <<pr, record, req, claimable, overlap, failed>>

-----------------------------------------------------------------------------
\* The steps a request takes once it has begun.
Continue(r) ==
    \/ CloseAtGitHub(r)
    \/ RecordClose(r)
    \/ OpenLoads(r)
    \/ OpenAtGitHub(r)
    \/ ForgetClose(r)
    \/ LookUpClose(r)
    \/ EndRecheck(r)

Begin(r) == CloseLoads(r) \/ OpenReadsRecord(r) \/ ReceiveCommand(r)

People == PersonCloses \/ PersonReopens

Next ==
    \/ \E r \in Requests : Begin(r) \/ Continue(r) \/ Fail(r)
    \/ People
    \/ Tick

Spec == Init /\ [][Next]_vars

\* A handler that has begun goes on: its calls carry a timeout and return.
Fairness == \A r \in Requests : WF_vars(Continue(r))

FairSpec == Spec /\ Fairness

-----------------------------------------------------------------------------
(***************************************************************************)
(* Properties                                                              *)
(***************************************************************************)

\* A closed pull request has a close time and an open one none; a merged one
\* is closed, and not by the app.
PullRequestOK ==
    /\ pr \in [state : {"open", "closed"}, merged : BOOLEAN, closedAt : Times, by : {"app", "person"}]
    /\ (pr.state = "open") <=> (pr.closedAt = Never)
    /\ pr.merged => pr.state = "closed" /\ pr.by = "person"

\* Only a request that acts on a close holds a time; one that rechecks may.
RequestsOK ==
    /\ req \in [Requests -> [at : Phases, closedAt : Times]]
    /\ \A r \in Requests :
         /\ req[r].at \in {"idle", "closing"} => req[r].closedAt = Never
         /\ req[r].closedAt = Never => req[r].at \in {"idle", "closing", "rechecking"}

\* Every variable has its type.
TypeOK ==
    /\ clock \in 1 .. MaxClock
    /\ PullRequestOK
    /\ record \in Times
    /\ RequestsOK
    /\ claimable \subseteq Times \ {Never}
    /\ overlap \in BOOLEAN
    /\ failed \in BOOLEAN

\* The app takes no close for its own but one of a claimable second: a second
\* in which it closed the pull request itself or in which somebody closed it
\* between a handler's read and its PATCH.  This holds of the row, of every
\* time a request carries but the payload of a command that is yet to be looked
\* up, and of the close a deciding request will act on: so a command on a pull
\* request closed by somebody else is ignored, but for that race.
OnlyClaimable ==
    /\ record # Never => record \in claimable
    /\ \A r \in Requests :
         /\ req[r].closedAt # Never /\ req[r].at # "looking" => req[r].closedAt \in claimable
         /\ req[r].at \in {"closing", "opening"} /\ pr.state = "closed" => pr.closedAt \in claimable

\* "It never reopens a pull request closed by anyone else" (README), as far as
\* the code keeps it: openIfAutoClosed reopens somebody else's close only when
\* that close fell in a second the app had already closed in, or under the
\* feet of a handler between its read and its PATCH.
OverridesOnlyARace ==
    [][pr.state = "closed" /\ pr.by = "person" /\ pr'.state = "open" /\ pr'.by = "app"
         => pr.closedAt \in claimable]_vars

\* The close the app made is the one on record, or about to be.
Remembered == record = pr.closedAt \/ \E r \in Requests : At(r, "recording") /\ req[r].closedAt = pr.closedAt

\* A pull request the app closed can be opened again by a later pass: the
\* close is on record unless a request was cut short or the close ran into
\* another close or open of the same pull request.
AppCloseRemembered ==
    pr.state = "closed" /\ pr.by = "app" => Remembered \/ failed \/ overlap

\* The author of a pull request that the app closed is heard: a command on it
\* is dropped, which nobody is told, only before the close is recorded, or
\* when its record was lost as AppCloseRemembered has it.
OwnCloseHeard ==
    [][\A r \in Requests :
         /\ req[r].at = "looking" /\ req'[r].at = "idle"
         /\ pr.state = "closed" /\ pr.by = "app" /\ req[r].closedAt = pr.closedAt
         => \/ failed' \/ overlap
            \/ \E s \in Requests : At(s, "recording") /\ req[s].closedAt = pr.closedAt]_vars

\* A passing check opens what the app closed: once a request has read the
\* record of the close that holds, and no other request is under way, the pull
\* request becomes open (or somebody merges it, or a call fails).
OpensWhatItClosed ==
    \A r \in Requests :
        /\ At(r, "loading") /\ req[r].closedAt = pr.closedAt /\ ~pr.merged
        /\ \A s \in Requests \ {r} : At(s, "idle")
        ~> pr.state = "open" \/ pr.merged \/ failed

\* README, "Closing and reopening": it never reopens a pull request closed by
\* anyone else.
NeverReopensOthersClose ==
    [][pr.state = "closed" /\ pr.by = "person" /\ pr'.state = "open" => pr'.by = "person"]_vars
=============================================================================
