---------------------------- MODULE GateRestProofs ----------------------------
(***************************************************************************)
(* What Gate promises an author at rest: when nothing has failed and the   *)
(* account did not change beside a check or another link, a linked         *)
(* author's latest check saw the link, and the pull request is open unless *)
(* the rules failed.  And how many checks pushes and links can start: two  *)
(* each when no call fails, and one more for each closing or opening whose *)
(* success goes unheard.  All this for any number of checks, pushes and    *)
(* links.                                                                  *)
(***************************************************************************)
EXTENDS GateProofs, FiniteSetTheorems

USE DEF Checks, NoJob

\* A link on its way to the job, or with it: somebody will run it again.
OnItsWay ==
    \E l \in Links : \/ links[l].at \in {"syncing", "opening", "taking"} /\ job # NoJob
                     \/ links[l].at = "rerunning"

RulesFailed == \E c \in Checks : checks[c].status = "rules_failed"

\* The status that goes with each phase of a check.
Statused ==
    \A c \in Checks :
        /\ checks[c].at \in {"absent", "start"} => checks[c].status = "none"
        /\ checks[c].at \in {"reading", "opening"} => checks[c].status = "linked"
        /\ checks[c].at \in {"syncing", "recording", "answered"} => checks[c].status \in statuses
        /\ checks[c].at = "closing" => checks[c].status \in NeedsLink \cup {"rules_failed"}
        /\ checks[c].at = "notifying" => checks[c].status = "rules_failed"

\* The latest check has a status that its author's link will have to answer.
LatestOwes == begun > 0 /\ checks[begun].status \in NeedsLink

\* Before the link: no check has seen another account, and the latest one has
\* left a job, its own or that of an earlier check that ended later.
BeforeLink ==
    /\ \A l \in Links : links[l].at \in {"idle", "done"}
    /\ \A c \in Checks : Running(c) => checks[c].status \in NeedsLink \cup {"none"}
    /\ LatestOwes =>
         /\ checks[begun].at \in {"recording", "answered", "closing", "done"} => row
         /\ checks[begun].at \in {"answered", "closing", "done"} => job # NoJob

\* After it: a latest check that has not seen the link has ended, and a link is
\* about to run a job again; a closed pull request is about to open.
AfterLink ==
    /\ \A c \in Checks : Running(c) => checks[c].status \notin NeedsLink
    /\ LatestOwes =>
         /\ \A c \in Checks : ~Running(c)
         /\ \A l \in Links : links[l].at # "clearing"
         /\ OnItsWay
    /\ pr = "closed" => RulesFailed \/ \E l \in Links : links[l].at \in {"syncing", "opening"}

RestInv == ~crossed => IF account = "linked" THEN AfterLink ELSE BeforeLink

-----------------------------------------------------------------------------
\* A check that GitHub starts, as far as its status goes.
LEMMA StartsFresh ==
  ASSUME TypeOK, Statused, NEW of \in 0 .. MaxChecks, StartCheck(of)
  PROVE  /\ begun' = begun + 1 /\ begun + 1 \in Checks
         /\ checks'[begun + 1].at = "start" /\ checks'[begun + 1].status = "none"
         /\ ~Running(begun + 1) /\ checks[begun + 1].status = "none"
         /\ \A d \in Checks : d # begun + 1 => checks'[d] = checks[d]
         /\ Statused'
         /\ ~LatestOwes'
<1>1. /\ begun + 1 \in Checks
      /\ \A d \in Checks : checks'[d] = IF d = begun + 1 THEN Started(of) ELSE checks[d]
  BY Starting
<1>2. begun' = begun + 1 /\ begun \in Nat
  BY DEF StartCheck, TypeOK
<1>3. Started(of).at = "start" /\ Started(of).status = "none"
  BY DEF Started, Asking
<1>4. checks[begun + 1] = Absent
  BY <1>1, <1>2 DEF TypeOK, ChecksOK
<1>5. Statused'
  BY <1>1, <1>3 DEF Statused
<1> QED
  BY <1>1, <1>2, <1>3, <1>4, <1>5 DEF Running, LatestOwes, NeedsLink, Absent

\* A check that only changes its phase, or its phase and status.
LEMMA Moved ==
  ASSUME TypeOK, NEW c \in Checks, NEW phase \in Phases, CheckGoes(c, phase)
  PROVE  /\ checks'[c].at = phase /\ checks'[c].status = checks[c].status
         /\ \A d \in Checks \ {c} : checks'[d] = checks[d]
<1> DEFINE new == [checks[c] EXCEPT !.at = phase]
<1>1. checks \in [Checks -> CheckRecords] /\ checks[c] \in CheckRecords
  BY DEF TypeOK, ChecksOK, CheckRecords
<1>2. new.at = phase /\ new.status = checks[c].status
  BY <1>1 DEF CheckRecords
<1>3. checks' = [checks EXCEPT ![c] = new]
  BY DEF CheckGoes
<1> HIDE DEF new
<1> QED
  BY <1>1, <1>2, <1>3

LEMMA MovedWithStatus ==
  ASSUME TypeOK, NEW c \in Checks, NEW phase, NEW status,
         checks' = [checks EXCEPT ![c].at = phase, ![c].status = status]
  PROVE  /\ checks'[c].at = phase /\ checks'[c].status = status
         /\ \A d \in Checks \ {c} : checks'[d] = checks[d]
<1> DEFINE new == [checks[c] EXCEPT !.at = phase, !.status = status]
<1>1. checks \in [Checks -> CheckRecords] /\ checks[c] \in CheckRecords
  BY DEF TypeOK, ChecksOK, CheckRecords
<1>2. new.at = phase /\ new.status = status
  BY <1>1 DEF CheckRecords
<1>3. checks' = [checks EXCEPT ![c] = new]
  OBVIOUS
<1> HIDE DEF new
<1> QED
  BY <1>1, <1>2, <1>3

\* Phases of a check that has the row it needs, and those that come after it has
\* left its job.
Synced == {"recording", "answered", "closing", "done"}
Recorded == {"answered", "closing", "done"}

\* The phases and statuses a check may go through when no call fails.
Goes(c, from, to, status) ==
    /\ checks[c].at = from /\ checks'[c].at = to /\ checks'[c].status = status
    /\ \A d \in Checks \ {c} : checks'[d] = checks[d]

\* What each step of a check does to the check, the row, the job and the pull
\* request when no call fails.
Effects(c) ==
    \/ /\ Goes(c, "start", IF account = "linked" THEN "reading" ELSE "syncing", account)
       /\ UNCHANGED <<row, job, pr, begun>>
    \/ Goes(c, "reading", "syncing", checks[c].status) /\ UNCHANGED <<row, job, pr, begun>>
    \/ /\ Goes(c, "syncing", "recording", checks[c].status) /\ UNCHANGED <<job, pr, begun>>
       /\ row \/ checks[c].status \in NeedsLink => row'
    \/ /\ Goes(c, "recording", "answered", checks[c].status) /\ UNCHANGED <<row, pr, begun>>
       /\ job' = IF ~row THEN job ELSE IF checks[c].status = "linked" THEN NoJob ELSE c
    \/ /\ \E to \in {"closing", "done"} : Goes(c, "answered", to, checks[c].status)
       /\ checks[c].status \in NeedsLink /\ UNCHANGED <<row, job, pr, begun>>
    \/ /\ \/ \E to \in {"opening", "done"} : Goes(c, "answered", to, "linked")
          \/ \E to \in {"closing", "notifying", "done"} : Goes(c, "answered", to, "rules_failed")
       /\ checks[c].status = "linked" /\ UNCHANGED <<row, job, pr, begun>>
    \/ Goes(c, "notifying", "done", checks[c].status) /\ row' /\ UNCHANGED <<job, pr, begun>>
    \/ /\ Goes(c, "closing", "done", checks[c].status) /\ pr' \in {pr, "closed"}
       /\ (row => row') /\ UNCHANGED <<job, begun>>
    \/ Goes(c, "opening", "done", checks[c].status) /\ UNCHANGED <<row, job, pr, begun>>

\* Or it opens the pull request, and GitHub starts a check of it.
Opens(c) ==
    /\ checks[c].at = "opening" /\ checks'[c].at = "done" /\ checks'[c].status = checks[c].status
    /\ begun' = begun + 1 /\ begun + 1 \in Checks /\ begun + 1 # c
    /\ checks'[begun + 1].at = "start" /\ checks'[begun + 1].status = "none"
    /\ \A d \in Checks \ {c, begun + 1} : checks'[d] = checks[d]
    /\ pr' = "open" /\ UNCHANGED <<row, job>>

LEMMA CheckEffects ==
  ASSUME TypeOK, Statused, ~MayFail, NEW c \in Checks, ServeCheck(c)
  PROVE  /\ Effects(c) \/ Opens(c)
         /\ UNCHANGED <<account, links, crossed>>
<1>0. /\ checks \in [Checks -> CheckRecords] /\ checks[c] \in CheckRecords
      /\ row \in BOOLEAN
  BY DEF TypeOK, ChecksOK, CheckRecords
<1>1. CASE ResolveUser(c)
  BY <1>1, MovedWithStatus DEF ResolveUser, Effects, Goes
<1>2. CASE ReadAutoClosed(c)
  <2>0. PICK told \in BOOLEAN : checks' = [checks EXCEPT ![c].at = "syncing", ![c].told = told]
    BY <1>2 DEF ReadAutoClosed
  <2> DEFINE new == [checks[c] EXCEPT !.at = "syncing", !.told = told]
  <2>1. new.at = "syncing" /\ new.status = checks[c].status
    BY <1>0 DEF CheckRecords
  <2>2. checks' = [checks EXCEPT ![c] = new]
    BY <2>0
  <2> HIDE DEF new
  <2>3. Goes(c, "reading", "syncing", checks[c].status)
    BY <1>0, <1>2, <2>1, <2>2 DEF ReadAutoClosed, Goes
  <2> QED
    BY <1>2, <2>3 DEF ReadAutoClosed, Effects
<1>3. CASE SyncSetupComment(c)
  BY <1>0, <1>3, Moved DEF SyncSetupComment, Effects, Goes, Phases, Unanswered
<1>4. CASE recordPendingRerun(c)
  BY <1>4, Moved DEF recordPendingRerun, Effects, Goes, Phases
<1>5. CASE ReportUnlinked(c)
  BY <1>5, Moved DEF ReportUnlinked, Effects, Goes, Phases
<1>6. CASE EvaluateRules(c)
  <2>1. \/ \E phase \in {"opening", "done"} : checks' = [checks EXCEPT ![c].at = phase, ![c].told = FALSE]
        \/ \E phase \in {"closing", "notifying", "done"} :
             checks' = [checks EXCEPT ![c].at = phase, ![c].status = "rules_failed", ![c].told = FALSE]
    BY <1>6 DEF EvaluateRules
  <2>2. ASSUME NEW phase \in {"opening", "done"}, checks' = [checks EXCEPT ![c].at = phase, ![c].told = FALSE]
        PROVE  Goes(c, "answered", phase, "linked")
    <3> DEFINE new == [checks[c] EXCEPT !.at = phase, !.told = FALSE]
    <3>1. new.at = phase /\ new.status = checks[c].status
      BY <1>0 DEF CheckRecords
    <3>2. checks' = [checks EXCEPT ![c] = new]
      BY <2>2
    <3> HIDE DEF new
    <3> QED
      BY <1>0, <1>6, <3>1, <3>2 DEF EvaluateRules, Goes
  <2>3. ASSUME NEW phase \in {"closing", "notifying", "done"},
               checks' = [checks EXCEPT ![c].at = phase, ![c].status = "rules_failed", ![c].told = FALSE]
        PROVE  Goes(c, "answered", phase, "rules_failed")
    <3> DEFINE new == [checks[c] EXCEPT !.at = phase, !.status = "rules_failed", !.told = FALSE]
    <3>1. new.at = phase /\ new.status = "rules_failed"
      BY <1>0 DEF CheckRecords
    <3>2. checks' = [checks EXCEPT ![c] = new]
      BY <2>3
    <3> HIDE DEF new
    <3> QED
      BY <1>0, <1>6, <3>1, <3>2 DEF EvaluateRules, Goes
  <2>4. \/ \E to \in {"opening", "done"} : Goes(c, "answered", to, "linked")
        \/ \E to \in {"closing", "notifying", "done"} : Goes(c, "answered", to, "rules_failed")
    BY <2>1, <2>2, <2>3
  <2> QED
    BY <1>6, <2>4 DEF EvaluateRules, Effects
<1>7. CASE NotifyRulesFailed(c)
  BY <1>7, Moved DEF NotifyRulesFailed, Effects, Goes, Phases
<1>8. CASE ClosePullRequest(c)
  <2>1. PICK next \in Requested(c) : checks' = [checks EXCEPT ![c] = next]
    BY <1>8 DEF ClosePullRequest
  <2>2. next.at = "done" /\ next.status = checks[c].status /\ checks[c].at = "closing"
    BY <1>8, RequestedKeeps DEF ClosePullRequest
  <2>3. Goes(c, "closing", "done", checks[c].status)
    BY <1>0, <2>1, <2>2 DEF Goes
  <2> QED
    BY <1>0, <1>8, <2>3 DEF ClosePullRequest, Effects
<1>9. CASE OpenPullRequest(c)
  <2>1. PICK next \in Requested(c) :
          \/ /\ pr' = "open" /\ begun < MaxChecks /\ begun' = begun + 1
             /\ checks' = [checks EXCEPT ![c] = next, ![begun + 1] = Started(NoJob)]
          \/ checks' = [checks EXCEPT ![c] = next] /\ UNCHANGED <<pr, begun>>
    BY <1>9 DEF OpenPullRequest
  <2>2. next.at = "done" /\ next.status = checks[c].status /\ checks[c].at = "opening"
    BY <1>9, RequestedKeeps DEF OpenPullRequest
  <2>3. CASE checks' = [checks EXCEPT ![c] = next] /\ UNCHANGED <<pr, begun>>
    <3>1. Goes(c, "opening", "done", checks[c].status)
      BY <1>0, <2>2, <2>3 DEF Goes
    <3> QED
      BY <1>9, <2>3, <3>1 DEF OpenPullRequest, Effects
  <2>4. CASE /\ pr' = "open" /\ begun < MaxChecks /\ begun' = begun + 1
             /\ checks' = [checks EXCEPT ![c] = next, ![begun + 1] = Started(NoJob)]
    <3>1. begun + 1 \in Checks /\ begun + 1 # c
      BY <2>2, <2>4, GateAssumption DEF TypeOK, ChecksOK, Absent
    <3>2. Started(NoJob).at = "start" /\ Started(NoJob).status = "none"
      BY DEF Started, Asking
    <3> QED
      BY <1>0, <1>9, <2>2, <2>4, <3>1, <3>2 DEF OpenPullRequest, Opens
  <2> QED
    BY <2>1, <2>3, <2>4
<1> QED
  BY <1>1, <1>2, <1>3, <1>4, <1>5, <1>6, <1>7, <1>8, <1>9 DEF ServeCheck

LEMMA CheckStatused ==
  ASSUME TypeOK, Statused, ~MayFail, NEW c \in Checks, ServeCheck(c)
  PROVE  Statused'
<1> USE DEF NeedsLink, statuses
<1>1. account \in statuses
  BY DEF TypeOK
<1>2. CASE Effects(c)
  <2> SUFFICES ASSUME NEW d \in Checks PROVE Statused!(d)'
    BY DEF Statused
  <2>1. CASE d # c
    BY <1>2, <2>1 DEF Effects, Goes, Statused
  <2>2. CASE d = c
    BY <1>1, <1>2, <2>2 DEF Effects, Goes, Statused
  <2> QED
    BY <2>1, <2>2
<1>3. CASE Opens(c)
  BY <1>3 DEF Opens, Statused
<1> QED
  BY <1>2, <1>3, CheckEffects

\* Before the link, a step of a check keeps the job of the latest one.
LEMMA CheckBeforeLink ==
  ASSUME TypeOK, Statused, ~MayFail, account # "linked", BeforeLink,
         NEW c \in Checks, ServeCheck(c)
  PROVE  BeforeLink'
<1> USE DEF NeedsLink, statuses
<1>1. /\ account \in statuses \ {"linked"} /\ UNCHANGED <<account, links>> /\ begun \in 0 .. MaxChecks
      /\ \A d \in Checks : Running(d) => checks[d].status \in NeedsLink \cup {"none"}
  BY CheckEffects DEF TypeOK, BeforeLink
<1>2. CASE Effects(c)
  <2>1. /\ UNCHANGED begun /\ Running(c)
        /\ \A d \in Checks \ {c} : checks'[d] = checks[d]
    BY <1>2 DEF Effects, Goes, Running
  <2>2. checks[c].status \in NeedsLink \cup {"none"}
    BY <1>1, <2>1
  <2>3. checks'[c].status \in NeedsLink \cup {"none"} \/ ~Running(c)'
    BY <1>1, <1>2, <2>2 DEF Effects, Goes, Statused
  <2>5. (row => row') /\ (job # NoJob => job' # NoJob)
    BY <1>2, <2>2 DEF Effects, Goes, Statused
  <2>6. LatestOwes' =>
          /\ checks'[begun].at \in Synced => row'
          /\ checks'[begun].at \in Recorded => job' # NoJob
    <3> SUFFICES ASSUME LatestOwes' PROVE /\ checks'[begun].at \in Synced => row'
                                          /\ checks'[begun].at \in Recorded => job' # NoJob
      OBVIOUS
    <3>1. begun \in Checks /\ checks'[begun].status \in NeedsLink
      BY <1>1, <2>1, GateAssumption DEF LatestOwes
    <3>2. CASE begun # c
      BY <2>1, <2>5, <3>1, <3>2 DEF BeforeLink, LatestOwes, Synced, Recorded
    <3>3. CASE begun = c /\ checks[c].at \in {"start", "reading"}
      BY <1>2, <2>1, <3>3 DEF Effects, Goes, Synced, Recorded
    <3>4. CASE begun = c /\ checks[c].at = "syncing"
      BY <1>2, <2>1, <3>1, <3>4 DEF Effects, Goes, Synced, Recorded
    <3>5. CASE begun = c /\ checks[c].at \notin {"start", "reading", "syncing"}
      <4>1. checks[c].status \in NeedsLink /\ checks[c].at \in {"recording", "answered", "closing"}
        BY <1>2, <2>2, <3>1, <3>5 DEF Effects, Goes, Statused
      <4>2. row /\ (checks[c].at \in {"answered", "closing"} => job # NoJob)
        BY <1>1, <3>1, <3>5, <4>1 DEF BeforeLink, LatestOwes
      <4>3. CASE checks[c].at = "recording"
        BY <1>2, <4>1, <4>2, <4>3 DEF Effects, Goes
      <4>4. CASE checks[c].at \in {"answered", "closing"}
        BY <1>2, <4>1, <4>2, <4>4 DEF Effects, Goes
      <4> QED
        BY <3>5, <4>1, <4>3, <4>4
    <3> QED
      BY <3>2, <3>3, <3>4, <3>5
  <2> QED
    BY <1>1, <2>1, <2>3, <2>6 DEF BeforeLink, Running, Synced, Recorded
<1>3. CASE Opens(c)
  BY <1>1, <1>3 DEF Opens, Statused, Running
<1> QED
  BY <1>2, <1>3, CheckEffects

\* After it, a check that runs has seen the link.
LEMMA CheckAfterLink ==
  ASSUME TypeOK, Statused, ~MayFail, account = "linked", AfterLink,
         NEW c \in Checks, ServeCheck(c)
  PROVE  AfterLink'
<1> USE DEF NeedsLink, statuses
<1>1. /\ UNCHANGED <<account, links>> /\ begun \in 0 .. MaxChecks /\ Running(c) /\ ~LatestOwes
      /\ checks[c].status \notin NeedsLink
  BY CheckEffects DEF TypeOK, AfterLink, Effects, Opens, Goes, Running
<1>2. CASE Effects(c)
  <2>1. /\ UNCHANGED begun
        /\ \A d \in Checks \ {c} : checks'[d] = checks[d]
        /\ checks'[c].status \notin NeedsLink
        /\ checks[c].status = "rules_failed" => checks'[c].status = "rules_failed"
        /\ pr' = pr \/ checks[c].at = "closing"
    BY <1>1, <1>2 DEF Effects, Goes, Statused
  <2>2. ~LatestOwes'
    BY <1>1, <2>1, GateAssumption DEF LatestOwes
  <2>3. RulesFailed => RulesFailed'
    BY <2>1 DEF RulesFailed
  <2>4. checks[c].at = "closing" => RulesFailed
    BY <1>1 DEF Statused, RulesFailed
  <2> QED
    BY <1>1, <2>1, <2>2, <2>3, <2>4 DEF AfterLink, Running
<1>3. CASE Opens(c)
  <2>1. ~LatestOwes'
    BY <1>3 DEF Opens, LatestOwes
  <2>2. \A d \in Checks : checks'[d].status \notin NeedsLink \/ checks'[d] = checks[d]
    BY <1>1, <1>3 DEF Opens
  <2> QED
    BY <1>1, <1>3, <2>1, <2>2 DEF AfterLink, Running, Opens
<1> QED
  BY <1>2, <1>3, CheckEffects

-----------------------------------------------------------------------------
\* A link that changes its phase, and perhaps the job it holds.
LEMMA LinkMoved ==
  ASSUME LinksOK, NEW l \in Links, NEW phase, LinkGoes(l, phase)
  PROVE  links'[l].at = phase /\ \A k \in Links \ {l} : links'[k] = links[k]
<1> DEFINE new == [links[l] EXCEPT !.at = phase]
<1>1. links \in [Links -> [at : LinkPhases, job : 0 .. MaxChecks]] /\ links[l] \in [at : LinkPhases, job : 0 .. MaxChecks]
  BY DEF LinksOK
<1>2. new.at = phase
  BY <1>1
<1>3. links' = [links EXCEPT ![l] = new]
  BY DEF LinkGoes
<1> HIDE DEF new
<1> QED
  BY <1>1, <1>2, <1>3

LEMMA LinkSet ==
  ASSUME LinksOK, NEW l \in Links, NEW phase, NEW j, links' = [links EXCEPT ![l] = [at |-> phase, job |-> j]]
  PROVE  links'[l].at = phase /\ \A k \in Links \ {l} : links'[k] = links[k]
BY DEF LinksOK

\* A check that starts takes the place of the latest one, and has the account
\* still to read.
LEMMA StartBeforeLink ==
  ASSUME TypeOK, Statused, BeforeLink, NEW of \in 0 .. MaxChecks, StartCheck(of), UNCHANGED links
  PROVE  BeforeLink'
<1>1. \A d \in Checks : Running(d)' => checks'[d].status = "none" \/ (Running(d) /\ checks'[d] = checks[d])
  BY StartsFresh DEF Running
<1> QED
  BY <1>1, StartsFresh DEF BeforeLink

LEMMA StartAfterLink ==
  ASSUME TypeOK, Statused, AfterLink, NEW of \in 0 .. MaxChecks, StartCheck(of),
         pr' = "closed" =>
           /\ pr = "closed"
           /\ \A l \in Links : links[l].at \in {"syncing", "opening"} => links'[l].at = links[l].at
  PROVE  AfterLink'
<1>1. \A d \in Checks : Running(d)' => checks'[d].status = "none" \/ (Running(d) /\ checks'[d] = checks[d])
  BY StartsFresh DEF Running
<1>2. RulesFailed => RulesFailed'
  BY StartsFresh DEF RulesFailed
<1>3. \A d \in Checks : Running(d)' => checks'[d].status \notin NeedsLink
  BY <1>1 DEF AfterLink, NeedsLink
<1>4. pr' = "closed" => RulesFailed' \/ \E l \in Links : links'[l].at \in {"syncing", "opening"}
  BY <1>2 DEF AfterLink
<1> QED
  BY <1>3, <1>4, StartsFresh DEF AfterLink

\* Each step of a link leads on to the check that sees it.
LEMMA LinkAfterLink ==
  ASSUME TypeOK, Statused, ~MayFail, AfterLink, NEW l \in Links, ServeLink(l)
  PROVE  Statused' /\ AfterLink'
<1>0. LinksOK /\ begun \in 0 .. MaxChecks /\ links[l].job \in 0 .. MaxChecks /\ NoJob \in 0 .. MaxChecks
  BY GateAssumption DEF TypeOK, LinksOK
<1> DEFINE Kept == /\ UNCHANGED <<checks, begun, pr>>
                   /\ \A k \in Links \ {l} : links'[k] = links[k]
<1>1. ASSUME Kept, links'[l].at # "clearing", LatestOwes => OnItsWay',
             links[l].at \in {"syncing", "opening"} /\ pr = "closed" => links'[l].at = "opening"
      PROVE  Statused' /\ AfterLink'
  <2>1. (LatestOwes' <=> LatestOwes) /\ (RulesFailed' <=> RulesFailed) /\ (Statused' <=> Statused)
        /\ \A c \in Checks : Running(c)' <=> Running(c)
    BY <1>1 DEF LatestOwes, RulesFailed, Statused, Running
  <2>2. pr' = "closed" => RulesFailed' \/ \E k \in Links : links'[k].at \in {"syncing", "opening"}
    BY <1>1, <2>1 DEF AfterLink
  <2>3. \A c \in Checks : Running(c)' => checks'[c].status \notin NeedsLink
    BY <1>1, <2>1 DEF AfterLink
  <2>4. LatestOwes' => \A k \in Links : links'[k].at # "clearing"
    BY <1>1, <2>1 DEF AfterLink
  <2> QED
    BY <1>1, <2>1, <2>2, <2>3, <2>4 DEF AfterLink
<1>2. CASE SyncAfterLink(l)
  <2>1. links[l].at = "syncing" /\ links'[l].at = "opening" /\ Kept /\ UNCHANGED job
    BY <1>0, <1>2, LinkMoved DEF SyncAfterLink
  <2>2. LatestOwes => OnItsWay'
    BY <2>1 DEF AfterLink, OnItsWay
  <2> QED
    BY <1>1, <2>1, <2>2
<1>3. CASE openAfterLink(l)
  <2>1. CASE pr' = "open" /\ StartCheck(NoJob)
    BY <1>0, <2>1, StartsFresh, StartAfterLink
  <2>2. CASE pr # "closed" /\ LinkGoes(l, "taking") /\ UNCHANGED <<pr, checks, begun>>
    <3>1. links[l].at = "opening" /\ links'[l].at = "taking" /\ Kept /\ UNCHANGED job
      BY <1>0, <1>3, <2>2, LinkMoved DEF openAfterLink
    <3>2. LatestOwes => OnItsWay'
      BY <3>1 DEF AfterLink, OnItsWay
    <3> QED
      BY <1>1, <2>2, <3>1, <3>2
  <2> QED
    BY <1>3, <2>1, <2>2 DEF openAfterLink
<1>4. CASE clearPendingRerun(l)
  <2>1. links[l].at = "clearing" /\ links'[l].at = "done" /\ Kept
    BY <1>0, <1>4, LinkMoved DEF clearPendingRerun
  <2> QED
    BY <1>1, <2>1 DEF AfterLink
<1>5. CASE takeRerunJob(l)
  <2>1. /\ links[l].at = "taking" /\ links'[l].at = IF job = NoJob THEN "done" ELSE "rerunning"
        /\ Kept
    BY <1>0, <1>5, LinkSet DEF takeRerunJob
  <2>2. LatestOwes => OnItsWay'
    BY <2>1 DEF AfterLink, OnItsWay
  <2> QED
    BY <1>1, <2>1, <2>2
<1>6. CASE rerunAfterLink(l)
  <2>1. /\ links[l].at = "rerunning" /\ links'[l].at = "done"
        /\ \A k \in Links \ {l} : links'[k] = links[k]
        /\ links[l].job \in Checks /\ UNCHANGED pr
    BY <1>0, <1>6, LinkSet DEF rerunAfterLink, LinksOK
  <2>2. CASE StartCheck(links[l].job)
    BY <1>0, <2>1, <2>2, StartsFresh, StartAfterLink DEF TypeOK
  <2>3. CASE Running(links[l].job) /\ UNCHANGED <<checks, begun>>
    BY <1>1, <2>1, <2>3 DEF AfterLink
  <2> QED
    BY <1>6, <2>2, <2>3 DEF rerunAfterLink
<1> QED
  BY <1>2, <1>3, <1>4, <1>5, <1>6 DEF ServeLink

\* A link that is stored while nothing else happens finds the job of the latest
\* check in the row.
LEMMA LinkStored ==
  ASSUME TypeOK, Statused, RestInv, NEW l \in Links, LinkGitHubDiscord(l)
  PROVE  RestInv'
<1>1. /\ LinksOK /\ begun \in 0 .. MaxChecks
      /\ UNCHANGED <<checks, begun, pr, job>> /\ account' = "linked"
      /\ links[l].at = "idle"
  BY DEF LinkGitHubDiscord, TypeOK
<1>2. links'[l].at = "syncing" /\ \A k \in Links \ {l} : links'[k] = links[k]
  BY <1>1, LinkMoved DEF LinkGitHubDiscord
<1>3. (LatestOwes' <=> LatestOwes) /\ (RulesFailed' <=> RulesFailed)
      /\ \A c \in Checks : Running(c)' <=> Running(c)
  BY <1>1 DEF LatestOwes, RulesFailed, Running
<1>4. \E k \in Links : links'[k].at \in {"syncing", "opening"}
  BY <1>2
<1>5. CASE account = "linked" /\ ~crossed
  <2>1. AfterLink
    BY <1>5 DEF RestInv
  <2>2. LatestOwes => OnItsWay'
    BY <1>1, <1>2, <2>1 DEF AfterLink, OnItsWay
  <2>3. LatestOwes => \A k \in Links : links'[k].at # "clearing"
    BY <1>2, <2>1 DEF AfterLink
  <2>4. AfterLink'
    BY <1>1, <1>3, <1>4, <2>1, <2>2, <2>3 DEF AfterLink
  <2> QED
    BY <1>1, <2>4 DEF RestInv
<1>6. CASE account # "linked" /\ Quiet /\ ~crossed
  <2>1. BeforeLink /\ \A c \in Checks : ~Running(c)
    BY <1>6 DEF RestInv, Quiet
  <2>2. LatestOwes => job # NoJob
    <3> SUFFICES ASSUME LatestOwes PROVE job # NoJob
      OBVIOUS
    <3>1. begun \in Checks /\ ~(begun > begun)
      BY <1>1 DEF LatestOwes
    <3>2. checks[begun].at = "done"
      BY <2>1, <3>1 DEF Running, TypeOK, ChecksOK
    <3> QED
      BY <2>1, <3>2 DEF BeforeLink
  <2>3. LatestOwes => OnItsWay'
    BY <1>1, <1>2, <2>2 DEF OnItsWay
  <2>4. \A k \in Links : links'[k].at # "clearing"
    BY <1>2, <2>1 DEF BeforeLink
  <2>5. AfterLink'
    BY <1>1, <1>3, <1>4, <2>1, <2>3, <2>4 DEF AfterLink
  <2> QED
    BY <1>1, <2>5 DEF RestInv
<1>7. CASE crossed \/ (account # "linked" /\ ~Quiet)
  BY <1>7 DEF LinkGitHubDiscord, RestInv
<1> QED
  BY <1>5, <1>6, <1>7

\* Access that is withdrawn while nothing else happens leaves no check that has
\* still to see the link.
LEMMA WithdrawnAtRest ==
  ASSUME TypeOK, RestInv, Withdraw
  PROVE  RestInv'
<1>1. account = "linked" /\ account' # "linked" /\ UNCHANGED <<checks, links, begun, row, job>>
  BY GateAssumption DEF Withdraw
<1>2. CASE ~crossed /\ Quiet
  <2>1. AfterLink
    BY <1>1, <1>2 DEF RestInv
  <2>2. ~LatestOwes
    BY <1>2, <2>1 DEF AfterLink, OnItsWay, Quiet
  <2>3. BeforeLink'
    BY <1>1, <1>2, <2>2 DEF BeforeLink, Quiet, LatestOwes, Running
  <2> QED
    BY <1>1, <2>3 DEF RestInv
<1>3. CASE crossed \/ ~Quiet
  BY <1>3 DEF Withdraw, RestInv
<1> QED
  BY <1>2, <1>3

-----------------------------------------------------------------------------
LEMMA RestInit == ASSUME Init PROVE Statused /\ RestInv
BY DEF Init, Statused, RestInv, BeforeLink, AfterLink, LatestOwes, Running, Absent

LEMMA RestStep ==
  ASSUME TypeOK, Statused, RestInv, ~MayFail, [Next]_vars
  PROVE  Statused' /\ RestInv'
<1>1. ASSUME NEW c \in Checks, ServeCheck(c) PROVE Statused' /\ RestInv'
  <2>1. UNCHANGED <<account, crossed>>
    BY <1>1, CheckEffects
  <2>2. CASE crossed
    BY <1>1, <2>1, <2>2, CheckStatused DEF RestInv
  <2>3. CASE ~crossed /\ account = "linked"
    BY <1>1, <2>1, <2>3, CheckStatused, CheckAfterLink DEF RestInv
  <2>4. CASE ~crossed /\ account # "linked"
    BY <1>1, <2>1, <2>4, CheckStatused, CheckBeforeLink DEF RestInv
  <2> QED
    BY <2>2, <2>3, <2>4
<1>2. ASSUME NEW l \in Links, LinkGitHubDiscord(l) PROVE Statused' /\ RestInv'
  <2>1. UNCHANGED checks
    BY <1>2 DEF LinkGitHubDiscord
  <2> QED
    BY <1>2, <2>1, LinkStored DEF Statused
<1>3. ASSUME NEW l \in Links, ServeLink(l) PROVE Statused' /\ RestInv'
  <2>1. UNCHANGED <<account, crossed>> /\ links[l].at \notin {"idle", "done"}
    BY <1>3 DEF ServeLink, SyncAfterLink, openAfterLink, clearPendingRerun, takeRerunJob, rerunAfterLink
  <2>2. CASE ~crossed
    BY <1>3, <2>1, <2>2, LinkAfterLink DEF RestInv, BeforeLink
  <2>3. CASE crossed
    <3>1. UNCHANGED checks \/ \E of \in 0 .. MaxChecks : StartCheck(of)
      BY <1>3, GateAssumption DEF ServeLink, SyncAfterLink, openAfterLink, clearPendingRerun, takeRerunJob,
                                  rerunAfterLink, TypeOK, LinksOK
    <3>2. Statused'
      BY <3>1, StartsFresh DEF Statused
    <3> QED
      BY <2>1, <2>3, <3>2 DEF RestInv
  <2> QED
    BY <2>2, <2>3
<1>4. CASE Push
  <2>1. StartCheck(NoJob) /\ NoJob \in 0 .. MaxChecks /\ UNCHANGED <<account, links, crossed, pr>>
    BY <1>4, GateAssumption DEF Push
  <2>2. Statused'
    BY <2>1, StartsFresh
  <2>3. BeforeLink => BeforeLink'
    BY <2>1, StartBeforeLink
  <2>4. AfterLink => AfterLink'
    BY <2>1, StartAfterLink
  <2> QED
    BY <2>1, <2>2, <2>3, <2>4 DEF RestInv
<1>5. CASE Withdraw
  <2>1. UNCHANGED checks
    BY <1>5 DEF Withdraw
  <2> QED
    BY <1>5, <2>1, WithdrawnAtRest DEF Statused
<1>6. CASE LinkElsewhere
  BY <1>6 DEF LinkElsewhere, Statused, RestInv
<1>7. CASE UNCHANGED vars
  BY <1>7 DEF vars, Statused, RestInv, BeforeLink, AfterLink, LatestOwes, RulesFailed, OnItsWay, Running
<1> QED
  BY <1>1, <1>2, <1>3, <1>4, <1>5, <1>6, <1>7 DEF Next, AskAgain, GiveUp, LinkFails

\* Nothing is claimed of a run in which calls may fail.
LEMMA RestKept == Spec => [](TypeOK /\ (~MayFail => Statused /\ RestInv))
<1>1. Init => (~MayFail => Statused /\ RestInv)
  BY RestInit
<1>2. TypeOK /\ (~MayFail => Statused /\ RestInv) /\ [Next]_vars => (~MayFail => Statused /\ RestInv)'
  BY RestStep
<1> QED
  BY <1>1, <1>2, TypeCorrect, PTL DEF Spec

LEMMA RestHolds ==
  ASSUME TypeOK, RestInv, ~crossed, Quiet, account = "linked"
  PROVE  LatestStatus \notin NeedsLink /\ (pr = "closed" => RulesFailed)
<1>1. AfterLink /\ ~OnItsWay /\ \A l \in Links : links[l].at \notin {"syncing", "opening"}
  BY DEF RestInv, Quiet, OnItsWay
<1>2. ~LatestOwes /\ begun \in Nat
  BY <1>1 DEF AfterLink, TypeOK
<1> QED
  BY <1>1, <1>2 DEF AfterLink, LatestOwes, LatestStatus, NeedsLink

\* resolve.js, linkRequiredMessage, as far as the code keeps it: when no call
\* has failed and the account never changed beside a check or another link, a
\* linked author's latest check is, at rest, one that saw the link, whatever
\* jobs other checks have left, taken, overwritten or cleared meanwhile.
THEOREM LinkSeenAtRest == Spec => []RestSeesLink
<1>1. TypeOK /\ (~MayFail => Statused /\ RestInv) => RestSeesLink
  BY RestHolds DEF RestSeesLink, Undisturbed
<1> QED
  BY <1>1, RestKept, PTL

\* openAfterLink: at such a rest the app keeps no linked author's pull request
\* closed unless the repository's own rules failed the author.
THEOREM OpenAtRest == Spec => []RestOpens
<1>1. TypeOK /\ (~MayFail => Statused /\ RestInv) => RestOpens
  BY RestHolds DEF RestOpens, Undisturbed, RulesFailed
<1> QED
  BY <1>1, RestKept, PTL

-----------------------------------------------------------------------------
(***************************************************************************)
(* What pushes and links start                                             *)
(***************************************************************************)

\* Some of the links have been served, each once.
PaidInv == IsFiniteSet(Served) /\ ChecksPaidFor

LEMMA UnderwayFinite ==
  ASSUME NEW S \in SUBSET Checks
  PROVE  IsFiniteSet(S) /\ Cardinality(S) \in Nat
<1>1. IsFiniteSet(Checks)
  BY FS_Interval, GateAssumption
<1> QED
  BY <1>1, FS_Subset, FS_CardinalityType

\* A check goes on, ends with the pull request closed, or opens it and gives way
\* to the check that GitHub starts.  Only unheard it closes or opens and goes on.
LEMMA CheckPays ==
  ASSUME TypeOK, NEW c \in Checks, CheckStep(c)
  PROVE  /\ UNCHANGED <<pushes, links>>
         /\ \/ UNCHANGED <<begun, pr>> /\ Underway' \subseteq Underway
            \/ begun' = begun /\ Underway' \subseteq Underway \ {c} /\ c \in Underway
            \/ /\ begun' = begun + 1 /\ pr = "closed" /\ pr' = "open"
               /\ Underway' \subseteq (Underway \ {c}) \cup {begun + 1} /\ c \in Underway
            \/ Unheard /\ begun' = begun /\ Underway' \subseteq Underway
            \/ /\ Unheard /\ begun' = begun + 1 /\ pr = "closed" /\ pr' = "open"
               /\ Underway' \subseteq Underway \cup {begun + 1} /\ begun + 1 \in Checks
<1> USE DEF Underway, Running, Unanswered
<1>0. checks \in [Checks -> CheckRecords] /\ \A d \in Checks : checks[d] \in CheckRecords
  BY DEF TypeOK, ChecksOK, CheckRecords
<1>1. c \in Underway /\ UNCHANGED <<pushes, links>>
  BY DEF CheckStep, ServeCheck, ResolveUser, ReadAutoClosed, SyncSetupComment, recordPendingRerun,
         ReportUnlinked, EvaluateRules, NotifyRulesFailed, ClosePullRequest, OpenPullRequest, AskAgain, GiveUp
<1>2. CASE UNCHANGED <<begun, pr>> /\ \A d \in Checks \ {c} : checks'[d] = checks[d]
  BY <1>1, <1>2
<1>3. CASE ClosePullRequest(c) \/ OpenPullRequest(c)
  <2>1. PICK next \in Requested(c) :
          \/ checks' = [checks EXCEPT ![c] = next] /\ begun' = begun
          \/ /\ pr = "closed" /\ pr' = "open" /\ begun < MaxChecks /\ begun' = begun + 1
             /\ checks' = [checks EXCEPT ![c] = next, ![begun + 1] = Started(NoJob)]
    BY <1>3 DEF ClosePullRequest, OpenPullRequest
  <2>2. checks[c].at \in {"closing", "opening"}
    BY <1>3 DEF ClosePullRequest, OpenPullRequest
  <2>3. /\ next.at \in {"done", checks[c].at}
        /\ next.at = checks[c].at => next.tries # checks[c].tries
    BY <2>2, RequestedKeeps
  <2>4. begun \in Nat /\ begun + 1 # c
    BY <1>0, <2>2 DEF TypeOK, ChecksOK, Absent
  <2>5. checks'[c] = next /\ \A d \in Checks \ {c, begun + 1} : checks'[d] = checks[d]
    BY <1>0, <2>1, <2>4
  <2>6. next.at = checks[c].at => pr' = pr \/ Unheard
    BY <2>2, <2>3, <2>5 DEF Unheard
  <2>7. CASE checks' = [checks EXCEPT ![c] = next] /\ begun' = begun
    <3>1. \A d \in Checks \ {c} : checks'[d] = checks[d]
      BY <1>0, <2>7
    <3>2. CASE next.at = "done"
      BY <1>1, <2>5, <2>7, <3>1, <3>2
    <3>3. CASE next.at = checks[c].at
      BY <1>1, <2>6, <2>7, <3>1, <3>3
    <3> QED
      BY <2>3, <3>2, <3>3
  <2>8. CASE pr = "closed" /\ pr' = "open" /\ begun < MaxChecks /\ begun' = begun + 1
    <3>1. begun + 1 \in Checks
      BY <2>4, <2>8, GateAssumption
    <3>2. CASE next.at = "done"
      BY <1>1, <2>5, <2>8, <3>2
    <3>3. CASE next.at = checks[c].at
      BY <1>1, <2>5, <2>6, <2>8, <3>1, <3>3
    <3> QED
      BY <2>3, <3>2, <3>3
  <2> QED
    BY <2>1, <2>7, <2>8
<1>4. CASE EvaluateRules(c) \/ ResolveUser(c) \/ ReadAutoClosed(c) \/ AskAgain(c)
  <2>1. \A d \in Checks \ {c} : checks'[d] = checks[d]
    BY <1>0, <1>4 DEF EvaluateRules, ResolveUser, ReadAutoClosed, AskAgain
  <2> QED
    BY <1>2, <1>4, <2>1 DEF EvaluateRules, ResolveUser, ReadAutoClosed, AskAgain
<1>5. CASE SyncSetupComment(c) \/ recordPendingRerun(c) \/ ReportUnlinked(c) \/ NotifyRulesFailed(c) \/ GiveUp(c)
  <2>1. \A d \in Checks \ {c} : checks'[d] = checks[d]
    BY <1>0, <1>5 DEF SyncSetupComment, recordPendingRerun, ReportUnlinked, NotifyRulesFailed, GiveUp, CheckGoes
  <2> QED
    BY <1>2, <1>5, <2>1 DEF SyncSetupComment, recordPendingRerun, ReportUnlinked, NotifyRulesFailed, GiveUp
<1> QED
  BY <1>3, <1>4, <1>5 DEF CheckStep, ServeCheck

\* A check that starts is one more.
LEMMA StartPays ==
  ASSUME TypeOK, NEW of \in 0 .. MaxChecks, StartCheck(of)
  PROVE  begun' = begun + 1 /\ Cardinality(Underway') <= Cardinality(Underway) + 1
<1>1. begun' = begun + 1 /\ Underway' \subseteq Underway \cup {begun + 1} /\ begun + 1 \in Checks
  BY Starting DEF StartCheck, Underway, Running
<1>2. IsFiniteSet(Underway) /\ Cardinality(Underway) \in Nat
  BY UnderwayFinite DEF Underway
<1>3. /\ IsFiniteSet(Underway \cup {begun + 1})
      /\ Cardinality(Underway \cup {begun + 1}) <= Cardinality(Underway) + 1
  BY <1>2, FS_AddElement
<1>4. /\ Cardinality(Underway') \in Nat /\ Cardinality(Underway \cup {begun + 1}) \in Nat
      /\ Cardinality(Underway') <= Cardinality(Underway \cup {begun + 1})
  BY <1>1, <1>3, UnderwayFinite, FS_Subset, FS_CardinalityType DEF Underway
<1> QED
  BY <1>1, <1>2, <1>3, <1>4

\* A link that has been served is one more, too.
LEMMA ServedGrows ==
  ASSUME IsFiniteSet(Served), NEW l \in Links, links[l].at \notin {"clearing", "done"},
         links'[l].at \in {"clearing", "done"}, \A k \in Links \ {l} : links'[k] = links[k]
  PROVE  IsFiniteSet(Served') /\ Cardinality(Served') = Cardinality(Served) + 1 /\ Cardinality(Served) \in Nat
<1>1. Served' = Served \cup {l} /\ l \notin Served
  BY DEF Served
<1> QED
  BY <1>1, FS_AddElement, FS_CardinalityType

LEMMA ServedSame ==
  ASSUME NEW l \in Links, links[l].at \in {"clearing", "done"} <=> links'[l].at \in {"clearing", "done"},
         \A k \in Links \ {l} : links'[k] = links[k]
  PROVE  Served' = Served
BY DEF Served

\* Each step of a link starts nothing, is the one it pays with, or opens the pull
\* request unheard.
LEMMA LinkPays ==
  ASSUME TypeOK, IsFiniteSet(Served), NEW l \in Links, LinkGitHubDiscord(l) \/ ServeLink(l) \/ LinkFails(l)
  PROVE  /\ UNCHANGED pushes
         /\ \/ UNCHANGED <<checks, begun, pr, Served>>
            \/ UNCHANGED <<checks, begun, pr>> /\ IsFiniteSet(Served') /\ Cardinality(Served') = Cardinality(Served) + 1
            \/ /\ \E of \in 0 .. MaxChecks : StartCheck(of)
               /\ pr' \in {pr, "open"} /\ IsFiniteSet(Served') /\ Cardinality(Served') = Cardinality(Served) + 1
            \/ /\ Unheard /\ StartCheck(NoJob)
               /\ pr = "closed" /\ pr' = "open" /\ UNCHANGED Served
<1>0. LinksOK /\ NoJob \in 0 .. MaxChecks /\ links[l].job \in 0 .. MaxChecks
  BY GateAssumption DEF TypeOK, LinksOK
<1>1. CASE LinkGitHubDiscord(l) \/ SyncAfterLink(l) \/ clearPendingRerun(l)
  <2>1. PICK phase \in {"syncing", "opening", "done"} : LinkGoes(l, phase) /\ (phase = "done" <=> links[l].at = "clearing")
    BY <1>1 DEF LinkGitHubDiscord, SyncAfterLink, clearPendingRerun
  <2>2. links'[l].at = phase /\ \A k \in Links \ {l} : links'[k] = links[k]
    BY <1>0, <2>1, LinkMoved
  <2>3. links[l].at \in {"idle", "syncing", "clearing"}
    BY <1>1 DEF LinkGitHubDiscord, SyncAfterLink, clearPendingRerun
  <2>4. Served' = Served
    BY <2>1, <2>2, <2>3, ServedSame
  <2> QED
    BY <1>1, <2>4 DEF LinkGitHubDiscord, SyncAfterLink, clearPendingRerun
<1>2. CASE openAfterLink(l)
  <2>1. CASE StartCheck(NoJob) /\ LinkGoes(l, "clearing")
    <3>1. links'[l].at = "clearing" /\ \A k \in Links \ {l} : links'[k] = links[k]
      BY <1>0, <2>1, LinkMoved
    <3>2. links[l].at = "opening" /\ pr' \in {pr, "open"} /\ UNCHANGED pushes
      BY <1>2 DEF openAfterLink
    <3> QED
      BY <1>0, <2>1, <3>1, <3>2, ServedGrows
  <2>2. CASE LinkGoes(l, "taking") /\ UNCHANGED <<pr, checks, begun>>
    <3>1. links'[l].at = "taking" /\ \A k \in Links \ {l} : links'[k] = links[k]
      BY <1>0, <2>2, LinkMoved
    <3> QED
      BY <1>2, <2>2, <3>1, ServedSame DEF openAfterLink
  <2>3. CASE pr = "closed" /\ pr' = "open" /\ StartCheck(NoJob) /\ LinkGoes(l, "taking")
    <3>1. links[l].at = "opening" /\ links'[l].at = "taking" /\ \A k \in Links \ {l} : links'[k] = links[k]
      BY <1>0, <1>2, <2>3, LinkMoved DEF openAfterLink
    <3>2. Unheard
      BY <2>3, <3>1 DEF Unheard
    <3> QED
      BY <1>2, <2>3, <3>1, <3>2, ServedSame DEF openAfterLink
  <2> QED
    BY <1>2, <2>1, <2>2, <2>3 DEF openAfterLink
<1>3. CASE takeRerunJob(l)
  <2>1. /\ links[l].at = "taking" /\ links'[l].at \in {"done", "rerunning"}
        /\ \A k \in Links \ {l} : links'[k] = links[k] /\ UNCHANGED <<checks, begun, pr, pushes>>
    BY <1>0, <1>3, LinkSet DEF takeRerunJob
  <2> QED
    BY <1>3, <2>1, ServedGrows, ServedSame DEF takeRerunJob
<1>4. CASE rerunAfterLink(l)
  <2>1. /\ links[l].at = "rerunning" /\ links'[l].at = "done"
        /\ \A k \in Links \ {l} : links'[k] = links[k]
    BY <1>0, <1>4, LinkSet DEF rerunAfterLink
  <2> QED
    BY <1>0, <1>4, <2>1, ServedGrows DEF rerunAfterLink
<1>5. CASE LinkFails(l)
  <2>1. /\ links'[l].at = "done" /\ \A k \in Links \ {l} : links'[k] = links[k]
        /\ links[l].at \notin {"idle", "done"}
    BY <1>0, <1>5, LinkSet DEF LinkFails
  <2>2. CASE links[l].at = "clearing"
    BY <1>5, <2>1, <2>2, ServedSame DEF LinkFails
  <2>3. CASE links[l].at # "clearing"
    BY <1>5, <2>1, <2>3, ServedGrows DEF LinkFails
  <2> QED
    BY <2>2, <2>3
<1> QED
  BY <1>1, <1>2, <1>3, <1>4, <1>5 DEF ServeLink

\* What a step may add to what is at work.
Allowed == Paid' - Paid + IF Unheard THEN 1 ELSE 0

LEMMA StepPays ==
  ASSUME TypeOK, IsFiniteSet(Served), [Next]_vars
  PROVE  IsFiniteSet(Served') /\ Weight' - Weight <= Allowed
<1> USE DEF Weight, Paid, Allowed
<1>0. /\ begun \in Nat /\ pushes \in Nat
      /\ Cardinality(Served) \in Nat
      /\ IsFiniteSet(Underway) /\ Cardinality(Underway) \in Nat
  BY UnderwayFinite, FS_CardinalityType DEF TypeOK, Underway
<1>1. IsFiniteSet(Underway') /\ Cardinality(Underway') \in Nat
  BY UnderwayFinite DEF Underway
<1>2. ASSUME NEW c \in Checks, CheckStep(c)
      PROVE  IsFiniteSet(Served') /\ Weight' - Weight <= Allowed
  <2>0. UNCHANGED <<pushes, Served>>
    BY <1>2, CheckPays DEF Served
  <2>1. CASE begun' = begun /\ Underway' \subseteq Underway /\ (pr' = pr \/ Unheard)
    <3>1. Cardinality(Underway') <= Cardinality(Underway)
      BY <1>0, <2>1, FS_Subset
    <3> QED
      BY <1>0, <1>1, <2>0, <2>1, <3>1
  <2>2. CASE begun' = begun /\ Underway' \subseteq Underway \ {c} /\ c \in Underway
    <3>1. IsFiniteSet(Underway \ {c}) /\ Cardinality(Underway \ {c}) = Cardinality(Underway) - 1
      BY <1>0, <2>2, FS_RemoveElement
    <3>2. Cardinality(Underway') <= Cardinality(Underway) - 1
      BY <2>2, <3>1, FS_Subset
    <3> QED
      BY <1>0, <1>1, <2>0, <2>2, <3>2
  <2>3. CASE /\ begun' = begun + 1 /\ pr = "closed" /\ pr' = "open"
             /\ Underway' \subseteq (Underway \ {c}) \cup {begun + 1} /\ c \in Underway
    <3> DEFINE left == Underway \ {c}
    <3>1. IsFiniteSet(left) /\ Cardinality(left) = Cardinality(Underway) - 1
      BY <1>0, <2>3, FS_RemoveElement
    <3>2. IsFiniteSet(left \cup {begun + 1}) /\ Cardinality(left \cup {begun + 1}) <= Cardinality(left) + 1
      BY <1>0, <3>1, FS_AddElement
    <3>3. Cardinality(Underway') <= Cardinality(left \cup {begun + 1})
      BY <2>3, <3>2, FS_Subset
    <3>4. Cardinality(left \cup {begun + 1}) \in Nat
      BY <3>2, FS_CardinalityType
    <3>5. Cardinality(Underway') <= Cardinality(Underway)
      BY <1>0, <1>1, <3>1, <3>2, <3>3, <3>4
    <3> QED
      BY <1>0, <1>1, <2>0, <2>3, <3>5
  <2>4. CASE /\ Unheard /\ begun' = begun + 1 /\ pr = "closed" /\ pr' = "open"
             /\ Underway' \subseteq Underway \cup {begun + 1}
    <3>1. /\ IsFiniteSet(Underway \cup {begun + 1})
          /\ Cardinality(Underway \cup {begun + 1}) <= Cardinality(Underway) + 1
      BY <1>0, FS_AddElement
    <3>2. Cardinality(Underway') <= Cardinality(Underway \cup {begun + 1})
      BY <2>4, <3>1, FS_Subset
    <3>3. Cardinality(Underway \cup {begun + 1}) \in Nat
      BY <3>1, FS_CardinalityType
    <3>4. Cardinality(Underway') <= Cardinality(Underway) + 1
      BY <1>0, <1>1, <3>1, <3>2, <3>3
    <3> QED
      BY <1>0, <1>1, <2>0, <2>4, <3>4
  <2> QED
    BY <1>2, <2>1, <2>2, <2>3, <2>4, CheckPays
<1>3. ASSUME NEW l \in Links, LinkGitHubDiscord(l) \/ ServeLink(l) \/ LinkFails(l)
      PROVE  IsFiniteSet(Served') /\ Weight' - Weight <= Allowed
  <2>1. ASSUME UNCHANGED <<checks, begun, pr>>,
               \/ Served' = Served
               \/ IsFiniteSet(Served') /\ Cardinality(Served') = Cardinality(Served) + 1
        PROVE  IsFiniteSet(Served') /\ Weight' - Weight <= Allowed
    <3>1. Underway' = Underway /\ pushes' = pushes
      BY <1>0, <1>3, <2>1, LinkPays DEF Underway, Running
    <3> QED
      BY <1>0, <2>1, <3>1
  <2>2. ASSUME NEW of \in 0 .. MaxChecks, StartCheck(of), pr' \in {pr, "open"},
               IsFiniteSet(Served'), Cardinality(Served') = Cardinality(Served) + 1
        PROVE  IsFiniteSet(Served') /\ Weight' - Weight <= Allowed
    <3>1. begun' = begun + 1 /\ Cardinality(Underway') <= Cardinality(Underway) + 1 /\ UNCHANGED pushes
      BY <1>0, <1>3, <2>2, StartPays, LinkPays
    <3> QED
      BY <1>0, <1>1, <2>2, <3>1
  <2>3. CASE Unheard /\ StartCheck(NoJob) /\ pr = "closed" /\ pr' = "open" /\ UNCHANGED Served
    <3>1. begun' = begun + 1 /\ Cardinality(Underway') <= Cardinality(Underway) + 1 /\ UNCHANGED pushes
      BY <1>0, <1>3, <2>3, StartPays, LinkPays, GateAssumption
    <3> QED
      BY <1>0, <1>1, <2>3, <3>1
  <2> QED
    BY <1>0, <1>3, <2>1, <2>2, <2>3, LinkPays
<1>4. CASE Push
  <2>1. begun' = begun + 1 /\ Cardinality(Underway') <= Cardinality(Underway) + 1
    BY <1>4, StartPays, GateAssumption DEF Push
  <2>2. pushes' = pushes + 1 /\ pr' = pr /\ Served' = Served
    BY <1>4 DEF Push, Served
  <2> QED
    BY <1>0, <1>1, <2>1, <2>2
<1>5. CASE Withdraw \/ LinkElsewhere \/ UNCHANGED vars
  <2>1. UNCHANGED <<begun, pushes, pr, checks, links>>
    BY <1>5 DEF Withdraw, LinkElsewhere, vars
  <2>2. Underway' = Underway /\ Served' = Served
    BY <2>1 DEF Underway, Served, Running
  <2> QED
    BY <1>0, <2>1, <2>2
<1> QED
  BY <1>2, <1>3, <1>4, <1>5 DEF Next, CheckStep

\* As long as no call fails, whoever closes or opens the pull request hears of it.
LEMMA Heard ==
  ASSUME TypeOK, ~MayFail, [Next]_vars
  PROVE  ~Unheard
<1>0. checks \in [Checks -> CheckRecords] /\ LinksOK /\ begun \in Nat
  BY DEF TypeOK, ChecksOK, CheckRecords
<1>1. ASSUME NEW c \in Checks, ClosePullRequest(c) \/ OpenPullRequest(c) PROVE ~Unheard
  <2>1. PICK next \in Requested(c) :
          \/ checks' = [checks EXCEPT ![c] = next]
          \/ begun < MaxChecks /\ checks' = [checks EXCEPT ![c] = next, ![begun + 1] = Started(NoJob)]
    BY <1>1 DEF ClosePullRequest, OpenPullRequest
  <2>2. checks[c].at \in {"closing", "opening"} /\ UNCHANGED links
    BY <1>1 DEF ClosePullRequest, OpenPullRequest
  <2>3. next.at = "done"
    BY <2>2, RequestedKeeps
  <2>4. begun + 1 # c /\ (begun < MaxChecks => checks[begun + 1].at = "absent")
    BY <1>0, <2>2, GateAssumption DEF TypeOK, ChecksOK, Absent
  <2>5. checks'[c] = next /\ \A d \in Checks \ {c, begun + 1} : checks'[d] = checks[d]
    BY <1>0, <2>1, <2>4
  <2>6. begun + 1 \in Checks => checks'[begun + 1] = checks[begun + 1] \/ checks[begun + 1].at = "absent"
    BY <1>0, <2>1, <2>4
  <2> QED
    BY <2>2, <2>3, <2>5, <2>6 DEF Unheard
<1>2. ASSUME NEW l \in Links, openAfterLink(l), pr' # pr PROVE ~Unheard
  <2>1. StartCheck(NoJob) /\ LinkGoes(l, "clearing")
    BY <1>2 DEF openAfterLink
  <2>2. /\ checks[begun + 1].at = "absent"
        /\ \A d \in Checks : d # begun + 1 => checks'[d] = checks[d]
    BY <1>0, <2>1, GateAssumption DEF StartCheck, TypeOK, ChecksOK, Absent
  <2>3. links'[l].at = "clearing" /\ \A k \in Links \ {l} : links'[k] = links[k]
    BY <1>0, <2>1, LinkMoved
  <2> QED
    BY <2>2, <2>3 DEF Unheard
<1>3. CASE UNCHANGED pr
  BY <1>3 DEF Unheard
<1> QED
  BY <1>1, <1>2, <1>3 DEF Next, ServeCheck, AskAgain, GiveUp, ResolveUser, ReadAutoClosed, SyncSetupComment,
     recordPendingRerun, ReportUnlinked, EvaluateRules, NotifyRulesFailed, LinkGitHubDiscord, ServeLink, LinkFails,
     SyncAfterLink, clearPendingRerun, takeRerunJob, rerunAfterLink, Push, Withdraw, LinkElsewhere, vars

LEMMA PaidStep == TypeOK /\ PaidInv /\ [Next]_vars => PaidInv'
<1> SUFFICES ASSUME TypeOK, PaidInv, [Next]_vars PROVE PaidInv'
  OBVIOUS
<1>1. IsFiniteSet(Served') /\ Weight' - Weight <= Allowed
  BY StepPays DEF PaidInv
<1>2. ASSUME ~MayFail PROVE Weight' <= Paid'
  <2>1. ~Unheard /\ Weight <= Paid
    BY <1>2, Heard DEF PaidInv, ChecksPaidFor
  <2>2. Weight \in Int /\ Paid \in Int
    BY UnderwayFinite, FS_CardinalityType DEF TypeOK, PaidInv, Weight, Paid, Underway
  <2>3. Weight' \in Int /\ Paid' \in Int
    <3>1. begun' \in Nat /\ pushes' \in Nat
      BY TypeStep DEF TypeOK
    <3>2. Cardinality(Underway') \in Nat /\ Cardinality(Served') \in Nat
      BY <1>1, UnderwayFinite, FS_CardinalityType DEF Underway
    <3> QED
      BY <3>1, <3>2 DEF Weight, Paid
  <2>4. Weight' - Weight <= Paid' - Paid + 0
    BY <1>1, <2>1 DEF Allowed
  <2>5. \A w, p, v, q \in Int : w <= p /\ v - w <= q - p + 0 => v <= q
    OBVIOUS
  <2> QED
    BY <2>1, <2>2, <2>3, <2>4, <2>5, Zenon
<1> QED
  BY <1>1, <1>2 DEF PaidInv, ChecksPaidFor

LEMMA ChecksPaid == Spec => []PaidInv
<1>1. Init => PaidInv
  <2> SUFFICES ASSUME Init PROVE PaidInv
    OBVIOUS
  <2>1. Underway = {} /\ Served = {}
    BY DEF Init, Underway, Served, Running, Absent
  <2> QED
    BY <2>1, FS_EmptySet DEF Init, PaidInv, ChecksPaidFor, Weight, Paid
<1> QED
  BY <1>1, TypeCorrect, PaidStep, PTL DEF Spec

\* action.yml, close-on-failure, which needs the workflow to run for reopened
\* pull requests: checks, closes, opens and re-runs cannot answer one another for
\* ever.  As long as no call fails, a push or a link pays for two checks at most.
THEOREM ChecksArePaidFor == Spec => []ChecksPaidFor
BY ChecksPaid, PTL DEF PaidInv

\* And whatever fails, a step adds no more than the push or the link it serves pays
\* for, but for a closing or opening that whoever asked for it does not hear of.
THEOREM StepsArePaidFor == Spec => StepsPaidFor
<1>1. TypeOK /\ PaidInv /\ [Next]_vars => [Weight' - Weight <= Paid' - Paid + IF Unheard THEN 1 ELSE 0]_vars
  BY StepPays DEF PaidInv, Allowed
<1> QED
  BY <1>1, TypeCorrect, ChecksPaid, PTL DEF Spec, StepsPaidFor

\* Something is about to start a check.
StartWanted ==
    \/ pushes < MaxPushes
    \/ pr = "closed" /\ \E c \in Checks : checks[c].at = "opening"
    \/ \E l \in Links : links[l].at \in {"opening", "rerunning"}

\* So the bound on the checks of a run in which no call fails hides nothing once it
\* is two for each push and each link: a check that GitHub would start has room to.
THEOREM RoomToStart ==
  ASSUME ~MayFail, IsFiniteSet(Links), 2 * (MaxPushes + Cardinality(Links)) <= MaxChecks
  PROVE  Spec => [](StartWanted => begun < MaxChecks)
<1>1. TypeOK /\ PaidInv => (StartWanted => begun < MaxChecks)
  <2> SUFFICES ASSUME TypeOK, PaidInv, StartWanted PROVE begun < MaxChecks
    OBVIOUS
  <2>0. /\ begun \in Nat /\ pushes \in Nat /\ pushes <= MaxPushes /\ MaxPushes \in Nat /\ MaxChecks \in Nat
        /\ Cardinality(Served) \in Nat /\ Cardinality(Links) \in Nat
        /\ IsFiniteSet(Underway) /\ Cardinality(Underway) \in Nat
    BY GateAssumption, UnderwayFinite, FS_CardinalityType DEF TypeOK, PaidInv, Underway
  <2>1. Cardinality(Served) <= Cardinality(Links)
    BY FS_Subset DEF Served
  <2>2. begun + Cardinality(Underway) + (IF pr = "closed" THEN 1 ELSE 0) <= 2 * (pushes + Cardinality(Served))
    BY DEF PaidInv, ChecksPaidFor, Weight, Paid
  <2>3. CASE pushes < MaxPushes
    BY <2>0, <2>1, <2>2, <2>3
  <2>4. ASSUME pr = "closed", NEW c \in Checks, checks[c].at = "opening" PROVE begun < MaxChecks
    <3>1. Underway # {}
      BY <2>4 DEF Underway, Running
    <3>2. Cardinality(Underway) # 0
      BY <2>0, <3>1, FS_EmptySet
    <3> QED
      BY <2>0, <2>1, <2>2, <2>4, <3>2
  <2>5. ASSUME NEW l \in Links, links[l].at \in {"opening", "rerunning"} PROVE begun < MaxChecks
    <3>1. Served \subseteq Links \ {l}
      BY <2>5 DEF Served
    <3>2. IsFiniteSet(Links \ {l}) /\ Cardinality(Links \ {l}) = Cardinality(Links) - 1
      BY FS_RemoveElement
    <3>3. Cardinality(Served) <= Cardinality(Links) - 1
      BY <3>1, <3>2, FS_Subset
    <3> QED
      BY <2>0, <2>2, <3>3
  <2> QED
    BY <2>3, <2>4, <2>5 DEF StartWanted
<1> QED
  BY <1>1, TypeCorrect, ChecksPaid, PTL
=============================================================================
