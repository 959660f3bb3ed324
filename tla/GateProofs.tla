------------------------------ MODULE GateProofs ------------------------------
(***************************************************************************)
(* What Gate promises for any number of checks, pushes and links.          *)
(***************************************************************************)
EXTENDS Gate, TLAPS

USE DEF Checks, NoJob

CheckRecords == [at : Phases, status : statuses \cup {"none", "rules_failed"},
                 told : BOOLEAN, of : 0 .. MaxChecks, asks : 0 .. maxAttempts, tries : 0 .. maxAttempts]

\* The steps of one check.
CheckStep(c) == ServeCheck(c) \/ AskAgain(c) \/ GiveUp(c)

LEMMA AskingTyped ==
  ASSUME NEW of \in 0 .. MaxChecks, NEW n \in 0 .. maxAttempts
  PROVE  Asking(of, n) \in CheckRecords
BY GateAssumption DEF Asking, CheckRecords, Phases, Unanswered

LEMMA StartedTyped == \A of \in 0 .. MaxChecks : Started(of) \in CheckRecords
BY AskingTyped, GateAssumption DEF Started

\* What becomes of a check by a request to close or open: it ends or makes the
\* request again, and is otherwise the check it was.
LEMMA RequestedKeeps ==
  ASSUME TypeOK, NEW c \in Checks, checks[c].at \in {"closing", "opening"}, NEW next \in Requested(c)
  PROVE  /\ next \in CheckRecords /\ next.at \in {"done", checks[c].at} /\ (~MayFail => next.at = "done")
         /\ next.status = checks[c].status /\ next.of = checks[c].of /\ next.asks = checks[c].asks
         /\ next.at = checks[c].at => next.tries # checks[c].tries
<1> USE DEF Phases
<1>1. checks[c] \in CheckRecords /\ maxAttempts \in Nat
  BY GateAssumption DEF TypeOK, ChecksOK, CheckRecords
<1>2. CASE next = [checks[c] EXCEPT !.at = "done", !.tries = 0]
  <2>1. 0 \in 0 .. maxAttempts
    BY <1>1
  <2>2. next \in CheckRecords /\ next.at = "done"
    BY <1>1, <1>2, <2>1 DEF CheckRecords
  <2> QED
    BY <1>1, <1>2, <2>2 DEF CheckRecords
<1>3. CASE MayFail /\ next = [checks[c] EXCEPT !.tries = @ + 1] /\ next.tries < maxAttempts
  <2>1. next.tries = checks[c].tries + 1 /\ checks[c].tries \in Nat
    BY <1>1, <1>3 DEF CheckRecords
  <2>2. next.tries \in 0 .. maxAttempts /\ next.tries # checks[c].tries
    BY <1>1, <1>3, <2>1
  <2>3. /\ next \in CheckRecords /\ next.at = checks[c].at
        /\ next.status = checks[c].status /\ next.of = checks[c].of /\ next.asks = checks[c].asks
    BY <1>1, <1>3, <2>1, <2>2 DEF CheckRecords
  <2> QED
    BY <1>3, <2>2, <2>3
<1> QED
  BY <1>2, <1>3 DEF Requested

\* A running check that moves on stays well typed.
LEMMA CheckTyped ==
  ASSUME ChecksOK, NEW c \in Checks, checks[c].at # "absent", UNCHANGED begun,
         NEW new \in CheckRecords, new.at # "absent", checks' = [checks EXCEPT ![c] = new]
  PROVE  ChecksOK'
<1>1. checks' \in [Checks -> CheckRecords]
  BY DEF ChecksOK, CheckRecords
<1>2. \A d \in Checks : checks'[d] = IF d = c THEN new ELSE checks[d]
  BY DEF ChecksOK
<1>3. ~(c > begun)
  BY DEF ChecksOK, Absent
<1> QED
  BY <1>1, <1>2, <1>3 DEF ChecksOK, CheckRecords

LEMMA CheckGoesTyped ==
  ASSUME ChecksOK, NEW c \in Checks, checks[c].at # "absent", UNCHANGED begun,
         NEW phase \in Phases, phase # "absent", CheckGoes(c, phase)
  PROVE  ChecksOK'
<1> DEFINE new == [checks[c] EXCEPT !.at = phase]
<1>1. checks[c] \in CheckRecords
  BY DEF ChecksOK, CheckRecords
<1>2. new \in CheckRecords /\ new.at # "absent"
  BY <1>1 DEF CheckRecords
<1>3. checks' = [checks EXCEPT ![c] = new]
  BY DEF CheckGoes
<1> HIDE DEF new
<1> QED
  BY <1>2, <1>3, CheckTyped

\* A check that starts is well typed, and the next in order.
LEMMA StartTyped ==
  ASSUME TypeOK, NEW of \in 0 .. MaxChecks, StartCheck(of)
  PROVE  ChecksOK' /\ begun' \in 0 .. MaxChecks
<1>0. begun \in 0 .. MaxChecks - 1 /\ begun' = begun + 1 /\ begun + 1 \in Checks
  BY GateAssumption DEF TypeOK, StartCheck
<1>1. Started(of) \in CheckRecords /\ Started(of).at = "start"
  BY StartedTyped DEF Started, Asking
<1>2. checks' = [checks EXCEPT ![begun + 1] = Started(of)]
  BY DEF StartCheck
<1>3. checks' \in [Checks -> CheckRecords]
  BY <1>0, <1>1, <1>2 DEF TypeOK, ChecksOK, CheckRecords
<1>4. \A d \in Checks : checks'[d] = IF d = begun + 1 THEN Started(of) ELSE checks[d]
  BY <1>2 DEF TypeOK, ChecksOK
<1>5. \A d \in Checks : IF d > begun + 1 THEN checks'[d] = Absent ELSE checks'[d].at # "absent"
  BY <1>0, <1>1, <1>4 DEF TypeOK, ChecksOK
<1>6. ChecksOK'
  BY <1>0, <1>3, <1>5 DEF ChecksOK, CheckRecords
<1> QED
  BY <1>0, <1>6

\* A link that holds no job moves on.
LEMMA LinkGoesTyped ==
  ASSUME LinksOK, NEW l \in Links, links[l].at # "rerunning",
         NEW phase \in LinkPhases, phase # "rerunning", LinkGoes(l, phase)
  PROVE  LinksOK' /\ \A k \in Links : links'[k].job = links[k].job
<1> DEFINE new == [links[l] EXCEPT !.at = phase]
<1>1. links[l] \in [at : LinkPhases, job : 0 .. MaxChecks]
  BY DEF LinksOK
<1>2. new \in [at : LinkPhases, job : 0 .. MaxChecks] /\ new.at = phase /\ new.job = links[l].job
  BY <1>1
<1>3. links' = [links EXCEPT ![l] = new]
  BY DEF LinkGoes
<1> HIDE DEF new
<1>4. \A k \in Links : links'[k] = IF k = l THEN new ELSE links[k]
  BY <1>3 DEF LinksOK
<1>5. links' \in [Links -> [at : LinkPhases, job : 0 .. MaxChecks]]
  BY <1>2, <1>3 DEF LinksOK
<1> QED
  BY <1>2, <1>4, <1>5 DEF LinksOK

\* A link takes or drops a job.
LEMMA LinkJobTyped ==
  ASSUME LinksOK, NEW l \in Links, NEW phase \in LinkPhases, NEW j \in 0 .. MaxChecks,
         j # NoJob <=> phase = "rerunning", links' = [links EXCEPT ![l] = [at |-> phase, job |-> j]]
  PROVE  LinksOK' /\ \A k \in Links : links'[k].job = IF k = l THEN j ELSE links[k].job
<1>1. \A k \in Links : links'[k] = IF k = l THEN [at |-> phase, job |-> j] ELSE links[k]
  BY DEF LinksOK
<1>2. links' \in [Links -> [at : LinkPhases, job : 0 .. MaxChecks]]
  BY DEF LinksOK
<1> QED
  BY <1>1, <1>2 DEF LinksOK

-----------------------------------------------------------------------------
\* Each step of a check keeps the checks well typed.
LEMMA ServeCheckTyped ==
  ASSUME TypeOK, NEW c \in Checks, CheckStep(c)
  PROVE  ChecksOK' /\ begun' \in 0 .. MaxChecks
<1> USE DEF Phases, Unanswered
<1>0. ChecksOK /\ checks[c] \in CheckRecords /\ pr \in {"open", "closed", "left"} /\ account \in statuses
  BY DEF TypeOK, ChecksOK, CheckRecords
<1>1. CASE ResolveUser(c)
  <2> DEFINE new == [checks[c] EXCEPT !.at = IF account = "linked" THEN "reading" ELSE "syncing",
                                      !.status = account]
  <2>1. new \in CheckRecords /\ new.at # "absent"
    BY <1>0 DEF CheckRecords
  <2>2. checks' = [checks EXCEPT ![c] = new] /\ checks[c].at # "absent" /\ UNCHANGED begun
    BY <1>1, <1>0 DEF ResolveUser, ChecksOK
  <2> HIDE DEF new
  <2> QED
    BY <1>0, <2>1, <2>2, CheckTyped DEF TypeOK
<1>2. CASE ReadAutoClosed(c)
  <2>0. PICK told \in BOOLEAN : checks' = [checks EXCEPT ![c].at = "syncing", ![c].told = told]
    BY <1>2 DEF ReadAutoClosed
  <2> DEFINE new == [checks[c] EXCEPT !.at = "syncing", !.told = told]
  <2>1. new \in CheckRecords /\ new.at # "absent"
    BY <1>0 DEF CheckRecords
  <2>2. checks' = [checks EXCEPT ![c] = new] /\ checks[c].at # "absent" /\ UNCHANGED begun
    BY <1>2, <1>0, <2>0 DEF ReadAutoClosed, ChecksOK
  <2> HIDE DEF new
  <2> QED
    BY <1>0, <2>1, <2>2, CheckTyped DEF TypeOK
<1>3. CASE SyncSetupComment(c) \/ recordPendingRerun(c)
  BY <1>0, <1>3, CheckGoesTyped DEF SyncSetupComment, recordPendingRerun, TypeOK
<1>4. CASE ReportUnlinked(c) \/ NotifyRulesFailed(c) \/ GiveUp(c)
  <2>1. PICK phase \in {"closing", "done"} : CheckGoes(c, phase)
    BY <1>4 DEF ReportUnlinked, NotifyRulesFailed, GiveUp
  <2>2. checks[c].at # "absent" /\ UNCHANGED begun
    BY <1>4 DEF ReportUnlinked, NotifyRulesFailed, GiveUp
  <2> QED
    BY <1>0, <2>1, <2>2, CheckGoesTyped DEF TypeOK
<1>5. CASE EvaluateRules(c)
  <2>1. checks[c].at # "absent" /\ UNCHANGED begun
    BY <1>5 DEF EvaluateRules
  <2>2. ASSUME NEW phase \in {"opening", "done"},
               checks' = [checks EXCEPT ![c].at = phase, ![c].told = FALSE]
        PROVE  ChecksOK' /\ begun' \in 0 .. MaxChecks
    <3> DEFINE new == [checks[c] EXCEPT !.at = phase, !.told = FALSE]
    <3>1. new \in CheckRecords /\ new.at # "absent"
      BY <1>0 DEF CheckRecords
    <3>2. checks' = [checks EXCEPT ![c] = new]
      BY <2>2, <1>0 DEF ChecksOK
    <3> HIDE DEF new
    <3> QED
      BY <1>0, <2>1, <3>1, <3>2, CheckTyped DEF TypeOK
  <2>3. ASSUME NEW phase \in {"closing", "notifying", "done"},
               checks' = [checks EXCEPT ![c].at = phase, ![c].status = "rules_failed", ![c].told = FALSE]
        PROVE  ChecksOK' /\ begun' \in 0 .. MaxChecks
    <3> DEFINE new == [checks[c] EXCEPT !.at = phase, !.status = "rules_failed", !.told = FALSE]
    <3>1. new \in CheckRecords /\ new.at # "absent"
      BY <1>0 DEF CheckRecords
    <3>2. checks' = [checks EXCEPT ![c] = new]
      BY <2>3, <1>0 DEF ChecksOK
    <3> HIDE DEF new
    <3> QED
      BY <1>0, <2>1, <3>1, <3>2, CheckTyped DEF TypeOK
  <2> QED
    BY <1>5, <2>2, <2>3 DEF EvaluateRules
<1>6. CASE ClosePullRequest(c) \/ OpenPullRequest(c)
  <2>1. PICK next \in Requested(c) :
          \/ checks' = [checks EXCEPT ![c] = next] /\ UNCHANGED begun
          \/ /\ begun < MaxChecks /\ begun' = begun + 1
             /\ checks' = [checks EXCEPT ![c] = next, ![begun + 1] = Started(NoJob)]
    BY <1>6 DEF ClosePullRequest, OpenPullRequest
  <2>2. checks[c].at \in {"closing", "opening"}
    BY <1>6 DEF ClosePullRequest, OpenPullRequest
  <2>3. next \in CheckRecords /\ next.at # "absent"
    BY <2>2, RequestedKeeps
  <2>4. CASE checks' = [checks EXCEPT ![c] = next] /\ UNCHANGED begun
    BY <1>0, <2>2, <2>3, <2>4, CheckTyped DEF TypeOK
  <2>5. CASE /\ begun < MaxChecks /\ begun' = begun + 1
             /\ checks' = [checks EXCEPT ![c] = next, ![begun + 1] = Started(NoJob)]
    <3>1. Started(NoJob) \in CheckRecords /\ Started(NoJob).at = "start"
      BY StartedTyped, GateAssumption DEF Started, Asking
    <3>2. begun + 1 \in Checks /\ c # begun + 1 /\ ~(c > begun) /\ begun \in Nat
      BY <1>0, <2>2, <2>5, GateAssumption DEF TypeOK, ChecksOK, Absent
    <3>3. checks' \in [Checks -> CheckRecords]
      BY <1>0, <2>3, <2>5, <3>1 DEF ChecksOK, CheckRecords
    <3>4. \A d \in Checks : checks'[d] = IF d = begun + 1 THEN Started(NoJob) ELSE IF d = c THEN next ELSE checks[d]
      BY <1>0, <2>5, <3>2 DEF ChecksOK
    <3>5. \A d \in Checks : IF d > begun + 1 THEN checks'[d] = Absent ELSE checks'[d].at # "absent"
      BY <1>0, <2>3, <3>1, <3>2, <3>4 DEF ChecksOK
    <3>6. begun' \in 0 .. MaxChecks /\ begun' = begun + 1
      BY <2>5, <3>2, GateAssumption
    <3> QED
      BY <3>3, <3>5, <3>6 DEF ChecksOK, CheckRecords
  <2> QED
    BY <2>1, <2>4, <2>5
<1>7. CASE AskAgain(c)
  <2> DEFINE new == Asking(checks[c].of, checks[c].asks + 1)
  <2>1. checks[c].of \in 0 .. MaxChecks /\ checks[c].asks + 1 \in 0 .. maxAttempts
    BY <1>0, <1>7, GateAssumption DEF CheckRecords, AskAgain
  <2>2. new \in CheckRecords /\ new.at # "absent"
    BY <2>1, AskingTyped DEF Asking
  <2>3. checks' = [checks EXCEPT ![c] = new] /\ checks[c].at # "absent" /\ UNCHANGED begun
    BY <1>7, <1>0 DEF AskAgain, ChecksOK
  <2> HIDE DEF new
  <2> QED
    BY <1>0, <2>2, <2>3, CheckTyped DEF TypeOK
<1> QED
  BY <1>1, <1>2, <1>3, <1>4, <1>5, <1>6, <1>7 DEF ServeCheck, CheckStep

\* Each step of a link keeps the links well typed.
LEMMA ServeLinkTyped ==
  ASSUME TypeOK, NEW l \in Links, LinkGitHubDiscord(l) \/ ServeLink(l) \/ LinkFails(l)
  PROVE  LinksOK'
<1> USE DEF LinkPhases
<1>0. LinksOK /\ job \in 0 .. MaxChecks
  BY DEF TypeOK
<1>1. CASE LinkGitHubDiscord(l) \/ SyncAfterLink(l) \/ clearPendingRerun(l)
  BY <1>0, <1>1, LinkGoesTyped DEF LinkGitHubDiscord, SyncAfterLink, clearPendingRerun
<1>2. CASE openAfterLink(l)
  BY <1>0, <1>2, LinkGoesTyped DEF openAfterLink
<1>3. CASE takeRerunJob(l)
  BY <1>0, <1>3, LinkJobTyped DEF takeRerunJob
<1>4. CASE rerunAfterLink(l) \/ LinkFails(l)
  BY <1>0, <1>4, LinkJobTyped, GateAssumption DEF rerunAfterLink, LinkFails
<1> QED
  BY <1>1, <1>2, <1>3, <1>4 DEF ServeLink

LEMMA TypeStep == TypeOK /\ [Next]_vars => TypeOK'
<1> SUFFICES ASSUME TypeOK, [Next]_vars PROVE TypeOK'
  OBVIOUS
<1>1. ASSUME NEW c \in Checks, CheckStep(c) PROVE TypeOK'
  <2>1. ChecksOK' /\ begun' \in 0 .. MaxChecks
    BY <1>1, ServeCheckTyped
  <2>2. UNCHANGED <<account, pushes, links, crossed>>
    BY <1>1 DEF CheckStep, ServeCheck, ResolveUser, ReadAutoClosed, SyncSetupComment, recordPendingRerun,
                ReportUnlinked, EvaluateRules, NotifyRulesFailed, ClosePullRequest, OpenPullRequest, AskAgain, GiveUp
  <2>3. row' \in BOOLEAN
    BY <1>1 DEF TypeOK, CheckStep, ServeCheck, ResolveUser, ReadAutoClosed, SyncSetupComment, recordPendingRerun,
                ReportUnlinked, EvaluateRules, NotifyRulesFailed, ClosePullRequest, OpenPullRequest, AskAgain, GiveUp
  <2>4. job' \in {job, NoJob, c}
    BY <1>1 DEF CheckStep, ServeCheck, ResolveUser, ReadAutoClosed, SyncSetupComment, recordPendingRerun,
                ReportUnlinked, EvaluateRules, NotifyRulesFailed, ClosePullRequest, OpenPullRequest, AskAgain, GiveUp
  <2>5. pr' \in {pr, "open", "closed", "left"}
    BY <1>1 DEF CheckStep, ServeCheck, ResolveUser, ReadAutoClosed, SyncSetupComment, recordPendingRerun,
                ReportUnlinked, EvaluateRules, NotifyRulesFailed, ClosePullRequest, OpenPullRequest, AskAgain, GiveUp
  <2>6. job' \in 0 .. MaxChecks
    BY <2>4, GateAssumption DEF TypeOK
  <2> QED
    BY <2>1, <2>2, <2>3, <2>5, <2>6 DEF TypeOK, LinksOK
<1>2. ASSUME NEW l \in Links, LinkGitHubDiscord(l) \/ ServeLink(l) \/ LinkFails(l) PROVE TypeOK'
  <2>1. LinksOK'
    BY <1>2, ServeLinkTyped
  <2>2. ChecksOK' /\ begun' \in 0 .. MaxChecks
    <3>1. CASE UNCHANGED <<checks, begun>>
      BY <3>1 DEF TypeOK, ChecksOK
    <3>2. CASE openAfterLink(l) \/ rerunAfterLink(l)
      <4>1. links[l].job \in 0 .. MaxChecks /\ NoJob \in 0 .. MaxChecks
        BY GateAssumption DEF TypeOK, LinksOK
      <4>2. UNCHANGED <<checks, begun>> \/ StartCheck(NoJob) \/ StartCheck(links[l].job)
        BY <3>2 DEF openAfterLink, rerunAfterLink
      <4> QED
        BY <3>1, <4>1, <4>2, StartTyped
    <3> QED
      BY <1>2, <3>1, <3>2 DEF ServeLink, LinkGitHubDiscord, SyncAfterLink, clearPendingRerun, takeRerunJob, LinkFails
  <2>3. account' \in statuses /\ pr' \in {"open", "closed", "left"} /\ job' \in 0 .. MaxChecks /\ UNCHANGED pushes
    BY <1>2, GateAssumption DEF TypeOK, statuses, ServeLink, LinkGitHubDiscord, SyncAfterLink, openAfterLink,
                clearPendingRerun, takeRerunJob, rerunAfterLink, LinkFails
  <2>4. row' \in BOOLEAN /\ crossed' \in BOOLEAN
    BY <1>2 DEF TypeOK, ServeLink, LinkGitHubDiscord, SyncAfterLink, openAfterLink,
                clearPendingRerun, takeRerunJob, rerunAfterLink, LinkFails
  <2> QED
    BY <2>1, <2>2, <2>3, <2>4 DEF TypeOK
<1>3. CASE Push
  <2>1. ChecksOK' /\ begun' \in 0 .. MaxChecks
    BY <1>3, StartTyped, GateAssumption DEF Push
  <2> QED
    BY <1>3, <2>1, GateAssumption DEF Push, TypeOK, LinksOK
<1>4. CASE Withdraw
  <2>1. crossed' \in BOOLEAN /\ account' \in statuses
    BY <1>4, GateAssumption DEF Withdraw, TypeOK, statuses
  <2> QED
    BY <1>4, <2>1 DEF Withdraw, TypeOK, ChecksOK, LinksOK
<1>5. CASE LinkElsewhere
  BY <1>5 DEF LinkElsewhere, TypeOK, ChecksOK, LinksOK, statuses
<1>6. CASE UNCHANGED vars
  BY <1>6 DEF vars, TypeOK, ChecksOK, LinksOK
<1> QED
  BY <1>1, <1>2, <1>3, <1>4, <1>5, <1>6 DEF Next, CheckStep

\* Type correctness of checks and links, for any number of them.
THEOREM TypeCorrect == Spec => []TypeOK
<1>1. Init => TypeOK
  <2> SUFFICES ASSUME Init PROVE TypeOK
    OBVIOUS
  <2>1. ChecksOK
    BY GateAssumption DEF Init, ChecksOK, Absent, Phases
  <2>2. LinksOK
    BY GateAssumption DEF Init, LinksOK, LinkPhases
  <2>3. row \in BOOLEAN /\ crossed \in BOOLEAN
    BY DEF Init
  <2>4. account \in statuses /\ job \in 0 .. MaxChecks /\ pr \in {"open", "closed", "left"}
    BY GateAssumption DEF Init, statuses
  <2>5. begun \in 0 .. MaxChecks /\ pushes \in 0 .. MaxPushes
    BY GateAssumption DEF Init
  <2> QED
    BY <2>1, <2>2, <2>3, <2>4, <2>5 DEF TypeOK
<1> QED
  BY <1>1, TypeStep, PTL DEF Spec

-----------------------------------------------------------------------------
\* A check that has left its job, or may be about to, and reported a missing
\* link: the only kind whose job is ever kept, taken or run again.
Owed(c) == checks[c].status \in NeedsLink /\ checks[c].at \notin Unanswered \cup {"absent"}
NotRerun(j) == \A c \in Checks : checks[c].of # j

\* What makes RerunsOnce hold: the job of a check is in one place only, kept in
\* the row, held by one link, or run again by one check.
Placed(j) ==
    /\ job = j => Owed(j) /\ NotRerun(j)
    /\ \A l \in Links : links[l].job = j =>
         /\ Owed(j) /\ NotRerun(j) /\ job # j
         /\ \A k \in Links : links[k].job = j => k = l
    /\ \A c \in Checks : checks[c].of = j => Owed(j)
    /\ \A c, d \in Checks : checks[c].of = j /\ checks[d].of = j => c = d

JobsInPlace == \A j \in Checks : AskedOnce(j) => Placed(j)

\* A check under way has asked, and has a status once the account is read.
Answering ==
    \A c \in Checks :
        /\ checks[c].at # "absent" => checks[c].asks >= 1
        /\ checks[c].at \in {"reading", "syncing", "recording"} => checks[c].status \in statuses

JobInv == Answering /\ JobsInPlace

\* A step after which every check that has asked only once still owes what it
\* owed before.
Trusts == \A d \in Checks : AskedOnce(d)' => AskedOnce(d) /\ (Owed(d) => Owed(d)')

\* A step that starts no re-run, leaves what is owed owed, and at most forgets
\* jobs keeps every job in one place.
LEMMA Forgetting ==
  ASSUME JobsInPlace, Trusts,
         \A c \in Checks : checks'[c].of = checks[c].of,
         job' \in {job, NoJob},
         \A l \in Links : links'[l].job \in {links[l].job, NoJob}
  PROVE  JobsInPlace'
<1> SUFFICES ASSUME NEW j \in Checks, AskedOnce(j)' PROVE Placed(j)'
  BY DEF JobsInPlace
<1>1. Placed(j) /\ j # NoJob /\ (Owed(j) => Owed(j)')
  BY GateAssumption DEF JobsInPlace, Trusts
<1>2. NotRerun(j) => NotRerun(j)'
  BY DEF NotRerun
<1> QED
  BY <1>1, <1>2 DEF Placed

\* So does one that leaves the checks alone.
LEMMA ChecksAlone ==
  ASSUME UNCHANGED checks
  PROVE  Trusts /\ (Answering => Answering')
BY DEF Trusts, AskedOnce, Owed, Answering

\* A check that starts had left no job, and was nobody's re-run.
LEMMA Starting ==
  ASSUME TypeOK, NEW of \in 0 .. MaxChecks, StartCheck(of)
  PROVE  /\ begun + 1 \in Checks /\ ~Owed(begun + 1) /\ checks[begun + 1].of = NoJob
         /\ \A d \in Checks : checks'[d] = IF d = begun + 1 THEN Started(of) ELSE checks[d]
         /\ Trusts
         /\ Answering => Answering'
<1>1. begun + 1 \in Checks /\ begun + 1 > begun
  BY GateAssumption DEF TypeOK, StartCheck
<1>2. checks[begun + 1] = Absent
  BY <1>1 DEF TypeOK, ChecksOK
<1>3. \A d \in Checks : checks'[d] = IF d = begun + 1 THEN Started(of) ELSE checks[d]
  BY <1>1 DEF StartCheck, TypeOK, ChecksOK
<1>4. ~Owed(begun + 1) /\ checks[begun + 1].of = NoJob
  BY <1>2 DEF Absent, Owed
<1>5. Trusts
  BY <1>2, <1>3, <1>4 DEF Trusts, Owed, AskedOnce, Absent
<1>6. Answering => Answering'
  BY <1>3 DEF Answering, Started, Asking
<1> QED
  BY <1>1, <1>3, <1>4, <1>5, <1>6

\* A check that GitHub starts is no re-run.
LEMMA StartingFresh ==
  ASSUME TypeOK, StartCheck(NoJob)
  PROVE  /\ \A d \in Checks : checks'[d].of = checks[d].of
         /\ Trusts
         /\ Answering => Answering'
<1>0. NoJob \in 0 .. MaxChecks
  BY GateAssumption
<1>1. /\ checks[begun + 1].of = NoJob
      /\ \A d \in Checks : checks'[d] = IF d = begun + 1 THEN Started(NoJob) ELSE checks[d]
      /\ Trusts
      /\ Answering => Answering'
  BY <1>0, Starting
<1>2. Started(NoJob).of = NoJob
  BY DEF Started, Asking
<1> QED
  BY <1>1, <1>2

\* A check that moves on keeps what it re-runs, and owes what it owed unless
\* it asks again.
LEMMA Moving ==
  ASSUME TypeOK, Answering, NEW c \in Checks, CheckStep(c)
  PROVE  /\ \A d \in Checks : checks'[d].of = checks[d].of
         /\ Trusts
         /\ Answering'
<1> USE DEF Unanswered, NeedsLink, statuses
<1>0. checks \in [Checks -> CheckRecords] /\ checks[c] \in CheckRecords /\ account \in statuses
  BY DEF TypeOK, ChecksOK, CheckRecords
<1>a. checks[c].at # "absent" /\ checks[c].asks >= 1
  <2>1. checks[c].at # "absent"
    BY DEF CheckStep, ServeCheck, ResolveUser, ReadAutoClosed, SyncSetupComment, recordPendingRerun,
           ReportUnlinked, EvaluateRules, NotifyRulesFailed, ClosePullRequest, OpenPullRequest, AskAgain, GiveUp
  <2> QED
    BY <2>1 DEF Answering
<1>1. CASE ResolveUser(c) \/ ReadAutoClosed(c)
  <2>1. \A d \in Checks : d # c => checks'[d] = checks[d]
    BY <1>0, <1>1 DEF ResolveUser, ReadAutoClosed
  <2>2. /\ checks'[c].of = checks[c].of /\ checks'[c].asks = checks[c].asks
        /\ checks[c].at \in {"start", "reading"} /\ checks'[c].status \in statuses
    <3>1. CASE ResolveUser(c)
      <4>1. checks'[c] = [checks[c] EXCEPT !.at = IF account = "linked" THEN "reading" ELSE "syncing",
                                           !.status = account]
        BY <1>0, <3>1 DEF ResolveUser
      <4>2. checks'[c].of = checks[c].of /\ checks'[c].asks = checks[c].asks /\ checks'[c].status = account
        BY <1>0, <4>1 DEF CheckRecords
      <4> QED
        BY <1>0, <3>1, <4>2 DEF ResolveUser
    <3>2. CASE ReadAutoClosed(c)
      <4>1. PICK told \in BOOLEAN : checks'[c] = [checks[c] EXCEPT !.at = "syncing", !.told = told]
        BY <1>0, <3>2 DEF ReadAutoClosed
      <4>2. checks'[c].of = checks[c].of /\ checks'[c].asks = checks[c].asks
        BY <1>0, <4>1 DEF CheckRecords
      <4>3. checks'[c].status = checks[c].status /\ checks[c].at = "reading"
        BY <1>0, <3>2, <4>1 DEF CheckRecords, ReadAutoClosed
      <4> QED
        BY <4>2, <4>3 DEF Answering
    <3> QED
      BY <1>1, <3>1, <3>2
  <2> QED
    BY <1>a, <2>1, <2>2 DEF Owed, Answering, Trusts, AskedOnce
<1>2. CASE \/ SyncSetupComment(c) \/ recordPendingRerun(c) \/ ReportUnlinked(c)
           \/ NotifyRulesFailed(c) \/ GiveUp(c)
  <2>1. PICK phase \in {"recording", "answered", "closing", "done"} :
          /\ CheckGoes(c, phase)
          /\ phase = "recording" => checks[c].at = "syncing"
    BY <1>2 DEF SyncSetupComment, recordPendingRerun, ReportUnlinked, NotifyRulesFailed, GiveUp
  <2>2. checks'[c] = [checks[c] EXCEPT !.at = phase] /\ \A d \in Checks : d # c => checks'[d] = checks[d]
    BY <1>0, <2>1 DEF CheckGoes
  <2>3. /\ checks'[c].of = checks[c].of /\ checks'[c].asks = checks[c].asks
        /\ checks'[c].status = checks[c].status /\ checks'[c].at = phase
    BY <1>0, <2>2 DEF CheckRecords
  <2>4. Trusts /\ \A d \in Checks : checks'[d].of = checks[d].of
    BY <2>1, <2>2, <2>3 DEF Trusts, Owed, AskedOnce
  <2>5. Answering'
    BY <1>a, <2>1, <2>2, <2>3 DEF Answering
  <2> QED
    BY <2>4, <2>5
<1>3. CASE EvaluateRules(c)
  <2>1. ~Owed(c) /\ \A d \in Checks : d # c => checks'[d] = checks[d]
    BY <1>0, <1>3 DEF EvaluateRules, Owed
  <2>2. /\ checks'[c].of = checks[c].of /\ checks'[c].asks = checks[c].asks
        /\ checks'[c].at \in {"closing", "opening", "notifying", "done"}
    <3>1. ASSUME NEW phase \in {"closing", "notifying", "done"},
                 checks' = [checks EXCEPT ![c].at = phase, ![c].status = "rules_failed", ![c].told = FALSE]
          PROVE  checks'[c].of = checks[c].of /\ checks'[c].asks = checks[c].asks /\ checks'[c].at = phase
      <4>1. checks'[c] = [checks[c] EXCEPT !.at = phase, !.status = "rules_failed", !.told = FALSE]
        BY <1>0, <3>1
      <4> QED
        BY <1>0, <4>1 DEF CheckRecords
    <3>2. ASSUME NEW phase \in {"opening", "done"},
                 checks' = [checks EXCEPT ![c].at = phase, ![c].told = FALSE]
          PROVE  checks'[c].of = checks[c].of /\ checks'[c].asks = checks[c].asks /\ checks'[c].at = phase
      <4>1. checks'[c] = [checks[c] EXCEPT !.at = phase, !.told = FALSE]
        BY <1>0, <3>2
      <4> QED
        BY <1>0, <4>1 DEF CheckRecords
    <3> QED
      BY <1>3, <3>1, <3>2 DEF EvaluateRules
  <2> QED
    BY <1>a, <2>1, <2>2 DEF Owed, Answering, Trusts, AskedOnce
<1>4. CASE ClosePullRequest(c) \/ OpenPullRequest(c)
  <2>1. PICK next \in Requested(c) :
          \/ checks' = [checks EXCEPT ![c] = next]
          \/ begun < MaxChecks /\ checks' = [checks EXCEPT ![c] = next, ![begun + 1] = Started(NoJob)]
    BY <1>4 DEF ClosePullRequest, OpenPullRequest
  <2>2. checks[c].at \in {"closing", "opening"}
    BY <1>4 DEF ClosePullRequest, OpenPullRequest
  <2>3. /\ next.of = checks[c].of /\ next.asks = checks[c].asks /\ next.status = checks[c].status
        /\ next.at \in {"closing", "opening", "done"}
    BY <2>2, RequestedKeeps
  <2>4. CASE checks' = [checks EXCEPT ![c] = next]
    <3>1. checks'[c] = next /\ \A d \in Checks : d # c => checks'[d] = checks[d]
      BY <1>0, <2>4
    <3> QED
      BY <1>a, <2>2, <2>3, <3>1 DEF Owed, Answering, Trusts, AskedOnce
  <2>5. CASE begun < MaxChecks /\ checks' = [checks EXCEPT ![c] = next, ![begun + 1] = Started(NoJob)]
    <3>1. begun + 1 \in Checks /\ begun + 1 > begun
      BY <2>5, GateAssumption DEF TypeOK
    <3>2. checks[begun + 1] = Absent /\ c # begun + 1
      <4>1. checks[begun + 1] = Absent
        BY <3>1 DEF TypeOK, ChecksOK
      <4> QED
        BY <2>2, <4>1 DEF Absent
    <3>3. checks'[begun + 1] = Started(NoJob)
      BY <1>0, <2>5, <3>1
    <3>4. checks'[c] = next
      BY <1>0, <2>5, <3>2
    <3>5. \A d \in Checks : d # c /\ d # begun + 1 => checks'[d] = checks[d]
      BY <1>0, <2>5
    <3>6. \A d \in Checks : checks'[d].of = checks[d].of
      BY <2>3, <3>2, <3>3, <3>4, <3>5 DEF Started, Asking, Absent
    <3>7. Trusts
      BY <2>2, <2>3, <3>2, <3>3, <3>4, <3>5 DEF Trusts, Owed, AskedOnce, Absent
    <3>8. Answering'
      BY <1>a, <2>3, <3>3, <3>4, <3>5 DEF Answering, Started, Asking
    <3> QED
      BY <3>6, <3>7, <3>8
  <2> QED
    BY <2>1, <2>4, <2>5
<1>5. CASE AskAgain(c)
  <2>1. checks'[c] = Asking(checks[c].of, checks[c].asks + 1) /\ \A d \in Checks : d # c => checks'[d] = checks[d]
    BY <1>0, <1>5 DEF AskAgain
  <2>2. checks[c].asks >= 1
    BY <1>5 DEF AskAgain, Answering
  <2>3. checks'[c].asks = checks[c].asks + 1 /\ checks'[c].of = checks[c].of /\ checks'[c].at = "start"
    BY <2>1 DEF Asking
  <2>4. ~(checks'[c].asks <= 1) /\ checks'[c].asks >= 1
    BY <1>0, <2>2, <2>3 DEF CheckRecords
  <2> QED
    BY <2>1, <2>3, <2>4 DEF Owed, Answering, Trusts, AskedOnce
<1> QED
  BY <1>1, <1>2, <1>3, <1>4, <1>5 DEF ServeCheck, CheckStep

-----------------------------------------------------------------------------
\* Links and checks never move a job out of its one place.
LEMMA CheckKeepsJobs ==
  ASSUME TypeOK, JobInv, NEW c \in Checks, CheckStep(c)
  PROVE  JobInv'
<1>1. /\ \A d \in Checks : checks'[d].of = checks[d].of
      /\ Trusts
      /\ Answering'
  BY Moving DEF JobInv
<1>2. UNCHANGED links
  BY DEF CheckStep, ServeCheck, ResolveUser, ReadAutoClosed, SyncSetupComment, recordPendingRerun,
         ReportUnlinked, EvaluateRules, NotifyRulesFailed, ClosePullRequest, OpenPullRequest, AskAgain, GiveUp
<1>3. CASE job' \in {job, NoJob}
  BY <1>1, <1>2, <1>3, Forgetting DEF JobInv
<1>4. CASE recordPendingRerun(c) /\ job' = c /\ checks[c].status # "linked"
  <2>1. checks[c].at = "recording" /\ checks[c].status \in NeedsLink
    BY <1>4 DEF recordPendingRerun, JobInv, Answering, statuses, NeedsLink
  <2>2. ~Owed(c)
    BY <2>1 DEF Owed, Unanswered
  <2>3. Owed(c)'
    <3>1. checks'[c] = [checks[c] EXCEPT !.at = "answered"]
      BY <1>4 DEF recordPendingRerun, CheckGoes, TypeOK, ChecksOK
    <3>2. checks'[c].at = "answered" /\ checks'[c].status = checks[c].status
      BY <3>1 DEF TypeOK, ChecksOK
    <3> QED
      BY <2>1, <3>2 DEF Owed, Unanswered
  <2> SUFFICES ASSUME NEW j \in Checks, AskedOnce(j)' PROVE Placed(j)'
    BY <1>1 DEF JobInv, JobsInPlace
  <2>4. Placed(j) /\ (Owed(j) => Owed(j)')
    BY <1>1 DEF JobInv, JobsInPlace, Trusts
  <2>5. CASE j = c
    <3>1. /\ \A l \in Links : links[l].job # c
          /\ \A d \in Checks : checks[d].of # c
      BY <2>2, <2>4, <2>5 DEF Placed
    <3> QED
      BY <1>1, <1>2, <2>3, <2>5, <3>1 DEF Placed, NotRerun
  <2>6. CASE j # c
    BY <1>1, <1>2, <1>4, <2>4, <2>6 DEF Placed, NotRerun
  <2> QED
    BY <2>5, <2>6
<1> QED
  BY <1>3, <1>4 DEF CheckStep, ServeCheck, ResolveUser, ReadAutoClosed, SyncSetupComment, recordPendingRerun,
                    ReportUnlinked, EvaluateRules, NotifyRulesFailed, ClosePullRequest, OpenPullRequest, AskAgain, GiveUp

LEMMA LinkKeepsJobs ==
  ASSUME TypeOK, JobInv, NEW l \in Links, LinkGitHubDiscord(l) \/ ServeLink(l) \/ LinkFails(l)
  PROVE  JobInv'
<1>0. /\ LinksOK /\ links \in [Links -> [at : LinkPhases, job : 0 .. MaxChecks]]
      /\ Answering /\ JobsInPlace
  BY DEF TypeOK, LinksOK, JobInv
<1>1. CASE UNCHANGED checks /\ job' \in {job, NoJob} /\ \A k \in Links : links'[k].job \in {links[k].job, NoJob}
  BY <1>0, <1>1, ChecksAlone, Forgetting DEF JobInv
<1>2. CASE LinkGitHubDiscord(l) \/ SyncAfterLink(l) \/ clearPendingRerun(l)
  <2>1. UNCHANGED checks /\ job' \in {job, NoJob} /\ \A k \in Links : links'[k].job = links[k].job
    BY <1>0, <1>2 DEF LinkGitHubDiscord, SyncAfterLink, clearPendingRerun, LinkGoes
  <2> QED
    BY <1>1, <2>1
<1>3. CASE openAfterLink(l)
  <2>1. UNCHANGED job /\ \A k \in Links : links'[k].job = links[k].job
    BY <1>0, <1>3 DEF openAfterLink, LinkGoes
  <2>2. CASE UNCHANGED checks
    BY <1>1, <2>1, <2>2
  <2>3. CASE StartCheck(NoJob)
    BY <1>0, <2>1, <2>3, StartingFresh, Forgetting DEF JobInv
  <2> QED
    BY <1>3, <2>2, <2>3 DEF openAfterLink
<1>4. CASE takeRerunJob(l)
  <2>1. /\ UNCHANGED checks /\ job' = NoJob
        /\ \A k \in Links : links'[k].job = IF k = l THEN job ELSE links[k].job
    BY <1>0, <1>4 DEF takeRerunJob
  <2> SUFFICES ASSUME NEW j \in Checks, AskedOnce(j)' PROVE Placed(j)'
    BY <1>0, <2>1, ChecksAlone DEF JobInv, JobsInPlace
  <2>2. Placed(j) /\ (Owed(j) => Owed(j)') /\ j # NoJob
    BY <1>0, <2>1, ChecksAlone, GateAssumption DEF JobsInPlace, Trusts
  <2>3. NotRerun(j) => NotRerun(j)'
    BY <2>1 DEF NotRerun
  <2> QED
    BY <2>1, <2>2, <2>3 DEF Placed
<1>5. CASE rerunAfterLink(l)
  <2>1. /\ UNCHANGED job
        /\ \A k \in Links : links'[k].job = IF k = l THEN NoJob ELSE links[k].job
    BY <1>0, <1>5 DEF rerunAfterLink
  <2>2. CASE UNCHANGED checks
    BY <1>1, <2>1, <2>2
  <2>3. CASE StartCheck(links[l].job)
    <3> DEFINE held == links[l].job
    <3>1. held \in Checks /\ held \in 0 .. MaxChecks
      BY <1>0, <1>5, GateAssumption DEF rerunAfterLink, LinksOK
    <3>2. /\ checks[begun + 1].of = NoJob
          /\ \A d \in Checks : checks'[d] = IF d = begun + 1 THEN Started(held) ELSE checks[d]
          /\ Trusts
          /\ Answering => Answering'
      BY <2>3, <3>1, Starting
    <3>3. \A d \in Checks : checks'[d].of = IF d = begun + 1 THEN held ELSE checks[d].of
      BY <3>2 DEF Started, Asking
    <3> SUFFICES ASSUME NEW j \in Checks, AskedOnce(j)' PROVE Placed(j)'
      BY <1>0, <3>2 DEF JobInv, JobsInPlace
    <3>4. Placed(j) /\ (Owed(j) => Owed(j)') /\ j # NoJob
      BY <1>0, <3>2, GateAssumption DEF JobsInPlace, Trusts
    <3>5. CASE j = held
      <4>1. /\ Owed(j)' /\ job # j
            /\ \A d \in Checks : checks[d].of # j
            /\ \A k \in Links : links[k].job = j => k = l
        BY <3>4, <3>5 DEF Placed, NotRerun
      <4> HIDE DEF held
      <4> QED
        BY <2>1, <3>3, <3>4, <3>5, <4>1 DEF Placed
    <3>6. CASE j # held
      <4> HIDE DEF held
      <4>1. \A d \in Checks : checks'[d].of = j => checks[d].of = j
        BY <3>3, <3>6
      <4> QED
        BY <2>1, <3>4, <4>1 DEF Placed, NotRerun
    <3> QED
      BY <3>5, <3>6
  <2> QED
    BY <1>5, <2>2, <2>3 DEF rerunAfterLink
<1>6. CASE LinkFails(l)
  <2>1. UNCHANGED <<checks, job>> /\ \A k \in Links : links'[k].job \in {links[k].job, NoJob}
    BY <1>0, <1>6 DEF LinkFails
  <2> QED
    BY <1>1, <2>1
<1> QED
  BY <1>2, <1>3, <1>4, <1>5, <1>6 DEF ServeLink

\* What every run of the gate keeps, whatever fails.
THEOREM JobsStayInPlace == Spec => []JobInv
<1>1. Init => JobInv
  <2> SUFFICES ASSUME Init PROVE JobInv
    OBVIOUS
  <2>1. \A c \in Checks : checks[c].of = NoJob /\ checks[c].at = "absent"
    BY DEF Init, Absent
  <2>2. job = NoJob /\ \A l \in Links : links[l].job = NoJob
    BY DEF Init
  <2>3. Answering
    BY <2>1 DEF Answering
  <2>4. \A j \in Checks : Placed(j)
    BY <2>1, <2>2, GateAssumption DEF Placed
  <2> QED
    BY <2>3, <2>4 DEF JobInv, JobsInPlace
<1>2. TypeOK /\ JobInv /\ [Next]_vars => JobInv'
  <2> SUFFICES ASSUME TypeOK, JobInv, [Next]_vars PROVE JobInv'
    OBVIOUS
  <2>1. CASE Push
    <3>1. StartCheck(NoJob) /\ UNCHANGED <<job, links>>
      BY <2>1 DEF Push
    <3> QED
      BY <3>1, StartingFresh, Forgetting DEF JobInv
  <2>2. CASE Withdraw \/ LinkElsewhere \/ UNCHANGED vars
    <3>1. UNCHANGED <<checks, job, links>>
      BY <2>2 DEF Withdraw, LinkElsewhere, vars
    <3> QED
      BY <3>1, ChecksAlone, Forgetting DEF JobInv
  <2> QED
    BY <2>1, <2>2, CheckKeepsJobs, LinkKeepsJobs DEF Next, CheckStep
<1> QED
  BY <1>1, <1>2, TypeCorrect, PTL DEF Spec

\* However many links complete, however they interleave with checks, and
\* whatever fails, no check that asked once is run again twice.
THEOREM RerunsAtMostOnce == Spec => []RerunsOnce
<1>1. TypeOK /\ JobInv => RerunsOnce
  <2> SUFFICES ASSUME TypeOK, JobsInPlace, NEW c \in Checks, NEW d \in Checks, checks[c].of # NoJob,
                      AskedOnce(checks[c].of), checks[c].of = checks[d].of
               PROVE  c = d
    BY DEF RerunsOnce, JobInv
  <2>1. checks[c].of \in Checks
    BY GateAssumption DEF TypeOK, ChecksOK
  <2> QED
    BY <2>1 DEF JobsInPlace, Placed
<1> QED
  BY <1>1, TypeCorrect, JobsStayInPlace, PTL

\* A link runs again only a check that found its author not linked.
THEOREM RerunsWhatIsOwed == Spec => []RerunsOnlyUnlinked
<1>1. TypeOK /\ JobInv => RerunsOnlyUnlinked
  <2> SUFFICES ASSUME TypeOK, JobsInPlace, NEW c \in Checks, checks[c].of # NoJob, AskedOnce(checks[c].of)
               PROVE  checks[checks[c].of].status \in NeedsLink
    BY DEF RerunsOnlyUnlinked, JobInv
  <2>1. checks[c].of \in Checks
    BY GateAssumption DEF TypeOK, ChecksOK
  <2> QED
    BY <2>1 DEF JobsInPlace, Placed, Owed
<1> QED
  BY <1>1, TypeCorrect, JobsStayInPlace, PTL
===============================================================================
