--------------------------- MODULE AutoCloseProofs ---------------------------
(***************************************************************************)
(* What AutoClose promises for any number of requests and any clock bound. *)
(***************************************************************************)
EXTENDS AutoClose, TLAPS

USE DEF Never

\* A request that moves to a phase with a time that fits it stays well typed.
LEMMA GotoTyped ==
  ASSUME RequestsOK, NEW r \in Requests, NEW phase \in Phases, NEW time \in Times,
         phase \in {"idle", "closing"} => time = Never,
         time = Never => phase \in {"idle", "closing", "rechecking"}, Goto(r, phase, time)
  PROVE  RequestsOK'
<1>1. req' \in [Requests -> [at : Phases, closedAt : Times]]
  BY DEF RequestsOK, Goto
<1>2. \A s \in Requests : req'[s] = IF s = r THEN [at |-> phase, closedAt |-> time] ELSE req[s]
  BY DEF RequestsOK, Goto
<1> QED
  BY <1>1, <1>2 DEF RequestsOK

\* A request that returns leaves the requests well typed.
LEMMA ReturnTyped ==
  ASSUME RequestsOK, NEW r \in Requests, Return(r)
  PROVE  RequestsOK'
<1>1. Goto(r, "idle", Never)
  BY DEF Goto, Return, Idle
<1> QED
  BY <1>1, GotoTyped, ClockAssumption DEF Phases, Times

\* Opening and closing a pull request keep it well formed.
LEMMA OpenedTyped == ASSUME NEW who \in {"app", "person"}, pr' = OpenedBy(who) PROVE PullRequestOK'
<1>1. OpenedBy(who) \in [state : {"open", "closed"}, merged : BOOLEAN, closedAt : Times, by : {"app", "person"}]
  BY ClockAssumption DEF OpenedBy, Times
<1>2. pr'.state = "open" /\ pr'.closedAt = Never /\ pr'.merged = FALSE
  BY DEF OpenedBy
<1> QED
  BY <1>1, <1>2 DEF PullRequestOK

LEMMA ClosedTyped ==
  ASSUME TypeOK, NEW who \in {"app", "person"}, NEW merge \in BOOLEAN,
         merge => who = "person", pr' = ClosedBy(who, merge)
  PROVE  PullRequestOK'
<1>0. clock \in Times /\ clock # Never
  BY ClockAssumption DEF TypeOK, Times
<1>1. ClosedBy(who, merge) \in [state : {"open", "closed"}, merged : BOOLEAN, closedAt : Times, by : {"app", "person"}]
  BY <1>0 DEF ClosedBy
<1>2. pr'.state = "closed" /\ pr'.closedAt = clock /\ pr'.by = who /\ pr'.merged = merge
  BY DEF ClosedBy
<1> QED
  BY <1>0, <1>1, <1>2 DEF PullRequestOK

\* Type correctness of the close and open handlers, for all requests.
THEOREM TypeCorrect == Spec => []TypeOK
<1> USE ClockAssumption DEF Times, Phases, At
<1>1. Init => TypeOK
  <2> SUFFICES ASSUME Init PROVE TypeOK
    OBVIOUS
  <2>1. PullRequestOK
    BY DEF Init, PullRequestOK, OpenedBy
  <2>2. RequestsOK
    BY DEF Init, RequestsOK, Idle
  <2>3. clock \in 1 .. MaxClock /\ record \in Times /\ claimable \subseteq Times \ {Never}
    BY DEF Init
  <2>4. overlap \in BOOLEAN /\ failed \in BOOLEAN
    BY DEF Init
  <2> QED
    BY <2>1, <2>2, <2>3, <2>4 DEF TypeOK
<1>2. TypeOK /\ [Next]_vars => TypeOK'
  <2> SUFFICES ASSUME TypeOK, [Next]_vars PROVE TypeOK'
    OBVIOUS
  <2> USE DEF TypeOK
  <2>0. clock \in Times \ {Never}
    OBVIOUS
  <2>1. ASSUME NEW r \in Requests, Begin(r) PROVE TypeOK'
    <3>1. RequestsOK'
      BY <2>1, GotoTyped DEF Begin, CloseLoads, OpenReadsRecord, ReceiveCommand, PullRequestOK
    <3> QED
      BY <2>1, <3>1 DEF Begin, CloseLoads, OpenReadsRecord, ReceiveCommand, PullRequestOK
  <2>2. ASSUME NEW r \in Requests, CloseAtGitHub(r) PROVE TypeOK'
    <3>1. PullRequestOK'
      BY <2>2, ClosedTyped DEF CloseAtGitHub, PullRequestOK
    <3>2. pr'.closedAt \in Times /\ pr'.closedAt # Never
      BY <2>2, <3>1 DEF CloseAtGitHub, PullRequestOK, ClosedBy
    <3>3. RequestsOK'
      BY <2>2, <3>2, GotoTyped DEF CloseAtGitHub
    <3>4. overlap' \in BOOLEAN
      BY <2>2 DEF CloseAtGitHub, Crossing
    <3>5. claimable' \subseteq Times \ {Never}
      BY <2>2, <2>0 DEF CloseAtGitHub
    <3> QED
      BY <2>2, <3>1, <3>3, <3>4, <3>5 DEF CloseAtGitHub
  <2>3. ASSUME NEW r \in Requests, RecordClose(r) PROVE TypeOK'
    <3>1. overlap' \in BOOLEAN
      BY <2>3 DEF RecordClose, Crossing
    <3>2. RequestsOK' /\ record' \in Times
      BY <2>3, ReturnTyped DEF RecordClose, RequestsOK
    <3> QED
      BY <2>3, <3>1, <3>2 DEF RecordClose, PullRequestOK
  <2>4. ASSUME NEW r \in Requests, OpenLoads(r) PROVE TypeOK'
    <3>1. req[r].closedAt \in Times /\ req[r].closedAt # Never
      BY <2>4 DEF OpenLoads, RequestsOK
    <3>2. RequestsOK'
      BY <2>4, <3>1, GotoTyped DEF OpenLoads
    <3> QED
      BY <2>4, <3>2 DEF OpenLoads, PullRequestOK
  <2>5. ASSUME NEW r \in Requests, OpenAtGitHub(r) PROVE TypeOK'
    <3>1. PullRequestOK'
      BY <2>5, OpenedTyped DEF OpenAtGitHub, PullRequestOK
    <3>2. req[r].closedAt \in Times /\ req[r].closedAt # Never
      BY <2>5 DEF OpenAtGitHub, RequestsOK
    <3>3. RequestsOK'
      BY <2>5, <3>2, GotoTyped, ReturnTyped DEF OpenAtGitHub
    <3> QED
      BY <2>5, <3>1, <3>3 DEF OpenAtGitHub
  <2>6. ASSUME NEW r \in Requests, ForgetClose(r) PROVE TypeOK'
    BY <2>6, ReturnTyped DEF ForgetClose, PullRequestOK
  <2>7. ASSUME NEW r \in Requests, Fail(r) PROVE TypeOK'
    BY <2>7, ReturnTyped DEF Fail, PullRequestOK
  <2>8. CASE People
    <3>1. PullRequestOK'
      BY <2>8, OpenedTyped, ClosedTyped DEF People, PersonCloses, PersonReopens
    <3>2. claimable' \subseteq Times \ {Never}
      BY <2>8, <2>0 DEF People, PersonCloses, PersonReopens
    <3> QED
      BY <2>8, <3>1, <3>2 DEF People, PersonCloses, PersonReopens, RequestsOK
  <2>9. CASE Tick
    BY <2>9 DEF Tick, PullRequestOK, RequestsOK
  <2>10. CASE UNCHANGED vars
    BY <2>10 DEF vars, PullRequestOK, RequestsOK
  <2>11. ASSUME NEW r \in Requests, LookUpClose(r) \/ EndRecheck(r) PROVE TypeOK'
    <3>1. RequestsOK'
      BY <2>11, GotoTyped, ReturnTyped DEF LookUpClose, EndRecheck, RequestsOK
    <3> QED
      BY <2>11, <3>1 DEF LookUpClose, EndRecheck, PullRequestOK
  <2> QED
    BY <2>1, <2>2, <2>3, <2>4, <2>5, <2>6, <2>7, <2>8, <2>9, <2>10, <2>11 DEF Next, Continue
<1> QED
  BY <1>1, <1>2, PTL DEF Spec

\* The step that keeps OnlyClaimable: a time enters the row or a request only
\* from a claimable close, and a close made while a handler decides is one.
LEMMA OnlyClaimableStep == TypeOK /\ OnlyClaimable /\ [Next]_vars => OnlyClaimable'
<1> USE DEF OnlyClaimable, At, Goto, Return, Idle
<1> SUFFICES ASSUME TypeOK, OnlyClaimable, [Next]_vars PROVE OnlyClaimable'
  OBVIOUS
<1>1. ASSUME NEW r \in Requests, CloseLoads(r) PROVE OnlyClaimable'
  BY <1>1 DEF TypeOK, PullRequestOK, RequestsOK, CloseLoads
<1>2. ASSUME NEW r \in Requests, OpenReadsRecord(r) PROVE OnlyClaimable'
  BY <1>2 DEF TypeOK, PullRequestOK, RequestsOK, OpenReadsRecord
<1>3. ASSUME NEW r \in Requests, CloseAtGitHub(r) PROVE OnlyClaimable'
  <2>1. pr'.closedAt \in claimable' /\ claimable \subseteq claimable'
    BY <1>3 DEF TypeOK, PullRequestOK, RequestsOK, CloseAtGitHub, ClosedBy
  <2> QED
    BY <1>3, <2>1 DEF TypeOK, PullRequestOK, RequestsOK, CloseAtGitHub, ClosedBy
<1>4. ASSUME NEW r \in Requests, RecordClose(r) PROVE OnlyClaimable'
  BY <1>4 DEF TypeOK, PullRequestOK, RequestsOK, RecordClose
<1>5. ASSUME NEW r \in Requests, OpenLoads(r) PROVE OnlyClaimable'
  BY <1>5 DEF TypeOK, PullRequestOK, RequestsOK, OpenLoads, sameClosedAt
<1>6. ASSUME NEW r \in Requests, OpenAtGitHub(r) PROVE OnlyClaimable'
  BY <1>6 DEF TypeOK, PullRequestOK, RequestsOK, OpenAtGitHub, OpenedBy
<1>7. ASSUME NEW r \in Requests, ForgetClose(r) PROVE OnlyClaimable'
  BY <1>7 DEF TypeOK, PullRequestOK, RequestsOK, ForgetClose
<1>8. ASSUME NEW r \in Requests, Fail(r) PROVE OnlyClaimable'
  BY <1>8 DEF TypeOK, PullRequestOK, RequestsOK, Fail
<1>9. CASE PersonCloses
  BY <1>9 DEF TypeOK, PullRequestOK, RequestsOK, PersonCloses, Deciding, ClosedBy
<1>10. CASE PersonReopens
  BY <1>10 DEF TypeOK, PullRequestOK, RequestsOK, PersonReopens, OpenedBy
<1>11. CASE Tick \/ UNCHANGED vars
  BY <1>11 DEF Tick, vars
<1>12. ASSUME NEW r \in Requests, ReceiveCommand(r) PROVE OnlyClaimable'
  BY <1>12 DEF TypeOK, PullRequestOK, RequestsOK, ReceiveCommand
<1>13. ASSUME NEW r \in Requests, LookUpClose(r) \/ EndRecheck(r) PROVE OnlyClaimable'
  BY <1>13 DEF TypeOK, PullRequestOK, RequestsOK, LookUpClose, EndRecheck, sameClosedAt
<1> QED
  BY <1>1, <1>2, <1>3, <1>4, <1>5, <1>6, <1>7, <1>8, <1>9, <1>10, <1>11, <1>12, <1>13
     DEF Next, Begin, Continue, People

\* The app takes no close for its own but one of a claimable second.
THEOREM ClaimsOnlyClaimable == Spec => []OnlyClaimable
<1>1. Init => OnlyClaimable
  BY DEF Init, OnlyClaimable, Idle
<1> QED
  BY <1>1, TypeCorrect, OnlyClaimableStep, PTL DEF Spec

\* A person's close that the app undoes lies in a claimable second.  Only
\* OpenAtGitHub opens on the app's account, and it acts on a claimable close.
THEOREM OverridesOnlyInARace == Spec => OverridesOnlyARace
<1> DEFINE Override ==
      pr.state = "closed" /\ pr.by = "person" /\ pr'.state = "open" /\ pr'.by = "app"
        => pr.closedAt \in claimable
<1>1. TypeOK /\ OnlyClaimable /\ [Next]_vars => [Override]_vars
  <2> SUFFICES ASSUME TypeOK, OnlyClaimable, Next,
                      pr.state = "closed", pr.by = "person", pr'.state = "open", pr'.by = "app"
               PROVE  pr.closedAt \in claimable
    OBVIOUS
  <2>1. ASSUME NEW r \in Requests, OpenAtGitHub(r) PROVE pr.closedAt \in claimable
    BY <2>1 DEF OpenAtGitHub, OnlyClaimable, At, OpenedBy
  <2>2. ASSUME NEW r \in Requests, CloseAtGitHub(r) PROVE FALSE
    BY <2>2 DEF CloseAtGitHub, ClosedBy
  <2>3. ASSUME NEW r \in Requests,
               \/ Begin(r) \/ RecordClose(r) \/ OpenLoads(r) \/ ForgetClose(r)
               \/ LookUpClose(r) \/ EndRecheck(r) \/ Fail(r) \/ Tick
        PROVE  FALSE
    BY <2>3 DEF Begin, CloseLoads, OpenReadsRecord, ReceiveCommand, RecordClose, OpenLoads,
           ForgetClose, LookUpClose, EndRecheck, Fail, Tick
  <2>4. CASE People
    BY <2>4 DEF People, PersonCloses, PersonReopens, OpenedBy, ClosedBy
  <2> QED
    BY <2>1, <2>2, <2>3, <2>4 DEF Next, Continue, Tick
<1> QED
  BY <1>1, TypeCorrect, ClaimsOnlyClaimable, PTL DEF Spec, OverridesOnlyARace
-----------------------------------------------------------------------------
(***************************************************************************)
(* The record of the app's own close.                                      *)
(***************************************************************************)

\* Every request about to record carries the app's last close; and once none
\* is, the row holds that close, and no request is about to delete the row nor
\* compares the pull request with an older close, which would make it do so.
CloseKept ==
    /\ \A s \in Requests : At(s, "recording") => req[s].closedAt = pr.closedAt
    /\ \/ \E s \in Requests : At(s, "recording")
       \/ /\ record = pr.closedAt
          /\ \A s \in Requests :
               /\ At(s, "loading") => req[s].closedAt = pr.closedAt
               /\ ~At(s, "forgetting")

\* AppCloseRemembered made inductive.
RememberedInv == pr.state = "closed" /\ pr.by = "app" /\ ~failed /\ ~overlap => CloseKept

\* RememberedInv follows from itself over one step of the specification.
LEMMA RememberedStep == TypeOK /\ RememberedInv /\ [Next]_vars => RememberedInv'
<1> SUFFICES ASSUME TypeOK, RememberedInv, [Next]_vars,
                    pr'.state = "closed", pr'.by = "app", ~failed', ~overlap'
             PROVE  CloseKept'
  BY DEF RememberedInv
<1> USE DEF At, CloseKept, TypeOK, PullRequestOK, RequestsOK
<1>1. ASSUME NEW r \in Requests, CloseAtGitHub(r) PROVE CloseKept'
  <2>1. \A s \in Requests \ {r} : req'[s].at \in {"idle", "closing", "opening", "looking", "rechecking"}
                                    /\ req'[s] = req[s]
    BY <1>1 DEF CloseAtGitHub, Crossing, Goto, Phases
  <2>2. req'[r].at = "recording" /\ req'[r].closedAt = pr'.closedAt
    BY <1>1 DEF CloseAtGitHub, Goto
  <2> QED
    BY <2>1, <2>2
<1>2. ASSUME NEW r \in Requests, RecordClose(r) PROVE CloseKept'
  <2>1. \A s \in Requests \ {r} : req'[s].at \in {"idle", "closing", "opening", "looking", "rechecking"}
    BY <1>2 DEF RecordClose, Crossing, Return, Phases
  <2>2. req'[r].at = "idle" /\ record' = pr'.closedAt
    BY <1>2 DEF RecordClose, Return, Idle, RememberedInv
  <2> QED
    BY <2>1, <2>2
<1>3. ASSUME pr' = pr, failed' = failed, overlap' = overlap
      PROVE  CloseKept
  BY <1>3 DEF RememberedInv
<1>4. ASSUME NEW r \in Requests, Begin(r) \/ LookUpClose(r) \/ EndRecheck(r) PROVE CloseKept'
  <2>1. pr' = pr /\ record' = record /\ CloseKept
    BY <1>4, <1>3 DEF Begin, CloseLoads, OpenReadsRecord, ReceiveCommand, LookUpClose, EndRecheck
  <2>2. \A s \in Requests \ {r} : req'[s] = req[s]
    BY <1>4 DEF Begin, CloseLoads, OpenReadsRecord, ReceiveCommand, LookUpClose, EndRecheck, Goto, Return
  <2>3. /\ req[r].at \in {"idle", "looking", "rechecking"}
        /\ req'[r].at \in {"idle", "closing", "loading", "looking", "rechecking"}
        /\ req'[r].at = "loading" => req'[r].closedAt = record
    BY <1>4 DEF Begin, CloseLoads, OpenReadsRecord, ReceiveCommand, LookUpClose, EndRecheck, Goto, Return, Idle
  <2> QED
    BY <2>1, <2>2, <2>3
<1>5. ASSUME NEW r \in Requests, OpenLoads(r) PROVE CloseKept'
  <2>1. pr' = pr /\ record' = record /\ CloseKept /\ ~pr.merged
    BY <1>5, <1>3 DEF OpenLoads
  <2>2. \A s \in Requests \ {r} : req'[s] = req[s]
    BY <1>5 DEF OpenLoads, Goto
  <2>3. req[r].at = "loading" /\ req'[r].at \in {"opening", "forgetting"}
        /\ (req[r].closedAt = pr.closedAt => req'[r].at = "opening")
    BY <1>5, <2>1 DEF OpenLoads, Goto, sameClosedAt
  <2> QED
    BY <2>1, <2>2, <2>3
<1>6. ASSUME NEW r \in Requests, OpenAtGitHub(r) PROVE FALSE
  BY <1>6 DEF OpenAtGitHub, OpenedBy
<1>7. ASSUME NEW r \in Requests, ForgetClose(r) PROVE CloseKept'
  <2>1. pr' = pr /\ CloseKept /\ At(r, "forgetting")
    BY <1>7, <1>3 DEF ForgetClose
  <2>2. PICK s \in Requests : At(s, "recording")
    BY <2>1
  <2>3. /\ \A q \in Requests \ {r} : req'[q] = req[q]
        /\ req'[r].at = "idle"
    BY <1>7 DEF ForgetClose, Return, Idle
  <2> QED
    BY <2>1, <2>2, <2>3
<1>8. ASSUME NEW r \in Requests, Fail(r) PROVE FALSE
  BY <1>8 DEF Fail
<1>9. ASSUME People PROVE FALSE
  BY <1>9 DEF People, PersonCloses, PersonReopens, OpenedBy, ClosedBy
<1>10. CASE Tick \/ UNCHANGED vars
  BY <1>10, <1>3 DEF Tick, vars
<1> QED
  BY <1>1, <1>2, <1>4, <1>5, <1>6, <1>7, <1>8, <1>9, <1>10 DEF Next, Continue

\* A close by the app is on record, or about to be, unless a request was cut
\* short or crossed another one since.
THEOREM RemembersItsClose == Spec => []AppCloseRemembered
<1>1. Init => RememberedInv
  BY DEF Init, RememberedInv, OpenedBy
<1>2. RememberedInv => AppCloseRemembered
  BY DEF RememberedInv, CloseKept, AppCloseRemembered, Remembered
<1> QED
  BY <1>1, <1>2, TypeCorrect, RememberedStep, PTL DEF Spec

\* The author of a pull request the app closed is heard: the look-up of a command
\* compares the payload's close with the record, which RememberedInv has kept.
THEOREM HearsOnOwnClose == Spec => OwnCloseHeard
<1> DEFINE Heard ==
      \A r \in Requests :
         /\ req[r].at = "looking" /\ req'[r].at = "idle"
         /\ pr.state = "closed" /\ pr.by = "app" /\ req[r].closedAt = pr.closedAt
         => \/ failed' \/ overlap
            \/ \E s \in Requests : At(s, "recording") /\ req[s].closedAt = pr.closedAt
<1>1. Init => RememberedInv
  BY DEF Init, RememberedInv, OpenedBy
<1>2. TypeOK /\ RememberedInv /\ [Next]_vars => [Heard]_vars
  <2> SUFFICES ASSUME TypeOK, RememberedInv, Next, NEW r \in Requests,
                      req[r].at = "looking", req'[r].at = "idle", pr.state = "closed", pr.by = "app",
                      req[r].closedAt = pr.closedAt, ~failed', ~overlap
               PROVE  \E s \in Requests : At(s, "recording") /\ req[s].closedAt = pr.closedAt
    OBVIOUS
  <2> USE DEF TypeOK, RequestsOK
  <2>1. ASSUME NEW q \in Requests, q # r,
               (\E phase, time : Goto(q, phase, time)) \/ Return(q)
        PROVE  FALSE
    BY <2>1 DEF Goto, Return
  <2>2. LookUpClose(r)
    <3>1. ASSUME NEW q \in Requests, q # r PROVE ~Begin(q) /\ ~Continue(q) /\ ~Fail(q)
      BY <2>1, <3>1 DEF Begin, CloseLoads, OpenReadsRecord, ReceiveCommand, Continue, CloseAtGitHub,
             RecordClose, OpenLoads, OpenAtGitHub, ForgetClose, LookUpClose, EndRecheck, Fail
    <3>2. ~Begin(r) /\ ~Fail(r) /\ (Continue(r) => LookUpClose(r))
      BY DEF Begin, CloseLoads, OpenReadsRecord, ReceiveCommand, Continue, CloseAtGitHub,
             RecordClose, OpenLoads, OpenAtGitHub, ForgetClose, EndRecheck, Fail, At
    <3> QED
      BY <3>1, <3>2 DEF Next, People, PersonCloses, PersonReopens, Tick
  <2>3. record # pr.closedAt /\ ~failed
    <3>1. pr.closedAt # Never
      BY DEF PullRequestOK
    <3> QED
      BY <2>2, <3>1 DEF LookUpClose, Goto, sameClosedAt
  <2> QED
    BY <2>3 DEF RememberedInv, CloseKept
<1> QED
  BY <1>1, <1>2, TypeCorrect, RememberedStep, PTL DEF Spec, OwnCloseHeard
-----------------------------------------------------------------------------
(***************************************************************************)
(* The promise of the README, but for the race.                            *)
(***************************************************************************)

\* Nobody else closes the pull request under a handler's feet, nor in a second
\* in which the app may take a close for its own.
ClosesApart == [][PersonCloses => ~Deciding /\ clock \notin claimable]_vars

\* Then the close of somebody else that is in force is one the app cannot take
\* for its own: only its own closes add to those, and they need an open one.
ForeignInv == pr.state = "closed" /\ pr.by = "person" => pr.closedAt \notin claimable

\* README, "Closing and reopening": "It never reopens a pull request closed by
\* anyone else".  The code keeps this in every run in which people close the
\* pull request apart from the app, whatever requests race, fail or repeat: the
\* race of OverridesOnlyARace is the only way to break it.
THEOREM NeverReopensWithoutARace == Spec /\ ClosesApart => NeverReopensOthersClose
<1> DEFINE Apart == PersonCloses => ~Deciding /\ clock \notin claimable
           Override == pr.state = "closed" /\ pr.by = "person" /\ pr'.state = "open" /\ pr'.by = "app"
                         => pr.closedAt \in claimable
           Keeps == pr.state = "closed" /\ pr.by = "person" /\ pr'.state = "open" => pr'.by = "person"
<1>1. Init => ForeignInv
  BY DEF Init, OpenedBy, ForeignInv
<1>2. ForeignInv /\ [Next]_vars /\ [Apart]_vars => ForeignInv'
  <2> SUFFICES ASSUME ForeignInv, Next, Apart PROVE ForeignInv'
    BY DEF ForeignInv, vars
  <2>1. ASSUME NEW r \in Requests, CloseAtGitHub(r) PROVE ForeignInv'
    BY <2>1 DEF CloseAtGitHub, ClosedBy, ForeignInv
  <2>2. ASSUME NEW r \in Requests, OpenAtGitHub(r) PROVE ForeignInv'
    BY <2>2 DEF OpenAtGitHub, OpenedBy, ForeignInv
  <2>3. CASE PersonCloses
    BY <2>3 DEF PersonCloses, ClosedBy, ForeignInv
  <2>4. CASE PersonReopens
    BY <2>4 DEF PersonReopens, OpenedBy, ForeignInv
  <2>5. CASE UNCHANGED <<pr, claimable>>
    BY <2>5 DEF ForeignInv
  <2> QED
    BY <2>1, <2>2, <2>3, <2>4, <2>5
       DEF Next, Begin, CloseLoads, OpenReadsRecord, ReceiveCommand, Continue, RecordClose, OpenLoads,
           ForgetClose, LookUpClose, EndRecheck, Fail, People, Tick
<1>3. TypeOK /\ TypeOK' /\ ForeignInv /\ [Override]_vars => [Keeps]_vars
  BY DEF TypeOK, PullRequestOK, ForeignInv
<1> QED
  BY <1>1, <1>2, <1>3, TypeCorrect, OverridesOnlyInARace, PTL
     DEF Spec, ClosesApart, OverridesOnlyARace, NeverReopensOthersClose
=============================================================================
