----------------------------- MODULE SetupComment -----------------------------
(***************************************************************************)
(* The one comment Arbiterer keeps on a pull request to tell its author    *)
(* what to do (internal/server/comment.go, the setup_comments row in       *)
(* internal/storage/issue.go).                                             *)
(*                                                                         *)
(* A sync reads the row, edits or posts the comment at GitHub, and stores  *)
(* what it did: three calls, between which other syncs of the same pull    *)
(* request act, and people delete the comment.  Nothing locks the row.     *)
(***************************************************************************)
EXTENDS Naturals, Sequences

CONSTANTS Syncs,       \* the syncs of the pull request that may run at once
          Asks,        \* what callers may ask a sync to report, see AllAsks
          MaxComments, \* bound: how many comments the app posts in a run
          MayFail      \* whether calls fail and the process stops

\* What a sync is asked: a status, whether it comes with a link to follow, and
\* whether the repository wants a comment for linked authors.
AllAsks ==
    [status : {"unlinked", "revoked", "github_verified"}, link : {TRUE}, onLinked : BOOLEAN]
      \cup [status : {"linked"}, link : {FALSE}, onLinked : BOOLEAN]
      \cup [status : {"passed"}, link : {FALSE}, onLinked : {FALSE}]
      \cup [status : {"rules_failed"}, link : BOOLEAN, onLinked : {FALSE}]

ASSUME CommentAssumption ==
    /\ Asks \subseteq AllAsks
    /\ MaxComments \in Nat \ {0}
    /\ MayFail \in BOOLEAN

VARIABLES
    body,    \* comments at GitHub: the status each one shows, or "deleted"
    stored,  \* the setup_comments row
    sync,    \* what each sync is about to do, and the row it read
    blurred  \* history: comments edited across another sync's edit, or by a cut sync

vars == <<body, stored, sync, blurred>>

Statuses == {"unlinked", "revoked", "github_verified", "linked", "passed", "rules_failed"}
Settled == {"linked", "passed"}   \* nothing is left for the author to do
NoComment == 0
NoRow == [comment |-> NoComment, status |-> "none"]
Idle == [at |-> "idle", status |-> "none", comment |-> NoComment, row |-> NoRow]

GitHub == INSTANCE GitHubClient

\* Comments are numbered as they are posted.
posted == Len(body)
Comments == 1 .. MaxComments

Goto(s, phase, status, c, row) ==
    sync' = [sync EXCEPT ![s] = [at |-> phase, status |-> status, comment |-> c, row |-> row]]
Return(s) == sync' = [sync EXCEPT ![s] = Idle]

\* Another sync has changed comment c at GitHub and not stored that yet.
OtherSaving(s, c) == \E t \in Syncs \ {s} : sync[t].at = "saving" /\ sync[t].comment = c

Init ==
    /\ body = <<>>
    /\ stored = NoRow
    /\ sync = [s \in Syncs |-> Idle]
    /\ blurred = {}

-----------------------------------------------------------------------------
\* A linked or passing author needs no comment unless one was posted before,
\* or the repository opted in; and linked alone does not hide a verdict.
setupCommentNeedsWrite(row, ask) ==
    IF row = NoRow
    THEN ask.status \notin Settled \/ ask.onLinked
    ELSE /\ ~(ask.status = "linked" /\ ~ask.link /\ row.status \in {"passed", "rules_failed"})
         /\ row.status # ask.status \/ ask.link

\* SetupCommentByPullRequest and the decision to write.  notifyPassed has
\* checked before that there is a row.
BeginSync(s, ask) ==
    /\ sync[s].at = "idle"
    /\ IF ~setupCommentNeedsWrite(stored, ask) THEN UNCHANGED sync
       ELSE Goto(s, IF stored = NoRow THEN "creating" ELSE "updating", ask.status, stored.comment, stored)
    /\ UNCHANGED <<body, stored, blurred>>

\* What GitHub may answer a call that it carries out, or that asks for a
\* comment somebody deleted; any other answer is a failure.
Answers(statuses) == {a \in GitHub!Answers : a.status \in statuses /\ (a.body = "cut" => MayFail)}
Refusals == IF MayFail THEN {500} ELSE {}

\* Mutant of commentDeleted: any error will do.
commentGone(e) == ~e.ok

\* A 404 says that somebody deleted the comment.
commentDeleted(e) == ~e.ok /\ e.api /\ e.status = 404

\* Mutants of AfterEdit: a deleted comment is posted again whatever it reports;
\* it is never posted again.
AfterEditRecreating(e, status) ==
    CASE e.ok -> "saving"
      [] ~e.ok /\ commentDeleted(e) -> "creating"
      [] ~e.ok /\ ~commentDeleted(e) -> "idle"
AfterEditForgiving(e, status) == IF e.ok \/ commentDeleted(e) THEN "saving" ELSE "idle"

\* A deleted comment is posted again only if it still asks the author for
\* something; any other failure ends the sync.
AfterEdit(e, status) ==
    CASE e.ok \/ (commentDeleted(e) /\ status \in Settled) -> "saving"
      [] commentDeleted(e) /\ status \notin Settled -> "creating"
      [] ~e.ok /\ ~commentDeleted(e) -> "idle"

\* UpdateComment, carried out or not, and what the sync makes of the answer.
UpdateComment(s) ==
    LET c == sync[s].comment
        status == sync[s].status
    IN  /\ sync[s].at = "updating"
        /\ \E a \in Answers({IF body[c] = "deleted" THEN 404 ELSE 200} \cup Refusals) :
              LET next == AfterEdit(GitHub!UpdateComment(a), status)
                  edited == a.status = 200
              IN  /\ IF next = "idle" THEN Return(s) ELSE Goto(s, next, status, c, sync[s].row)
                  /\ body' = IF edited THEN [body EXCEPT ![c] = status] ELSE body
                  /\ blurred' = IF edited /\ (next = "idle" \/ OtherSaving(s, c))
                                THEN blurred \cup {c}
                                ELSE IF next = "saving" THEN blurred \ {c} ELSE blurred
        /\ UNCHANGED stored

\* CreateComment: GitHub posts a new comment, whether the sync learns its id or not.
CreateComment(s) ==
    /\ sync[s].at = "creating" /\ posted < MaxComments
    /\ \E a \in Answers({200} \cup Refusals) :
          /\ body' = IF a.status = 200 THEN Append(body, sync[s].status) ELSE body
          /\ IF GitHub!CreateComment(a).ok
             THEN Goto(s, "saving", sync[s].status, posted + 1, sync[s].row)
             ELSE Return(s)
    /\ UNCHANGED <<stored, blurred>>

\* Mutant of UpsertSetupComment: the row keeps its status.
UpsertCommentOnly(s) ==
    /\ sync[s].at = "saving"
    /\ stored' = [comment |-> sync[s].comment,
                  status |-> IF stored = NoRow THEN sync[s].status ELSE stored.status]
    /\ Return(s)
    /\ UNCHANGED <<body, blurred>>

\* Mutant of UpsertSetupComment: the sync keeps its comment.
UpsertKeeping(s) ==
    /\ sync[s].at = "saving"
    /\ stored' = [comment |-> sync[s].comment, status |-> sync[s].status]
    /\ Goto(s, "idle", "none", sync[s].comment, NoRow)
    /\ UNCHANGED <<body, blurred>>

\* UpsertSetupComment: replaces whatever the row holds by now.
UpsertSetupComment(s) ==
    /\ sync[s].at = "saving"
    /\ stored' = [comment |-> sync[s].comment, status |-> sync[s].status]
    /\ Return(s)
    /\ UNCHANGED <<body, blurred>>

\* A call to the database or for the token or the author fails, or the process
\* stops: the sync ends where it stands, and what it did at GitHub is not stored.
Fail(s) ==
    /\ MayFail
    /\ sync[s].at # "idle"
    /\ blurred' = IF sync[s].at = "saving" THEN blurred \cup {sync[s].comment} ELSE blurred
    /\ Return(s)
    /\ UNCHANGED <<body, stored>>

\* Somebody deletes a comment at GitHub.
PersonDeletes(c) ==
    /\ c \in 1 .. posted
    /\ body' = [body EXCEPT ![c] = "deleted"]
    /\ UNCHANGED <<stored, sync, blurred>>

-----------------------------------------------------------------------------
\* The steps a sync takes once it has begun.
Continue(s) == UpdateComment(s) \/ CreateComment(s) \/ UpsertSetupComment(s)

Next ==
    \/ \E s \in Syncs : (\E ask \in Asks : BeginSync(s, ask)) \/ Continue(s) \/ Fail(s)
    \/ \E c \in Comments : PersonDeletes(c)

Spec == Init /\ [][Next]_vars

-----------------------------------------------------------------------------
(***************************************************************************)
(* Properties                                                              *)
(***************************************************************************)

\* Every variable has its type, and the comment a sync holds fits its phase.
TypeOK ==
    /\ body \in Seq(Statuses \cup {"deleted"}) /\ posted <= MaxComments
    /\ stored = NoRow \/ stored \in [comment : 1 .. posted, status : Statuses]
    /\ sync \in [Syncs -> [at : {"idle", "updating", "creating", "saving"},
                           status : Statuses \cup {"none"}, comment : 0 .. posted,
                           row : {NoRow} \cup [comment : 1 .. posted, status : Statuses]]]
    /\ \A s \in Syncs :
         /\ sync[s].at = "idle" => sync[s] = Idle
         /\ sync[s].at \in {"updating", "saving"} => sync[s].comment # NoComment
    /\ blurred \subseteq 1 .. posted

\* Comments that nobody will ever edit again: not the stored one, and not held
\* by a sync that has yet to store it.
Orphans ==
    {c \in 1 .. posted : body[c] # "deleted" /\ stored.comment # c
                          /\ \A s \in Syncs : sync[s].at # "saving" \/ sync[s].comment # c}

\* No sync strays from the one comment on its own: a comment is left behind,
\* live and with nobody to edit it, only by a sync cut short before it stored
\* what it did, or by one that stores over a row another sync has changed since
\* it read it.
StraysNeedARace ==
    [][\A c \in Orphans' \ Orphans : \E s \in Syncs :
         /\ sync[s].at \in {"creating", "saving"} /\ sync'[s].at = "idle"
         /\ stored' = stored \/ sync[s].row # stored]_vars

\* The comment shows what the row says it shows, unless somebody deleted it, a
\* sync has yet to store its edit, or two syncs edited it across each other and
\* no sync has edited it since.
BodyMatchesStored ==
    stored # NoRow /\ stored.comment \notin blurred =>
        \/ body[stored.comment] \in {"deleted", stored.status}
        \/ \E s \in Syncs : sync[s].at = "saving" /\ sync[s].comment = stored.comment

\* A passing check never posts a comment, whatever happens to the one it set
\* out to edit: it "must not start commenting on authors who never needed
\* instructions" (comment.go), nor bring back a comment somebody deleted.
PassingNeverPosts ==
    [][\A c \in posted + 1 .. posted' : body'[c] # "passed"]_vars

\* A sync never goes on to store a request to the author that no comment
\* shows: one whose comment was deleted is posted again first.
AskIsShown ==
    [][\A s \in Syncs :
         sync[s].at # "saving" /\ sync'[s].at = "saving" /\ sync'[s].status \notin Settled
           => body'[sync'[s].comment] = sync'[s].status]_vars

\* comment.go, setupCommentNeedsWrite: a linked or passing contributor needs
\* no comment "unless an earlier one asked them to act", and that one is then
\* edited: once every sync has returned, a row that says the author is settled
\* has no comment that still asks.
SettledAuthorNotAsked ==
    /\ stored.status \in Settled
    /\ \A s \in Syncs : sync[s].at = "idle"
    => body[stored.comment] \in Settled \cup {"deleted"}
=============================================================================
