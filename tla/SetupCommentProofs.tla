--------------------------- MODULE SetupCommentProofs ---------------------------
(***************************************************************************)
(* What SetupComment promises for any number of syncs and comments, and    *)
(* any asks.                                                               *)
(***************************************************************************)
EXTENDS SetupComment, TLAPS

Bodies == Statuses \cup {"deleted"}

(***************************************************************************)
(* What a sync makes of GitHub's answers                                   *)
(***************************************************************************)

\* An edit is taken for done, or its comment for deleted, only when it is.
LEMMA EditVerdict ==
  ASSUME NEW a \in GitHub!Answers, NEW status
  PROVE  LET next == AfterEdit(GitHub!UpdateComment(a), status) IN
         /\ next \in {"saving", "creating", "idle"}
         /\ next = "saving" => a.status = 200 \/ (a.status = 404 /\ status \in Settled)
         /\ next = "creating" => a.status = 404 /\ status \notin Settled
<1> DEFINE e == GitHub!UpdateComment(a)
<1>1. a.status \in GitHub!Statuses /\ a.body \in {"whole", "garbage", "cut"}
  BY DEF GitHub!Answers
<1>2. \/ e = GitHub!OtherError
      \/ e = GitHub!Value /\ a.status = 200
      \/ e = GitHub!APIError(a.status)
  BY <1>1 DEF GitHub!UpdateComment, GitHub!sendRequest, GitHub!Statuses
<1> HIDE DEF e
<1>3. CASE e = GitHub!OtherError
  BY <1>3 DEF AfterEdit, commentDeleted, GitHub!OtherError, e
<1>4. CASE e = GitHub!Value /\ a.status = 200
  BY <1>4 DEF AfterEdit, commentDeleted, GitHub!Value, e
<1>5. CASE e = GitHub!APIError(a.status)
  <2>1. ~e.ok /\ (commentDeleted(e) => a.status = 404)
    BY <1>5 DEF commentDeleted, GitHub!APIError
  <2> QED
    BY <2>1 DEF AfterEdit, e
<1> QED
  BY <1>2, <1>3, <1>4, <1>5

\* The five ways an edit ends.
LEMMA EditStep ==
  ASSUME NEW s \in Syncs, UpdateComment(s)
  PROVE  LET c == sync[s].comment
             status == sync[s].status
         IN /\ sync[s].at = "updating" /\ stored' = stored
            /\ \/ /\ body[c] # "deleted" /\ body' = [body EXCEPT ![c] = status]
                  /\ Goto(s, "saving", status, c, sync[s].row)
                  /\ blurred' = IF OtherSaving(s, c) THEN blurred \cup {c} ELSE blurred \ {c}
               \/ /\ body[c] # "deleted" /\ body' = [body EXCEPT ![c] = status]
                  /\ Return(s) /\ blurred' = blurred \cup {c}
               \/ /\ body[c] = "deleted" /\ status \in Settled /\ body' = body
                  /\ Goto(s, "saving", status, c, sync[s].row) /\ blurred' = blurred \ {c}
               \/ /\ body[c] = "deleted" /\ status \notin Settled /\ body' = body
                  /\ Goto(s, "creating", status, c, sync[s].row) /\ blurred' = blurred
               \/ Return(s) /\ body' = body /\ blurred' = blurred
<1> DEFINE c == sync[s].comment
           status == sync[s].status
           Next1(a) == AfterEdit(GitHub!UpdateComment(a), status)
<1>1. PICK a \in Answers({IF body[c] = "deleted" THEN 404 ELSE 200} \cup Refusals) :
         /\ IF Next1(a) = "idle" THEN Return(s) ELSE Goto(s, Next1(a), status, c, sync[s].row)
         /\ body' = IF a.status = 200 THEN [body EXCEPT ![c] = status] ELSE body
         /\ blurred' = IF a.status = 200 /\ (Next1(a) = "idle" \/ OtherSaving(s, c))
                       THEN blurred \cup {c}
                       ELSE IF Next1(a) = "saving" THEN blurred \ {c} ELSE blurred
  BY DEF UpdateComment
<1>2. /\ a \in GitHub!Answers
      /\ a.status = 200 => body[c] # "deleted"
      /\ a.status = 404 => body[c] = "deleted"
  BY DEF Answers, Refusals
<1>3. /\ Next1(a) \in {"saving", "creating", "idle"}
      /\ Next1(a) = "saving" => a.status = 200 \/ (a.status = 404 /\ status \in Settled)
      /\ Next1(a) = "creating" => a.status = 404 /\ status \notin Settled
  BY <1>2, EditVerdict
<1>4. sync[s].at = "updating" /\ stored' = stored
  BY DEF UpdateComment
<1> HIDE DEF Next1
<1> QED
  BY <1>1, <1>2, <1>3, <1>4

\* The three ways a post ends.
LEMMA PostStep ==
  ASSUME NEW s \in Syncs, CreateComment(s)
  PROVE  /\ sync[s].at = "creating" /\ posted < MaxComments
         /\ stored' = stored /\ blurred' = blurred
         /\ \/ /\ body' = Append(body, sync[s].status)
               /\ Goto(s, "saving", sync[s].status, posted + 1, sync[s].row)
            \/ body' = Append(body, sync[s].status) /\ Return(s)
            \/ body' = body /\ Return(s)
<1>1. PICK a \in Answers({200} \cup Refusals) :
         /\ body' = IF a.status = 200 THEN Append(body, sync[s].status) ELSE body
         /\ IF GitHub!CreateComment(a).ok
            THEN Goto(s, "saving", sync[s].status, posted + 1, sync[s].row)
            ELSE Return(s)
  BY DEF CreateComment
<1>2. GitHub!CreateComment(a).ok => a.status = 200
  <2>1. a.status \in GitHub!Statuses /\ a.body \in {"whole", "garbage", "cut"}
    BY DEF Answers, GitHub!Answers
  <2> QED
    BY <2>1 DEF GitHub!CreateComment, GitHub!sendRequest, GitHub!Statuses, GitHub!OtherError,
         GitHub!Value, GitHub!APIError
<1> QED
  BY <1>1, <1>2 DEF CreateComment

-----------------------------------------------------------------------------
(***************************************************************************)
(* Types                                                                   *)
(***************************************************************************)

Rows(n) == {NoRow} \cup [comment : 1 .. n, status : Statuses]
SyncType(n) == [at : {"idle", "updating", "creating", "saving"}, status : Statuses \cup {"none"},
                comment : 0 .. n, row : Rows(n)]

\* What TypeOK says of one sync, and that what it posts is no passing check.
SyncOK(x, n) ==
    /\ x \in SyncType(n)
    /\ x.at = "idle" => x = Idle
    /\ x.at \in {"updating", "saving"} => x.comment # NoComment
    /\ x.at # "idle" => x.status \in Statuses
    /\ x.at = "creating" => x.status # "passed"

\* The row a sync read is the one it edits, unless that comment is deleted.
RowOK(x, b) ==
    /\ x.at = "updating" => x.row # NoRow /\ x.row.comment = x.comment
    /\ x.at = "creating" => x.row = NoRow \/ b[x.row.comment] = "deleted"
    /\ x.at = "saving" => \/ x.row = NoRow \/ x.row.comment = x.comment
                           \/ b[x.row.comment] = "deleted"

TypeInv ==
    /\ body \in Seq(Bodies) /\ posted <= MaxComments
    /\ stored \in Rows(posted)
    /\ blurred \subseteq 1 .. posted
    /\ DOMAIN sync = Syncs /\ sync = [s \in Syncs |-> sync[s]]
    /\ \A s \in Syncs : SyncOK(sync[s], posted) /\ RowOK(sync[s], body)

LEMMA TypeInvTyped == TypeInv => TypeOK
BY DEF TypeInv, TypeOK, SyncOK, SyncType, Rows, NoRow, NoComment, Bodies

\* More comments only widen the types.
LEMMA Widen ==
  ASSUME NEW n \in Nat, NEW x, SyncOK(x, n)
  PROVE  SyncOK(x, n + 1) /\ Rows(n) \subseteq Rows(n + 1)
BY DEF SyncOK, SyncType, Rows

\* A sync that goes on to phase, or returns.
LEMMA MovesTyped ==
  ASSUME DOMAIN sync = Syncs, sync = [s \in Syncs |-> sync[s]], NEW s \in Syncs, NEW x,
         sync' = [sync EXCEPT ![s] = x]
  PROVE  /\ DOMAIN sync' = Syncs /\ sync' = [q \in Syncs |-> sync'[q]]
         /\ sync'[s] = x /\ \A q \in Syncs \ {s} : sync'[q] = sync[q]
OBVIOUS

LEMMA IdleOK ==
  ASSUME NEW n \in Nat, NEW b PROVE SyncOK(Idle, n) /\ RowOK(Idle, b)
BY DEF SyncOK, SyncType, RowOK, Idle, Rows, NoComment

\* A body that only shows something else, or is deleted, keeps what is deleted.
LEMMA RowKept ==
  ASSUME NEW x, NEW b, NEW b2, RowOK(x, b),
         x.at # "idle" /\ x.row # NoRow /\ b[x.row.comment] = "deleted" => b2[x.row.comment] = "deleted"
  PROVE  RowOK(x, b2)
BY DEF RowOK

\* A sync that begins has read the row it is about to edit, or found none.
LEMMA BeginStep ==
  ASSUME TypeInv, NEW s \in Syncs, NEW ask \in Asks, BeginSync(s, ask)
  PROVE  /\ UNCHANGED <<body, stored, blurred>> /\ sync[s].at = "idle"
         /\ \/ sync' = sync
            \/ \E x : /\ sync' = [sync EXCEPT ![s] = x] /\ x.at \in {"updating", "creating"}
                      /\ SyncOK(x, posted) /\ RowOK(x, body)
<1>1. CASE ~setupCommentNeedsWrite(stored, ask)
  BY <1>1 DEF BeginSync
<1>2. CASE setupCommentNeedsWrite(stored, ask)
  <2> DEFINE phase == IF stored = NoRow THEN "creating" ELSE "updating"
             x == [at |-> phase, status |-> ask.status, comment |-> stored.comment, row |-> stored]
  <2>1. sync' = [sync EXCEPT ![s] = x] /\ UNCHANGED <<body, stored, blurred>> /\ sync[s].at = "idle"
    BY <1>2 DEF BeginSync, Goto
  <2>2. ask.status \in Statuses /\ (ask.status = "passed" => ask.onLinked \in {FALSE})
    BY CommentAssumption DEF AllAsks, Statuses
  <2>3. ask.status = "passed" => stored # NoRow
    BY <1>2, <2>2 DEF setupCommentNeedsWrite, Settled
  <2>4. stored \in Rows(posted) /\ posted \in Nat
    BY DEF TypeInv, posted
  <2>5. SyncOK(x, posted)
    <3>1. stored.comment \in 0 .. posted /\ (stored # NoRow => stored.comment # NoComment)
      BY <2>4 DEF Rows, NoRow, NoComment
    <3>2. x \in SyncType(posted)
      BY <2>2, <2>4, <3>1 DEF SyncType
    <3> QED
      BY <2>2, <2>3, <3>1, <3>2 DEF SyncOK
  <2>6. RowOK(x, body)
    BY DEF RowOK
  <2>7. x.at \in {"updating", "creating"}
    OBVIOUS
  <2> HIDE DEF x
  <2> QED
    BY <2>1, <2>5, <2>6, <2>7
<1> QED
  BY <1>1, <1>2

\* What has to be shown of a step that leaves the comments as they are.
LEMMA SameComments ==
  ASSUME TypeInv, body' = body, NEW s \in Syncs, NEW x, sync' = [sync EXCEPT ![s] = x],
         SyncOK(x, posted), RowOK(x, body), stored' \in Rows(posted), blurred' \subseteq 1 .. posted
  PROVE  TypeInv'
<1>1. posted' = posted
  BY DEF posted
<1>2. /\ DOMAIN sync' = Syncs /\ sync' = [q \in Syncs |-> sync'[q]]
      /\ sync'[s] = x /\ \A q \in Syncs \ {s} : sync'[q] = sync[q]
  BY MovesTyped DEF TypeInv
<1>3. \A q \in Syncs : SyncOK(sync'[q], posted') /\ RowOK(sync'[q], body')
  BY <1>1, <1>2 DEF TypeInv
<1> QED
  BY <1>1, <1>2, <1>3 DEF TypeInv

LEMMA TypeStep ==
  ASSUME TypeInv, [Next]_vars
  PROVE  TypeInv'
<1>0. /\ posted \in Nat /\ body \in Seq(Bodies) /\ posted <= MaxComments
      /\ DOMAIN sync = Syncs /\ sync = [s \in Syncs |-> sync[s]]
      /\ \A s \in Syncs : SyncOK(sync[s], posted) /\ RowOK(sync[s], body)
      /\ stored \in Rows(posted) /\ blurred \subseteq 1 .. posted
  BY DEF TypeInv, posted
<1>1. ASSUME NEW s \in Syncs, NEW ask \in Asks, BeginSync(s, ask) PROVE TypeInv'
  <2>1. UNCHANGED <<body, stored, blurred>>
    BY <1>1, BeginStep
  <2>2. CASE sync' = sync
    BY <2>1, <2>2 DEF TypeInv, posted
  <2>3. ASSUME NEW x, sync' = [sync EXCEPT ![s] = x], SyncOK(x, posted), RowOK(x, body)
        PROVE  TypeInv'
    BY <1>0, <2>1, <2>3, SameComments
  <2> QED
    BY <1>1, <2>2, <2>3, BeginStep
<1>2. ASSUME NEW s \in Syncs, UpdateComment(s) PROVE TypeInv'
  <2> DEFINE c == sync[s].comment
             status == sync[s].status
             X(phase) == [at |-> phase, status |-> status, comment |-> c, row |-> sync[s].row]
  <2>1. /\ sync[s].at = "updating" /\ stored' = stored
        /\ body' = body \/ (body[c] # "deleted" /\ body' = [body EXCEPT ![c] = status])
        /\ blurred' \subseteq blurred \cup {c}
        /\ \/ sync' = [sync EXCEPT ![s] = Idle]
           \/ sync' = [sync EXCEPT ![s] = X("saving")]
           \/ /\ sync' = [sync EXCEPT ![s] = X("creating")]
              /\ body[c] = "deleted" /\ body' = body /\ status \notin Settled
    BY <1>2, EditStep DEF Goto, Return
  <2>2. /\ c \in 1 .. posted /\ status \in Statuses /\ sync[s] \in SyncType(posted)
        /\ sync[s].row # NoRow /\ sync[s].row.comment = c
    BY <1>0, <2>1 DEF SyncOK, SyncType, RowOK, NoComment
  <2>3. body' \in Seq(Bodies) /\ posted' = posted
    BY <1>0, <2>1, <2>2 DEF Bodies, posted
  <2>4. \A d \in 1 .. posted : body[d] = "deleted" => body'[d] = "deleted"
    BY <1>0, <2>1, <2>2 DEF posted
  <2>5. \A q \in Syncs : RowOK(sync[q], body')
    <3> SUFFICES ASSUME NEW q \in Syncs PROVE RowOK(sync[q], body')
      OBVIOUS
    <3>1. sync[q].row = NoRow \/ sync[q].row.comment \in 1 .. posted
      BY <1>0 DEF SyncOK, SyncType, Rows
    <3> QED
      BY <1>0, <2>4, <3>1, RowKept
  <2>6. ASSUME NEW phase \in {"saving", "creating"}, phase = "creating" => status \notin Settled
        PROVE  SyncOK(X(phase), posted)
    BY <2>2, <2>6 DEF SyncOK, SyncType, Settled, NoComment
  <2>7. RowOK(X("saving"), body') /\ (body'[c] = "deleted" => RowOK(X("creating"), body'))
    BY <2>2 DEF RowOK
  <2> HIDE DEF X
  <2>8. PICK x : sync' = [sync EXCEPT ![s] = x] /\ SyncOK(x, posted) /\ RowOK(x, body')
    BY <1>0, <2>1, <2>6, <2>7, IdleOK
  <2> QED
    BY <1>0, <2>1, <2>2, <2>3, <2>5, <2>8, MovesTyped DEF TypeInv
<1>3. ASSUME NEW s \in Syncs, CreateComment(s) PROVE TypeInv'
  <2> DEFINE x1 == [at |-> "saving", status |-> sync[s].status, comment |-> posted + 1, row |-> sync[s].row]
  <2>1. /\ sync[s].at = "creating" /\ posted < MaxComments /\ stored' = stored /\ blurred' = blurred
        /\ \/ body' = Append(body, sync[s].status) /\ sync' = [sync EXCEPT ![s] = x1]
           \/ /\ body' = Append(body, sync[s].status) \/ body' = body
              /\ sync' = [sync EXCEPT ![s] = Idle]
    BY <1>3, PostStep DEF Goto, Return
  <2>2. sync[s] \in SyncType(posted) /\ sync[s].status \in Statuses
    BY <1>0, <2>1 DEF SyncOK
  <2>3. CASE body' = body
    <3>1. sync' = [sync EXCEPT ![s] = Idle]
      <4>1. Append(body, sync[s].status) # body
        BY <1>0, <2>2 DEF Bodies
      <4> QED
        BY <2>1, <2>3, <4>1
    <3> QED
      BY <1>0, <2>1, <2>3, <3>1, SameComments, IdleOK
  <2>4. CASE body' = Append(body, sync[s].status)
    <3>1. /\ body' \in Seq(Bodies) /\ posted' = posted + 1 /\ posted' <= MaxComments
          /\ \A d \in 1 .. posted : body'[d] = body[d]
      BY <1>0, <2>1, <2>2, <2>4, CommentAssumption DEF Bodies, posted
    <3>2. \A q \in Syncs : SyncOK(sync[q], posted') /\ RowOK(sync[q], body')
      <4> SUFFICES ASSUME NEW q \in Syncs PROVE SyncOK(sync[q], posted') /\ RowOK(sync[q], body')
        OBVIOUS
      <4>1. sync[q].row = NoRow \/ sync[q].row.comment \in 1 .. posted
        BY <1>0 DEF SyncOK, SyncType, Rows
      <4> QED
        BY <1>0, <3>1, <4>1, Widen, RowKept
    <3>3. SyncOK(x1, posted') /\ RowOK(x1, body')
      <4>1. RowOK(sync[s], body') /\ sync[s].row \in Rows(posted + 1)
        BY <1>0, <2>2, <3>2, Widen DEF SyncType
      <4>2. SyncOK(x1, posted')
        BY <1>0, <2>2, <3>1, <4>1 DEF SyncOK, SyncType, NoComment
      <4> QED
        BY <2>1, <4>1, <4>2 DEF RowOK
    <3>4. stored' \in Rows(posted') /\ blurred' \subseteq 1 .. posted'
      BY <1>0, <2>1, <3>1, Widen, <2>2 DEF Rows
    <3> HIDE DEF x1
    <3>5. PICK x : sync' = [sync EXCEPT ![s] = x] /\ SyncOK(x, posted') /\ RowOK(x, body')
      BY <1>0, <2>1, <3>1, <3>3, IdleOK
    <3> QED
      BY <1>0, <3>1, <3>2, <3>4, <3>5, MovesTyped DEF TypeInv
  <2> QED
    BY <2>1, <2>3, <2>4
<1>4. ASSUME NEW s \in Syncs, UpsertSetupComment(s) \/ Fail(s) PROVE TypeInv'
  <2>1. sync' = [sync EXCEPT ![s] = Idle] /\ body' = body
    BY <1>4 DEF UpsertSetupComment, Fail, Return
  <2>2. stored' \in Rows(posted)
    BY <1>0, <1>4 DEF UpsertSetupComment, Fail, SyncOK, SyncType, Rows, NoComment
  <2>3. blurred' \subseteq 1 .. posted
    BY <1>0, <1>4 DEF UpsertSetupComment, Fail, SyncOK, SyncType, NoComment
  <2> QED
    BY <1>0, <2>1, <2>2, <2>3, SameComments, IdleOK
<1>5. ASSUME NEW c \in Comments, PersonDeletes(c) PROVE TypeInv'
  <2>1. /\ c \in 1 .. posted /\ body' = [body EXCEPT ![c] = "deleted"]
        /\ UNCHANGED <<stored, sync, blurred>>
    BY <1>5 DEF PersonDeletes
  <2>2. body' \in Seq(Bodies) /\ posted' = posted
    BY <1>0, <2>1 DEF Bodies, posted
  <2>3. \A q \in Syncs : RowOK(sync[q], body')
    <3> SUFFICES ASSUME NEW q \in Syncs PROVE RowOK(sync[q], body')
      OBVIOUS
    <3>1. sync[q].row = NoRow \/ sync[q].row.comment \in 1 .. posted
      BY <1>0 DEF SyncOK, SyncType, Rows
    <3>2. \A d \in 1 .. posted : body[d] = "deleted" => body'[d] = "deleted"
      BY <1>0, <2>1 DEF posted
    <3> QED
      BY <1>0, <3>1, <3>2, RowKept
  <2> QED
    BY <1>0, <2>1, <2>2, <2>3 DEF TypeInv
<1>6. CASE UNCHANGED vars
  BY <1>6 DEF vars, TypeInv, posted
<1> QED
  BY <1>1, <1>2, <1>3, <1>4, <1>5, <1>6 DEF Next, Continue

LEMMA TypeInvariant == Spec => []TypeInv
<1>1. Init => TypeInv
  <2> SUFFICES ASSUME Init PROVE TypeInv
    OBVIOUS
  <2>1. body \in Seq(Bodies) /\ posted = 0
    BY DEF Init, posted
  <2>2. \A s \in Syncs : sync[s] = Idle
    BY DEF Init
  <2> QED
    BY <2>1, <2>2, IdleOK, CommentAssumption DEF Init, TypeInv, Rows
<1> QED
  BY <1>1, TypeStep, PTL DEF Spec

\* Type correctness of the syncs; in particular a sync only ever edits or stores
\* a comment that was posted.
THEOREM TypeCorrect == Spec => []TypeOK
BY TypeInvariant, TypeInvTyped, PTL
-----------------------------------------------------------------------------
(***************************************************************************)
(* The comment and the row.  BodyMatchesStored is not inductive: storing   *)
(* needs that an edit which is yet to be stored still shows, and that two  *)
(* of one comment were noticed.                                            *)
(***************************************************************************)

Saves(s) == sync[s].at = "saving"
EditShows ==
    \A s \in Syncs : Saves(s) /\ sync[s].comment \notin blurred =>
        body[sync[s].comment] \in {"deleted", sync[s].status}
CrossingBlurs ==
    \A s, t \in Syncs : s # t /\ Saves(s) /\ Saves(t) /\ sync[s].comment = sync[t].comment =>
        sync[s].comment \in blurred \/ body[sync[s].comment] = "deleted"
BodyInv == EditShows /\ CrossingBlurs /\ BodyMatchesStored

\* Comments and rows that a step leaves as they are, while a sync that is not
\* about to save, or no sync at all, moves to where it is not either.
LEMMA NothingSaved ==
  ASSUME TypeInv, BodyInv, UNCHANGED <<stored, blurred>>,
         body' = body \/ \E c \in 1 .. posted : body' = [body EXCEPT ![c] = "deleted"],
         \/ sync' = sync
         \/ \E s \in Syncs : \E x : /\ ~Saves(s) /\ x.at # "saving"
                                    /\ sync' = [sync EXCEPT ![s] = x]
  PROVE  BodyInv'
<1>1. \A q \in Syncs : sync'[q] = sync[q] \/ (~Saves(q) /\ ~Saves(q)')
  BY MovesTyped DEF TypeInv, Saves
<1>2. \A d \in 1 .. posted : body'[d] \in {body[d], "deleted"}
  BY DEF TypeInv, posted
<1>3. /\ stored = NoRow \/ stored.comment \in 1 .. posted
      /\ \A q \in Syncs : Saves(q) => sync[q].comment \in 1 .. posted
  BY DEF TypeInv, SyncOK, SyncType, Rows, NoComment, Saves, posted
<1>4. EditShows' /\ CrossingBlurs'
  BY <1>1, <1>2, <1>3 DEF BodyInv, EditShows, CrossingBlurs, Saves
<1>5. BodyMatchesStored'
  BY <1>1, <1>2, <1>3 DEF BodyInv, BodyMatchesStored, Saves
<1> QED
  BY <1>4, <1>5 DEF BodyInv

\* What an invariant-minded reader needs of one edit.
LEMMA EditKeepsBody ==
  ASSUME TypeInv, BodyInv, NEW s \in Syncs, UpdateComment(s)
  PROVE  BodyInv'
<1> DEFINE c == sync[s].comment
           status == sync[s].status
           x == [at |-> "saving", status |-> status, comment |-> c, row |-> sync[s].row]
<1>1. sync[s].at = "updating" /\ stored' = stored /\ c \in 1 .. posted /\ body \in Seq(Bodies)
  BY EditStep DEF TypeInv, SyncOK, SyncType, NoComment, posted
<1>2. /\ stored = NoRow \/ stored.comment \in 1 .. posted
      /\ \A q \in Syncs : Saves(q) => sync[q].comment \in 1 .. posted
  BY DEF TypeInv, SyncOK, SyncType, Rows, NoComment, Saves, posted
<1>3. CASE /\ body' = [body EXCEPT ![c] = status] /\ body[c] # "deleted"
           /\ sync' = [sync EXCEPT ![s] = x]
           /\ blurred' = IF OtherSaving(s, c) THEN blurred \cup {c} ELSE blurred \ {c}
  <2>1. /\ sync'[s] = x /\ \A q \in Syncs \ {s} : sync'[q] = sync[q]
        /\ body'[c] = status /\ \A d \in 1 .. posted : d # c => body'[d] = body[d]
    BY <1>1, <1>3, MovesTyped DEF TypeInv, posted
  <2>2. x.at = "saving" /\ x.comment = c /\ x.status = status
    OBVIOUS
  <2>3. \A q \in Syncs \ {s} : Saves(q) /\ sync[q].comment = c => c \in blurred'
    BY <1>3 DEF OtherSaving, Saves
  <2>4. \A d \in 1 .. posted : d # c => (d \in blurred' <=> d \in blurred)
    BY <1>3
  <2> HIDE DEF x
  <2>5. EditShows' /\ CrossingBlurs'
    BY <1>1, <1>2, <2>1, <2>2, <2>3, <2>4 DEF BodyInv, EditShows, CrossingBlurs, Saves
  <2>6. BodyMatchesStored'
    BY <1>1, <1>2, <2>1, <2>2, <2>4 DEF BodyInv, BodyMatchesStored
  <2> QED
    BY <2>5, <2>6 DEF BodyInv
<1>4. CASE /\ body' = [body EXCEPT ![c] = status]
           /\ Return(s) /\ blurred' = blurred \cup {c}
  <2>1. /\ sync'[s] = Idle /\ \A q \in Syncs \ {s} : sync'[q] = sync[q]
        /\ \A d \in 1 .. posted : d # c => body'[d] = body[d]
    BY <1>1, <1>4, MovesTyped DEF TypeInv, Return, posted
  <2>2. ~Saves(s)' /\ ~Saves(s)
    BY <1>1, <2>1 DEF Saves, Idle
  <2> QED
    BY <1>1, <1>2, <1>4, <2>1, <2>2 DEF BodyInv, EditShows, CrossingBlurs, BodyMatchesStored, Saves
<1>5. CASE /\ body[c] = "deleted" /\ body' = body
           /\ sync' = [sync EXCEPT ![s] = x] /\ blurred' = blurred \ {c}
  <2>1. /\ sync'[s] = x /\ \A q \in Syncs \ {s} : sync'[q] = sync[q]
    BY <1>5, MovesTyped DEF TypeInv
  <2>2. x.at = "saving" /\ x.comment = c /\ x.status = status
    OBVIOUS
  <2> HIDE DEF x
  <2> QED
    BY <1>1, <1>2, <1>5, <2>1, <2>2 DEF BodyInv, EditShows, CrossingBlurs, BodyMatchesStored, Saves
<1>6. CASE /\ body' = body /\ blurred' = blurred
           /\ \/ Goto(s, "creating", status, c, sync[s].row)
              \/ Return(s)
  <2>1. ~Saves(s)
    BY <1>1 DEF Saves
  <2> QED
    BY <1>1, <1>6, <2>1, NothingSaved DEF Goto, Return, Idle
<1> QED
  BY <1>3, <1>4, <1>5, <1>6, EditStep DEF Goto

LEMMA BodyStep ==
  ASSUME TypeInv, BodyInv, [Next]_vars
  PROVE  BodyInv'
<1>0. /\ body \in Seq(Bodies)
      /\ stored = NoRow \/ stored.comment \in 1 .. posted
      /\ \A q \in Syncs : Saves(q) => sync[q].comment \in 1 .. posted
  BY DEF TypeInv, SyncOK, SyncType, Rows, NoComment, Saves, posted
<1>1. ASSUME NEW s \in Syncs, NEW ask \in Asks, BeginSync(s, ask) PROVE BodyInv'
  <2>1. ~Saves(s)
    BY <1>1, BeginStep DEF Saves
  <2> QED
    BY <1>1, <2>1, BeginStep, NothingSaved
<1>2. ASSUME NEW s \in Syncs, UpdateComment(s) PROVE BodyInv'
  BY <1>2, EditKeepsBody
<1>3. ASSUME NEW s \in Syncs, CreateComment(s) PROVE BodyInv'
  <2> DEFINE x == [at |-> "saving", status |-> sync[s].status, comment |-> posted + 1, row |-> sync[s].row]
  <2>1. ~Saves(s) /\ stored' = stored /\ blurred' = blurred /\ sync[s].status \in Bodies
    BY <1>3, PostStep DEF Saves, TypeInv, SyncOK, Bodies
  <2>2. CASE body' = body /\ Return(s)
    BY <2>1, <2>2, NothingSaved DEF Return, Idle
  <2>3. CASE body' = Append(body, sync[s].status) /\ (sync' = [sync EXCEPT ![s] = x] \/ Return(s))
    <3>1. /\ body'[posted + 1] = sync[s].status
          /\ \A d \in 1 .. posted : d # posted + 1 /\ body'[d] = body[d]
      BY <1>0, <2>1, <2>3 DEF posted
    <3>2. /\ \A q \in Syncs \ {s} : sync'[q] = sync[q]
          /\ \/ sync'[s].at = "idle"
             \/ sync'[s].comment = posted + 1 /\ sync'[s].status = sync[s].status
      BY <2>3, MovesTyped DEF TypeInv, Return, Idle
    <3>3. EditShows' /\ CrossingBlurs'
      BY <1>0, <2>1, <3>1, <3>2 DEF BodyInv, EditShows, CrossingBlurs, Saves
    <3>4. BodyMatchesStored'
      BY <1>0, <2>1, <3>1, <3>2 DEF BodyInv, BodyMatchesStored, Saves
    <3> QED
      BY <3>3, <3>4 DEF BodyInv
  <2> QED
    BY <1>3, <2>2, <2>3, PostStep DEF Goto
<1>4. ASSUME NEW s \in Syncs, UpsertSetupComment(s) PROVE BodyInv'
  <2>1. /\ Saves(s) /\ UNCHANGED <<body, blurred>>
        /\ stored'.comment = sync[s].comment /\ stored'.status = sync[s].status
        /\ sync'[s].at = "idle" /\ \A q \in Syncs \ {s} : sync'[q] = sync[q]
    BY <1>4, MovesTyped DEF UpsertSetupComment, TypeInv, Return, Idle, Saves
  <2>2. EditShows' /\ CrossingBlurs'
    BY <2>1 DEF BodyInv, EditShows, CrossingBlurs, Saves
  <2>3. BodyMatchesStored'
    BY <2>1 DEF BodyInv, EditShows, BodyMatchesStored
  <2> QED
    BY <2>2, <2>3 DEF BodyInv
<1>5. ASSUME NEW s \in Syncs, Fail(s) PROVE BodyInv'
  <2>1. /\ UNCHANGED <<body, stored>>
        /\ blurred' = IF Saves(s) THEN blurred \cup {sync[s].comment} ELSE blurred
        /\ sync'[s].at = "idle" /\ \A q \in Syncs \ {s} : sync'[q] = sync[q]
    BY <1>5, MovesTyped DEF Fail, TypeInv, Return, Idle, Saves
  <2>2. EditShows' /\ CrossingBlurs'
    BY <2>1 DEF BodyInv, EditShows, CrossingBlurs, Saves
  <2>3. BodyMatchesStored'
    BY <2>1 DEF BodyInv, BodyMatchesStored, Saves
  <2> QED
    BY <2>2, <2>3 DEF BodyInv
<1>6. ASSUME NEW c \in Comments, PersonDeletes(c) PROVE BodyInv'
  BY <1>6, NothingSaved DEF PersonDeletes
<1>7. CASE UNCHANGED vars
  BY <1>7, NothingSaved DEF vars
<1> QED
  BY <1>1, <1>2, <1>3, <1>4, <1>5, <1>6, <1>7 DEF Next, Continue

\* What the row says of its comment is what the comment shows, but for
\* deletions, edits yet to be stored, and edits that crossed or were cut short.
THEOREM BodyCorrect == Spec => []BodyMatchesStored
<1>1. Init => BodyInv
  BY DEF Init, Idle, BodyInv, EditShows, CrossingBlurs, BodyMatchesStored, Saves
<1>2. BodyInv => BodyMatchesStored
  BY DEF BodyInv
<1> QED
  BY <1>1, <1>2, BodyStep, TypeInvariant, PTL DEF Spec
-----------------------------------------------------------------------------
(***************************************************************************)
(* What a step may never do                                                *)
(***************************************************************************)

\* Only CreateComment posts.
LEMMA OnlyPosts ==
  ASSUME TypeInv, [Next]_vars
  PROVE  \/ posted' = posted
         \/ \E s \in Syncs : CreateComment(s) /\ body' = Append(body, sync[s].status)
<1>1. ASSUME NEW s \in Syncs, UpdateComment(s) PROVE posted' = posted
  BY <1>1, EditStep DEF posted, TypeInv
<1>2. ASSUME NEW s \in Syncs, CreateComment(s)
      PROVE  posted' = posted \/ body' = Append(body, sync[s].status)
  BY <1>2, PostStep DEF posted
<1>3. ASSUME NEW c \in Comments, PersonDeletes(c) PROVE posted' = posted
  BY <1>3 DEF PersonDeletes, posted, TypeInv
<1>4. CASE body' = body
  BY <1>4 DEF posted
<1> QED
  BY <1>1, <1>2, <1>3, <1>4 DEF Next, Continue, BeginSync, UpsertSetupComment, Fail, vars

\* A passing check never posts a comment, however its syncs interleave.
THEOREM PassingIsQuiet == Spec => PassingNeverPosts
<1>1. ASSUME TypeInv, [Next]_vars, NEW c \in posted + 1 .. posted'
      PROVE  body'[c] # "passed"
  <2>1. PICK s \in Syncs : CreateComment(s) /\ body' = Append(body, sync[s].status)
    BY <1>1, OnlyPosts DEF posted, TypeInv
  <2>2. sync[s].at = "creating" /\ sync[s].status \in Statuses \ {"passed"}
    BY <1>1, <2>1, PostStep DEF TypeInv, SyncOK
  <2>3. c = Len(body) + 1 /\ body'[c] = sync[s].status
    BY <1>1, <2>1, <2>2 DEF posted, TypeInv, Bodies
  <2> QED
    BY <2>2, <2>3
<1>2. TypeInv /\ [Next]_vars => [\A c \in posted + 1 .. posted' : body'[c] # "passed"]_vars
  BY <1>1
<1> QED
  BY <1>2, TypeInvariant, PTL DEF Spec, PassingNeverPosts

\* A request to the author is stored only when a comment shows it.
THEOREM AsksAreShown == Spec => AskIsShown
<1>1. ASSUME TypeInv, [Next]_vars, NEW s \in Syncs,
             sync[s].at # "saving", sync'[s].at = "saving", sync'[s].status \notin Settled
      PROVE  body'[sync'[s].comment] = sync'[s].status
  <2>1. ASSUME NEW q \in Syncs, UpdateComment(q)
        PROVE  body'[sync'[s].comment] = sync'[s].status
    <3>1. q = s
      BY <1>1, <2>1, EditStep DEF Goto, Return, TypeInv
    <3>2. /\ body' = [body EXCEPT ![sync[s].comment] = sync[s].status]
          /\ Goto(s, "saving", sync[s].status, sync[s].comment, sync[s].row)
      BY <1>1, <2>1, <3>1, EditStep DEF Goto, Return, Idle, TypeInv
    <3>3. sync[s].comment \in 1 .. posted /\ body \in Seq(Bodies)
      BY <1>1, <2>1, <3>1, EditStep DEF TypeInv, SyncOK, SyncType, NoComment, posted
    <3> QED
      BY <1>1, <3>2, <3>3 DEF Goto, TypeInv, posted
  <2>2. ASSUME NEW q \in Syncs, CreateComment(q)
        PROVE  body'[sync'[s].comment] = sync'[s].status
    <3>1. q = s
      BY <1>1, <2>2, PostStep DEF Goto, Return, TypeInv
    <3>2. /\ body' = Append(body, sync[s].status)
          /\ Goto(s, "saving", sync[s].status, posted + 1, sync[s].row)
      BY <1>1, <2>2, <3>1, PostStep DEF Goto, Return, Idle, TypeInv
    <3>3. sync[s].status \in Bodies /\ body \in Seq(Bodies)
      BY <1>1, <2>2, <3>1, PostStep DEF TypeInv, SyncOK, Bodies
    <3> QED
      BY <1>1, <3>2, <3>3 DEF Goto, TypeInv, posted
  <2>3. ASSUME NEW q \in Syncs, NEW ask \in Asks, BeginSync(q, ask) PROVE FALSE
    BY <1>1, <2>3, BeginStep, MovesTyped DEF TypeInv
  <2>4. ASSUME NEW q \in Syncs, UpsertSetupComment(q) \/ Fail(q) PROVE FALSE
    BY <1>1, <2>4 DEF UpsertSetupComment, Fail, Return, Idle, TypeInv
  <2>5. sync' # sync
    BY <1>1
  <2> QED
    BY <1>1, <2>1, <2>2, <2>3, <2>4, <2>5 DEF Next, Continue, PersonDeletes, vars
<1>2. TypeInv /\ [Next]_vars =>
        [\A s \in Syncs :
           sync[s].at # "saving" /\ sync'[s].at = "saving" /\ sync'[s].status \notin Settled
             => body'[sync'[s].comment] = sync'[s].status]_vars
  BY <1>1
<1> QED
  BY <1>2, TypeInvariant, PTL DEF Spec, AskIsShown

\* A comment is left behind only by a sync that was cut short, or by one that
\* stores over a row another sync has changed since it read it.
THEOREM StraysOnlyRace == Spec => StraysNeedARace
<1>1. TypeInv /\ [Next]_vars =>
        [\A c \in Orphans' \ Orphans : \E s \in Syncs :
           /\ sync[s].at \in {"creating", "saving"} /\ sync'[s].at = "idle"
           /\ stored' = stored \/ sync[s].row # stored]_vars
  <2> SUFFICES ASSUME TypeInv, [Next]_vars, NEW c \in Orphans' \ Orphans
               PROVE  \E s \in Syncs :
                        /\ sync[s].at \in {"creating", "saving"} /\ sync'[s].at = "idle"
                        /\ stored' = stored \/ sync[s].row # stored
    OBVIOUS
  <2>1. /\ c \in 1 .. posted' /\ body'[c] # "deleted" /\ stored'.comment # c
        /\ \A s \in Syncs : sync'[s].at # "saving" \/ sync'[s].comment # c
    BY DEF Orphans
  <2>2. body \in Seq(Bodies) /\ DOMAIN sync = Syncs /\ sync = [s \in Syncs |-> sync[s]]
    BY DEF TypeInv
  <2>3. ASSUME NEW s \in Syncs, CreateComment(s), body' = Append(body, sync[s].status), c = posted + 1
        PROVE  sync[s].at = "creating" /\ sync'[s].at = "idle" /\ stored' = stored
    BY <2>1, <2>2, <2>3, PostStep DEF Goto, Return, Idle
  <2>4. CASE c \in 1 .. posted
    <3>1. body[c] # "deleted"
      <4>1. ASSUME body[c] = "deleted" PROVE body'[c] = "deleted"
        <5>1. ASSUME NEW s \in Syncs, UpdateComment(s) PROVE body'[c] = "deleted"
          BY <2>2, <2>4, <4>1, <5>1, EditStep DEF posted
        <5>2. ASSUME NEW s \in Syncs, CreateComment(s) PROVE body'[c] = "deleted"
          <6>1. sync[s].status \in Bodies
            BY <5>2, PostStep DEF TypeInv, SyncOK, Bodies
          <6> QED
            BY <2>2, <2>4, <4>1, <5>2, <6>1, PostStep DEF posted
        <5>3. ASSUME NEW d \in Comments, PersonDeletes(d) PROVE body'[c] = "deleted"
          BY <2>2, <2>4, <4>1, <5>3 DEF PersonDeletes, posted
        <5> QED
          BY <4>1, <5>1, <5>2, <5>3
             DEF Next, Continue, BeginSync, UpsertSetupComment, Fail, vars
      <4> QED
        BY <2>1, <4>1
    <3>2. CASE stored.comment = c
      <4>1. stored' # stored
        BY <2>1, <3>2
      <4>2. PICK s \in Syncs : UpsertSetupComment(s)
        BY <4>1, EditStep DEF Next, Continue, BeginSync, CreateComment, Fail, PersonDeletes, vars
      <4>3. /\ sync[s].at = "saving" /\ sync'[s].at = "idle" /\ sync[s].comment # c
        BY <2>1, <2>2, <4>2 DEF UpsertSetupComment, Return, Idle
      <4>4. sync[s].row # stored
        BY <2>4, <3>1, <3>2, <4>3 DEF TypeInv, RowOK, NoRow, NoComment, posted
      <4> QED
        BY <4>3, <4>4
    <3>3. CASE \E s \in Syncs : sync[s].at = "saving" /\ sync[s].comment = c
      <4>1. PICK s \in Syncs : sync[s].at = "saving" /\ sync[s].comment = c
        BY <3>3
      <4>2. sync'[s] # sync[s]
        BY <2>1, <4>1
      <4>3. Fail(s)
        <5>1. ASSUME NEW q \in Syncs, UpdateComment(q) PROVE FALSE
          BY <2>2, <4>1, <4>2, <5>1, EditStep DEF Goto, Return
        <5>2. ASSUME NEW q \in Syncs, CreateComment(q) PROVE FALSE
          BY <2>2, <4>1, <4>2, <5>2, PostStep DEF Goto, Return
        <5>3. ASSUME NEW q \in Syncs, NEW ask \in Asks, BeginSync(q, ask) PROVE FALSE
          BY <2>2, <4>1, <4>2, <5>3, BeginStep
        <5>4. ASSUME NEW q \in Syncs, UpsertSetupComment(q) PROVE FALSE
          BY <2>1, <2>2, <4>1, <4>2, <5>4 DEF UpsertSetupComment, Return
        <5>5. ASSUME NEW q \in Syncs, Fail(q) PROVE q = s
          BY <2>2, <4>1, <4>2, <5>5 DEF Fail, Return
        <5> QED
          BY <4>2, <5>1, <5>2, <5>3, <5>4, <5>5 DEF Next, Continue, PersonDeletes, vars
      <4> QED
        BY <2>2, <4>1, <4>3 DEF Fail, Return, Idle
    <3> QED
      BY <2>4, <3>1, <3>2, <3>3 DEF Orphans
  <2>5. CASE c \notin 1 .. posted
    <3>1. posted' # posted
      BY <2>1, <2>5
    <3>2. PICK s \in Syncs : CreateComment(s) /\ body' = Append(body, sync[s].status)
      BY <3>1, OnlyPosts
    <3>3. c = posted + 1
      <4>1. sync[s].status \in Bodies
        BY <3>2, PostStep DEF TypeInv, SyncOK, Bodies
      <4> QED
        BY <2>1, <2>2, <2>5, <3>2, <4>1 DEF posted
    <3> QED
      BY <2>3, <3>2, <3>3
  <2> QED
    BY <2>4, <2>5
<1> QED
  BY <1>1, TypeInvariant, PTL DEF Spec, StraysNeedARace
-----------------------------------------------------------------------------
(***************************************************************************)
(* The promises of comment.go, for syncs that do not overlap.              *)
(***************************************************************************)

\* One sync at a time, and each stores what it did.
Alone == \A s, t \in Syncs : s = t \/ sync[s].at = "idle" \/ sync[t].at = "idle"
Uncut == [][\A s \in Syncs : sync[s].at # "idle" /\ sync'[s].at = "idle" => UpsertSetupComment(s)]_vars

\* A sync alone works on the row as it is, and nothing of what it does is lost.
AloneInv ==
    /\ blurred = {} /\ Orphans = {}
    /\ \A s \in Syncs : sync[s].at = "idle" \/ sync[s].row = stored

LEMMA AloneStep ==
  ASSUME TypeInv, AloneInv, Alone, Alone', [Next]_vars,
         [\A s \in Syncs : sync[s].at # "idle" /\ sync'[s].at = "idle" => UpsertSetupComment(s)]_vars,
         [\A c \in Orphans' \ Orphans : \E s \in Syncs :
            /\ sync[s].at \in {"creating", "saving"} /\ sync'[s].at = "idle"
            /\ stored' = stored \/ sync[s].row # stored]_vars
  PROVE  AloneInv'
<1> SUFFICES ASSUME vars' # vars PROVE AloneInv'
  BY DEF AloneInv, Orphans, posted, vars
<1>0. DOMAIN sync = Syncs /\ sync = [s \in Syncs |-> sync[s]]
  BY DEF TypeInv
<1>1. Orphans' = {}
  <2> SUFFICES ASSUME NEW c \in Orphans' PROVE FALSE
    OBVIOUS
  <2>1. PICK s \in Syncs : /\ sync[s].at \in {"creating", "saving"} /\ sync'[s].at = "idle"
                           /\ stored' = stored \/ sync[s].row # stored
    BY DEF AloneInv, vars
  <2>2. UpsertSetupComment(s) /\ stored' = stored
    BY <2>1 DEF AloneInv, vars
  <2>3. /\ c \in 1 .. posted /\ body[c] # "deleted" /\ stored.comment # c
        /\ stored.comment = sync[s].comment
    BY <2>2 DEF Orphans, posted, UpsertSetupComment
  <2>4. PICK t \in Syncs : sync[t].at = "saving" /\ sync[t].comment = c
    BY <2>3 DEF AloneInv, Orphans
  <2> QED
    BY <2>1, <2>3, <2>4 DEF Alone
<1>2. ASSUME NEW s \in Syncs, NEW ask \in Asks, BeginSync(s, ask) PROVE AloneInv'
  BY <1>0, <1>1, <1>2 DEF BeginSync, Goto, AloneInv
<1>3. ASSUME NEW s \in Syncs, UpdateComment(s) PROVE AloneInv'
  <2>1. sync[s].at = "updating" /\ ~Return(s) /\ ~OtherSaving(s, sync[s].comment) /\ stored' = stored
    <3>1. sync[s].at = "updating" /\ stored' = stored
      BY <1>3, EditStep
    <3>2. ~Return(s)
      BY <1>0, <3>1 DEF Return, Idle, UpsertSetupComment, vars
    <3> QED
      BY <3>1, <3>2 DEF Alone, OtherSaving
  <2>2. blurred' = {} /\ \E phase, status, c : Goto(s, phase, status, c, sync[s].row)
    BY <1>3, <2>1, EditStep DEF AloneInv
  <2> QED
    BY <1>0, <1>1, <2>1, <2>2 DEF AloneInv, Goto
<1>4. ASSUME NEW s \in Syncs, CreateComment(s) PROVE AloneInv'
  <2>1. sync[s].at = "creating" /\ stored' = stored /\ blurred' = blurred /\ ~Return(s)
    BY <1>0, <1>4, PostStep DEF Return, Idle, UpsertSetupComment, vars
  <2>2. Goto(s, "saving", sync[s].status, posted + 1, sync[s].row)
    BY <1>4, <2>1, PostStep
  <2> QED
    BY <1>0, <1>1, <2>1, <2>2 DEF AloneInv, Goto
<1>5. ASSUME NEW s \in Syncs, UpsertSetupComment(s) PROVE AloneInv'
  <2>1. sync'[s].at = "idle" /\ \A t \in Syncs \ {s} : sync'[t] = sync[t]
    BY <1>0, <1>5 DEF UpsertSetupComment, Return, Idle
  <2>2. sync[s].at # "idle"
    BY <1>5 DEF UpsertSetupComment
  <2>3. \A t \in Syncs : sync'[t].at = "idle"
    BY <2>1, <2>2 DEF Alone
  <2> QED
    BY <1>1, <1>5, <2>3 DEF AloneInv, UpsertSetupComment
<1>6. ASSUME NEW s \in Syncs, Fail(s) PROVE FALSE
  <2>1. sync[s].at # "idle" /\ sync'[s].at = "idle"
    BY <1>0, <1>6 DEF Fail, Return, Idle
  <2>2. UpsertSetupComment(s)
    BY <2>1 DEF vars
  <2> QED
    BY <1>6, <2>2 DEF Fail, UpsertSetupComment, AloneInv
<1>7. ASSUME NEW c \in Comments, PersonDeletes(c) PROVE AloneInv'
  BY <1>1, <1>7 DEF PersonDeletes, AloneInv
<1> QED
  BY <1>2, <1>3, <1>4, <1>5, <1>6, <1>7 DEF Next, Continue, vars

\* comment.go: the pull request has one comment, which an author with nothing left
\* to do no longer finds asking.  The code keeps this in every run in which syncs
\* do not overlap and none is cut short, whatever they are asked and whatever
\* people delete: the races of StraysNeedARace and SettledAuthorNotAsked are the
\* only ways to break it.
THEOREM OneCommentAlone == Spec /\ []Alone /\ Uncut => [](Orphans = {} /\ SettledAuthorNotAsked)
<1> DEFINE Stores == \A s \in Syncs : sync[s].at # "idle" /\ sync'[s].at = "idle" => UpsertSetupComment(s)
           Strays == \A c \in Orphans' \ Orphans : \E s \in Syncs :
                       /\ sync[s].at \in {"creating", "saving"} /\ sync'[s].at = "idle"
                       /\ stored' = stored \/ sync[s].row # stored
<1>1. Init => AloneInv
  BY DEF Init, AloneInv, Idle, Orphans, posted
<1>2. TypeInv /\ AloneInv /\ Alone /\ Alone' /\ [Next]_vars /\ [Stores]_vars /\ [Strays]_vars => AloneInv'
  BY AloneStep
<1>3. AloneInv /\ BodyMatchesStored => Orphans = {} /\ SettledAuthorNotAsked
  BY DEF AloneInv, BodyMatchesStored, SettledAuthorNotAsked, Settled, NoRow
<1> QED
  BY <1>1, <1>2, <1>3, TypeInvariant, BodyCorrect, StraysOnlyRace, PTL DEF Spec, Uncut, StraysNeedARace
=============================================================================
