---------------------------- MODULE RecheckProofs ----------------------------
(***************************************************************************)
(* What Recheck promises for any number of commands and runs, any cooldown *)
(* and any clock bound.                                                    *)
(***************************************************************************)
EXTENDS Recheck, TLAPS

USE RecheckAssumption DEF NoRun, Null

\* A handler that moves to another phase, with or without a reaction.
LEMMA GoesTyped ==
  ASSUME HandlersOK, NEW c \in Commands,
         NEW phase \in {"taking", "starting", "releasing", "reacting", "done"},
         NEW reaction \in {"confused", "+1"},
         Goes(c, phase) \/ (phase = "reacting" /\ Reacts(c, reaction))
  PROVE  /\ HandlersOK'
         /\ cmd'[c].at = phase /\ cmd'[c].took = cmd[c].took /\ cmd'[c].run = cmd[c].run
         /\ cmd'[c].started = cmd[c].started
         /\ cmd'[c].reaction \in {cmd[c].reaction} \cup (IF phase = "reacting" THEN {reaction} ELSE {})
         /\ \A d \in Commands \ {c} : cmd'[d] = cmd[d]
BY DEF HandlersOK, Goes, Reacts

\* A handler that has taken the run.
LEMMA TakeTyped ==
  ASSUME HandlersOK, NEW c \in Commands, clock \in Times, run \in Runs,
         \/ cmd' = [cmd EXCEPT ![c].at = "starting", ![c].took = clock, ![c].run = run]
         \/ cmd' = [cmd EXCEPT ![c].at = "reacting", ![c].took = clock, ![c].reaction = "confused"]
  PROVE  /\ HandlersOK'
         /\ cmd'[c].took = clock
         /\ cmd'[c].reaction \in {cmd[c].reaction, "confused"}
         /\ \/ cmd'[c].at = "starting" /\ cmd'[c].run = run
            \/ cmd'[c].at = "reacting" /\ cmd'[c].reaction = "confused"
         /\ \A d \in Commands \ {c} : cmd'[d] = cmd[d]
BY DEF HandlersOK

\* A handler whose run GitHub has started.
LEMMA StartTyped ==
  ASSUME HandlersOK, NEW c \in Commands, clock \in Times,
         \/ cmd' = [cmd EXCEPT ![c].at = "reacting", ![c].started = clock, ![c].reaction = "+1"]
         \/ cmd' = [cmd EXCEPT ![c].at = "releasing", ![c].started = clock]
  PROVE  /\ HandlersOK'
         /\ cmd'[c].took = cmd[c].took /\ cmd'[c].run = cmd[c].run /\ cmd'[c].started = clock
         /\ \/ cmd'[c].at = "reacting" /\ cmd'[c].reaction = "+1"
            \/ cmd'[c].at = "releasing" /\ cmd'[c].reaction = cmd[c].reaction
         /\ \A d \in Commands \ {c} : cmd'[d] = cmd[d]
BY DEF HandlersOK

\* A request that is given up on keeps all but its context.
LEMMA CancelTyped ==
  ASSUME HandlersOK, NEW c \in Commands, Cancel(c)
  PROVE  /\ HandlersOK'
         /\ \A d \in Commands : /\ cmd'[d].at = cmd[d].at /\ cmd'[d].took = cmd[d].took
                                /\ cmd'[d].run = cmd[d].run /\ cmd'[d].started = cmd[d].started
                                /\ cmd'[d].reaction = cmd[d].reaction
BY DEF HandlersOK, Cancel

\* Type correctness of the handlers; in particular no handler works on a run for
\* longer than its calls may last.
THEOREM TypeCorrect == Spec => []TypeOK
<1>1. Init => TypeOK
  <2> SUFFICES ASSUME Init PROVE TypeOK
    OBVIOUS
  <2>1. HandlersOK
    BY DEF Init, HandlersOK, Idle
  <2>2. \A c \in Commands : cmd[c].at = "idle"
    BY DEF Init, Idle
  <2>3. clock \in Times /\ last \in 0 .. clock /\ pushed \in 0 .. MaxRuns
    BY DEF Init, Times
  <2> QED
    BY <2>1, <2>2, <2>3 DEF Init, TypeOK
<1>2. TypeOK /\ [Next]_vars => TypeOK'
  <2> SUFFICES ASSUME TypeOK, [Next]_vars PROVE TypeOK'
    OBVIOUS
  <2> USE DEF TypeOK
  <2>1. ASSUME NEW c \in Commands, Receive(c) \/ ReleaseRun(c) \/ React(c) PROVE TypeOK'
    <3>1. last' \in 0 .. clock /\ kept' \subseteq Commands /\ UNCHANGED <<run, pushed, running, clock>>
      BY <2>1 DEF Receive, ReleaseRun, React, Times
    <3> QED
      BY <2>1, <3>1, GoesTyped DEF Receive, ReleaseRun, React
  <2>2. ASSUME NEW c \in Commands, TakeRun(c) PROVE TypeOK'
    <3>1. last' \in 0 .. clock /\ kept' \subseteq Commands /\ UNCHANGED <<run, pushed, running, clock>>
      BY <2>2 DEF TakeRun, Times
    <3>2. CASE last' = last /\ Reacts(c, "confused")
      BY <3>1, <3>2, GoesTyped
    <3>3. CASE /\ run # NoRun
               /\ \/ cmd' = [cmd EXCEPT ![c].at = "starting", ![c].took = clock, ![c].run = run]
                  \/ cmd' = [cmd EXCEPT ![c].at = "reacting", ![c].took = clock, ![c].reaction = "confused"]
      <4>1. /\ HandlersOK' /\ cmd'[c].took = clock
            /\ cmd'[c].at = "reacting" \/ (cmd'[c].at = "starting" /\ cmd'[c].run = run)
            /\ \A d \in Commands \ {c} : cmd'[d] = cmd[d]
        BY <3>3, TakeTyped
      <4>2. clock # Null /\ clock <= clock + Timeout
        BY DEF Times
      <4>3. \A d \in Commands : cmd'[d].at \in {"starting", "releasing"} =>
               cmd'[d].run # NoRun /\ cmd'[d].took # Null /\ clock <= cmd'[d].took + Timeout
        BY <3>3, <4>1, <4>2
      <4> QED
        BY <3>1, <4>1, <4>3
    <3> QED
      BY <2>2, <3>2, <3>3 DEF TakeRun
  <2>3. ASSUME NEW c \in Commands, StartRun(c) PROVE TypeOK'
    <3>1. UNCHANGED <<run, last, pushed, clock, kept>> /\ cmd[c].at = "starting"
      BY <2>3 DEF StartRun
    <3>2. running' \subseteq Runs
      BY <2>3 DEF StartRun, HandlersOK
    <3>3. CASE Goes(c, "releasing")
      BY <3>1, <3>2, <3>3, GoesTyped
    <3>4. CASE \/ cmd' = [cmd EXCEPT ![c].at = "reacting", ![c].started = clock, ![c].reaction = "+1"]
               \/ cmd' = [cmd EXCEPT ![c].at = "releasing", ![c].started = clock]
      <4>1. /\ HandlersOK' /\ cmd'[c].took = cmd[c].took /\ cmd'[c].run = cmd[c].run
            /\ \A d \in Commands \ {c} : cmd'[d] = cmd[d]
        BY <3>4, StartTyped
      <4>2. \A d \in Commands : cmd'[d].at \in {"starting", "releasing"} =>
               cmd'[d].run # NoRun /\ cmd'[d].took # Null /\ clock <= cmd'[d].took + Timeout
        BY <3>1, <4>1
      <4> QED
        BY <3>1, <3>2, <4>1, <4>2
    <3> QED
      BY <2>3, <3>3, <3>4 DEF StartRun
  <2>4. ASSUME NEW c \in Commands, Cancel(c) PROVE TypeOK'
    BY <2>4, CancelTyped DEF Cancel
  <2>5. CASE (\E r \in Runs : recordPullRequestRun(r) \/ EndRun(r)) \/ Push
    <3>1. UNCHANGED <<last, cmd, clock, kept>> /\ run' \in Runs \cup {NoRun}
      BY <2>5 DEF recordPullRequestRun, EndRun, Push
    <3>2. pushed' \in 0 .. MaxRuns
      BY <2>5 DEF recordPullRequestRun, EndRun, Push
    <3>3. CASE Push
      <4>1. pushed + 1 \in Runs /\ running' = running \cup {pushed + 1}
        BY <3>3 DEF Push, Runs
      <4> QED
        BY <3>1, <3>2, <4>1 DEF HandlersOK
    <3>4. CASE \E r \in Runs : recordPullRequestRun(r) \/ EndRun(r)
      <4>1. running' \subseteq running
        BY <3>4 DEF recordPullRequestRun, EndRun
      <4> QED
        BY <3>1, <3>2, <4>1 DEF HandlersOK
    <3> QED
      BY <2>5, <3>3, <3>4
  <2>6. CASE Tick
    <3>1. clock' \in Times /\ last \in 0 .. clock' /\ UNCHANGED <<run, last, cmd, pushed, running, kept>>
      BY <2>6 DEF Tick, Times
    <3>2. \A c \in Commands : cmd[c].at \in {"starting", "releasing"} =>
             cmd[c].took \in Times /\ clock' <= cmd[c].took + Timeout
      BY <2>6 DEF Tick, Times, HandlersOK
    <3> QED
      BY <3>1, <3>2 DEF HandlersOK
  <2>7. CASE UNCHANGED vars
    BY <2>7 DEF vars, HandlersOK
  <2> QED
    BY <2>1, <2>2, <2>3, <2>4, <2>5, <2>6, <2>7 DEF Next, Handle
<1> QED
  BY <1>1, <1>2, PTL DEF Spec
-----------------------------------------------------------------------------
(***************************************************************************)
(* The cooldown.  TakesSpaced is not inductive: that a release cannot      *)
(* reach into the cooldown of a later command needs that the commands at   *)
(* work on a run are one at a time, that the stored cooldown is theirs,    *)
(* and that whoever was told "+1" is spaced from them already.             *)
(***************************************************************************)

\* c has taken a run and not yet been told how its start went.
Active(c) == cmd[c].at \in {"starting", "releasing"}
Told(c) == cmd[c].reaction = "+1"

\* Nothing is taken in the future, and only an answered command was told.
TakesPast ==
    \A c \in Commands : /\ cmd[c].took <= clock
                        /\ Told(c) => cmd[c].took # Null /\ cmd[c].at \in {"reacting", "done"}

\* One command is at work on a run at a time, the cooldown is its own, and no
\* other took a run after it.
OneAtWork ==
    \A e \in Commands : Active(e) =>
        /\ last = cmd[e].took
        /\ \A d \in Commands : cmd[d].took <= cmd[e].took /\ (Active(d) => d = e)

\* Who was told holds the cooldown, or its cooldown is over; and it was over
\* when the command now at work took the run.
ToldSpaced ==
    \A c \in Commands : Told(c) =>
        /\ last = cmd[c].took \/ cmd[c].took + recheckCooldown <= clock
        /\ \A e \in Commands : Active(e) /\ e # c => cmd[c].took + recheckCooldown <= cmd[e].took

\* A cooldown is that of a command at work, of one whose run GitHub started, or
\* of one that could not give it back.
Owned ==
    last # Null => \E c \in Commands :
        cmd[c].took = last /\ (Active(c) \/ cmd[c].started # Null \/ c \in kept)

CooldownInv == TakesPast /\ OneAtWork /\ ToldSpaced /\ TakesSpaced /\ Owned

\* All a step leaves of CooldownInv when nothing it speaks of changes, but that
\* time may pass.
LEMMA Unmoved ==
  ASSUME TypeOK, TypeOK', CooldownInv, last' = last, kept' = kept, clock <= clock',
         \A d \in Commands : /\ cmd'[d].took = cmd[d].took
                             /\ cmd'[d].started = cmd[d].started \/ cmd'[d].started # Null
                             /\ Told(d)' <=> Told(d)
                             /\ Active(d)' <=> Active(d)
                             /\ Told(d) => cmd'[d].at \in {"reacting", "done"}
  PROVE  CooldownInv'
<1> USE DEF TypeOK, HandlersOK, Active, Told, Times
<1>1. TakesPast'
  BY DEF CooldownInv, TakesPast
<1>2. OneAtWork'
  BY DEF CooldownInv, OneAtWork
<1>3. ToldSpaced'
  BY DEF CooldownInv, ToldSpaced
<1>4. TakesSpaced'
  BY DEF CooldownInv, TakesSpaced
<1>5. Owned'
  BY DEF CooldownInv, Owned
<1> QED
  BY <1>1, <1>2, <1>3, <1>4, <1>5 DEF CooldownInv

\* A command takes the run: nobody is at work on it, and everybody who was told
\* is past its cooldown.
LEMMA TakeKeeps ==
  ASSUME TypeOK, TypeOK', CooldownInv, NEW c \in Commands,
         cmd[c].at = "taking", run # NoRun, Elapsed, last' = clock, clock' = clock,
         \/ /\ cmd' = [cmd EXCEPT ![c].at = "starting", ![c].took = clock, ![c].run = run]
            /\ kept' = kept
         \/ /\ cmd' = [cmd EXCEPT ![c].at = "reacting", ![c].took = clock, ![c].reaction = "confused"]
            /\ kept' = kept \cup {c}
  PROVE  CooldownInv'
<1> USE DEF Active, Told
<1>1. /\ cmd'[c].took = clock /\ ~Told(c) /\ ~Told(c)'
      /\ Active(c)' \/ c \in kept'
      /\ \A d \in Commands \ {c} : cmd'[d] = cmd[d]
      /\ clock # Null /\ clock \in Nat
  <2>1. HandlersOK /\ run \in Runs /\ clock \in Times
    BY DEF TypeOK
  <2>2. ~Told(c)
    BY DEF CooldownInv, TakesPast
  <2>3. /\ cmd'[c].took = clock /\ cmd'[c].reaction \in {cmd[c].reaction, "confused"}
        /\ \A d \in Commands \ {c} : cmd'[d] = cmd[d]
    BY <2>1, TakeTyped
  <2>4. Active(c)' \/ c \in kept'
    BY <2>1 DEF HandlersOK
  <2> QED
    BY <2>1, <2>2, <2>3, <2>4 DEF Times
<1>2. \A e \in Commands : ~Active(e)
  <2> SUFFICES ASSUME NEW e \in Commands, Active(e) PROVE FALSE
    OBVIOUS
  <2>1. last = cmd[e].took /\ cmd[e].took # Null /\ clock <= cmd[e].took + Timeout
    BY DEF TypeOK, CooldownInv, OneAtWork
  <2>2. last \in Nat
    BY DEF TypeOK, Times
  <2> QED
    BY <1>1, <2>1, <2>2 DEF Elapsed
<1>3. \A d \in Commands : Told(d) => cmd[d].took + recheckCooldown <= clock
  <2> SUFFICES ASSUME NEW d \in Commands, Told(d) PROVE cmd[d].took + recheckCooldown <= clock
    OBVIOUS
  <2>1. cmd[d].took # Null /\ (last = cmd[d].took \/ cmd[d].took + recheckCooldown <= clock)
    BY DEF CooldownInv, TakesPast, ToldSpaced
  <2> QED
    BY <2>1 DEF Elapsed
<1>4. \A d \in Commands : cmd[d].took \in Nat /\ cmd[d].took <= clock
  BY DEF TypeOK, HandlersOK, Times, CooldownInv, TakesPast
<1>5. TakesPast'
  BY <1>1, <1>4 DEF CooldownInv, TakesPast
<1>6. OneAtWork'
  BY <1>1, <1>2, <1>4 DEF OneAtWork
<1>7. ToldSpaced'
  BY <1>1, <1>2, <1>3 DEF ToldSpaced
<1>8. TakesSpaced'
  BY <1>1, <1>3, <1>4 DEF CooldownInv, TakesSpaced
<1>9. Owned'
  BY <1>1 DEF Owned
<1> QED
  BY <1>5, <1>6, <1>7, <1>8, <1>9 DEF CooldownInv

\* The command at work learns that GitHub started its run.
LEMMA ToldKeeps ==
  ASSUME TypeOK, TypeOK', CooldownInv, NEW c \in Commands, cmd[c].at = "starting",
         cmd'[c].took = cmd[c].took, cmd'[c].started # Null,
         cmd'[c].at = "reacting", cmd'[c].reaction = "+1",
         \A d \in Commands \ {c} : cmd'[d] = cmd[d],
         last' = last, clock' = clock, kept' = kept
  PROVE  CooldownInv'
<1> USE DEF Active, Told
<1>1. cmd[c].took # Null
  BY DEF TypeOK
<1>2. /\ last = cmd[c].took
      /\ \A d \in Commands : cmd[d].took <= cmd[c].took /\ (Active(d) => d = c)
  BY DEF CooldownInv, OneAtWork
<1>3. \A d \in Commands : Told(d) /\ d # c => cmd[d].took + recheckCooldown <= cmd[c].took
  BY DEF CooldownInv, ToldSpaced
<1>4. \A d \in Commands : cmd[d].took \in Nat
  BY DEF TypeOK, HandlersOK, Times
<1>5. TakesPast'
  BY <1>1 DEF CooldownInv, TakesPast
<1>6. OneAtWork' /\ ToldSpaced'
  BY <1>1, <1>2 DEF CooldownInv, OneAtWork, ToldSpaced
<1>7. TakesSpaced'
  BY <1>1, <1>2, <1>3, <1>4 DEF CooldownInv, TakesSpaced
<1>8. Owned'
  BY <1>1, <1>2 DEF Owned
<1> QED
  BY <1>5, <1>6, <1>7, <1>8 DEF CooldownInv

\* The command at work gives its cooldown back: whoever was told holds it no
\* longer, its cooldown being over.
LEMMA ReleaseKeeps ==
  ASSUME TypeOK, TypeOK', CooldownInv, NEW c \in Commands, cmd[c].at = "releasing",
         Reacts(c, "confused"), clock' = clock,
         (last' = Null /\ kept' = kept) \/ (last' = last /\ kept' = kept \cup {c})
  PROVE  CooldownInv'
<1> USE DEF Active, Told
<1>1. /\ cmd'[c].took = cmd[c].took /\ cmd[c].took # Null
      /\ cmd'[c].at = "reacting" /\ cmd'[c].reaction = "confused" /\ ~Told(c)
      /\ \A d \in Commands \ {c} : cmd'[d] = cmd[d]
  <2>1. /\ cmd'[c].took = cmd[c].took /\ cmd'[c].at = "reacting" /\ cmd'[c].reaction = "confused"
        /\ \A d \in Commands \ {c} : cmd'[d] = cmd[d]
    BY DEF TypeOK, HandlersOK, Reacts
  <2>2. ~Told(c)
    BY DEF CooldownInv, TakesPast
  <2> QED
    BY <2>1, <2>2 DEF TypeOK
<1>2. /\ last = cmd[c].took
      /\ \A d \in Commands : cmd[d].took <= cmd[c].took /\ (Active(d) => d = c)
  BY DEF CooldownInv, OneAtWork
<1>3. \A d \in Commands : Told(d) => cmd[d].took + recheckCooldown <= clock
  <2> SUFFICES ASSUME NEW d \in Commands, Told(d) PROVE cmd[d].took + recheckCooldown <= clock
    OBVIOUS
  <2>1. cmd[d].took + recheckCooldown <= cmd[c].took /\ cmd[c].took <= clock
    BY <1>1 DEF CooldownInv, ToldSpaced, TakesPast
  <2> QED
    BY <2>1 DEF TypeOK, HandlersOK, Times
<1>5. TakesPast'
  BY <1>1 DEF CooldownInv, TakesPast
<1>6. OneAtWork' /\ ToldSpaced'
  BY <1>1, <1>2, <1>3 DEF OneAtWork, ToldSpaced
<1>7. TakesSpaced'
  BY <1>1 DEF CooldownInv, TakesSpaced
<1>8. Owned'
  BY <1>1, <1>2 DEF Owned
<1> QED
  BY <1>5, <1>6, <1>7, <1>8 DEF CooldownInv

\* Every step keeps the invariant.
LEMMA CooldownStep ==
  ASSUME TypeOK, TypeOK', CooldownInv, [Next]_vars
  PROVE  CooldownInv'
<1>1. ASSUME NEW c \in Commands, Receive(c) \/ React(c) PROVE CooldownInv'
  <2>1. PICK phase \in {"taking", "done"} : Goes(c, phase) /\ (phase = "taking" => cmd[c].at = "idle")
    BY <1>1 DEF Receive, React
  <2>2. ~Active(c) /\ UNCHANGED <<last, clock, kept>> /\ (cmd[c].at = "idle" => ~Told(c))
    BY <1>1 DEF Receive, React, Active, CooldownInv, TakesPast
  <2>3. /\ cmd'[c].at = phase /\ cmd'[c].took = cmd[c].took /\ cmd'[c].started = cmd[c].started
        /\ cmd'[c].reaction = cmd[c].reaction
        /\ \A d \in Commands \ {c} : cmd'[d] = cmd[d]
    BY <2>1, GoesTyped DEF TypeOK
  <2> QED
    BY <2>1, <2>2, <2>3, Unmoved DEF Active, Told, CooldownInv, TakesPast, TypeOK, Times
<1>2. ASSUME NEW c \in Commands, TakeRun(c) PROVE CooldownInv'
  <2>1. CASE last' = last /\ kept' = kept /\ Reacts(c, "confused")
    <3>1. cmd[c].at = "taking" /\ clock' = clock
      BY <1>2 DEF TakeRun
    <3>2. /\ cmd'[c].at = "reacting" /\ cmd'[c].took = cmd[c].took /\ cmd'[c].started = cmd[c].started
          /\ cmd'[c].reaction = "confused"
          /\ \A d \in Commands \ {c} : cmd'[d] = cmd[d]
      BY <2>1 DEF Reacts, TypeOK, HandlersOK
    <3> QED
      BY <2>1, <3>1, <3>2, Unmoved DEF Active, Told, CooldownInv, TakesPast, TypeOK, Times
  <2> QED
    BY <1>2, <2>1, TakeKeeps DEF TakeRun
<1>3. ASSUME NEW c \in Commands, StartRun(c) PROVE CooldownInv'
  <2>1. cmd[c].at = "starting" /\ UNCHANGED <<last, clock, kept>>
    BY <1>3 DEF StartRun
  <2>2. /\ cmd'[c].took = cmd[c].took /\ \A d \in Commands \ {c} : cmd'[d] = cmd[d]
        /\ \/ cmd'[c].at = "reacting" /\ cmd'[c].reaction = "+1" /\ cmd'[c].started # Null
           \/ /\ cmd'[c].at = "releasing" /\ cmd'[c].reaction = cmd[c].reaction
              /\ cmd'[c].started = cmd[c].started \/ cmd'[c].started # Null
    <3>1. HandlersOK /\ clock \in Times /\ clock # Null
      BY DEF TypeOK, Times
    <3>2. CASE Goes(c, "releasing")
      BY <3>1, <3>2 DEF Goes, HandlersOK
    <3> QED
      BY <1>3, <3>1, <3>2, StartTyped DEF StartRun
  <2>3. CASE cmd'[c].at = "releasing" /\ cmd'[c].reaction = cmd[c].reaction
    BY <2>1, <2>2, <2>3, Unmoved DEF Active, Told, CooldownInv, TakesPast, TypeOK, Times
  <2> QED
    BY <2>1, <2>2, <2>3, ToldKeeps
<1>4. ASSUME NEW c \in Commands, ReleaseRun(c) PROVE CooldownInv'
  BY <1>4, ReleaseKeeps DEF ReleaseRun
<1>5. ASSUME NEW c \in Commands, Cancel(c) PROVE CooldownInv'
  <2>1. UNCHANGED <<last, clock, kept>>
    BY <1>5 DEF Cancel
  <2> QED
    BY <1>5, <2>1, CancelTyped, Unmoved DEF Active, Told, CooldownInv, TakesPast, TypeOK, Times
<1>6. CASE (\E r \in Runs : recordPullRequestRun(r) \/ EndRun(r)) \/ Push \/ Tick \/ UNCHANGED vars
  <2>1. UNCHANGED <<last, cmd, kept>> /\ clock <= clock'
    BY <1>6 DEF recordPullRequestRun, EndRun, Push, Tick, vars, TypeOK, Times
  <2> QED
    BY <2>1, Unmoved DEF Active, Told, CooldownInv, TakesPast
<1> QED
  BY <1>1, <1>2, <1>3, <1>4, <1>5, <1>6 DEF Next, Handle

THEOREM CooldownCorrect == Spec => []CooldownInv
<1>1. Init => CooldownInv
  BY DEF Init, Idle, CooldownInv, TakesPast, OneAtWork, ToldSpaced, TakesSpaced, Owned, Active, Told
<1> QED
  BY <1>1, CooldownStep, TypeCorrect, PTL DEF Spec

\* A command is told it started a recheck only when no other takes the run
\* within its cooldown, whatever is released in between.
THEOREM SpacesTakes == Spec => []TakesSpaced
<1>1. CooldownInv => TakesSpaced
  BY DEF CooldownInv
<1> QED
  BY <1>1, CooldownCorrect, PTL

\* A cooldown that outlives its commands was paid for by a run GitHub started,
\* or is one that could not be given back.
THEOREM EarnsCooldown == Spec => []CooldownEarned
<1>1. CooldownInv => CooldownEarned
  BY DEF CooldownInv, Owned, CooldownEarned, Active
<1> QED
  BY <1>1, CooldownCorrect, PTL
-----------------------------------------------------------------------------
(***************************************************************************)
(* The promise of the README, but for the context of the webhook.          *)
(***************************************************************************)

\* Only a command whose request was given up on has kept its cooldown.
KeptInv == \A c \in kept : c \in Commands /\ cmd[c].ctx = "cancelled"

\* A handler's context, once cancelled, stays so.
LEMMA CancelledForGood ==
  ASSUME HandlersOK, [Next]_vars, NEW c \in Commands, cmd[c].ctx = "cancelled"
  PROVE  cmd'[c].ctx = "cancelled"
<1> USE DEF HandlersOK
<1>1. ASSUME NEW d \in Commands, Handle(d) PROVE cmd'[c].ctx = "cancelled"
  BY <1>1 DEF Handle, Receive, TakeRun, StartRun, ReleaseRun, React, Goes, Reacts
<1>2. ASSUME NEW d \in Commands, Cancel(d) PROVE cmd'[c].ctx = "cancelled"
  BY <1>2 DEF Cancel
<1>3. CASE UNCHANGED cmd
  BY <1>3
<1> QED
  BY <1>1, <1>2, <1>3 DEF Next, recordPullRequestRun, EndRun, Push, Tick, vars

LEMMA KeptStep ==
  ASSUME "call" \notin Failures
  PROVE  HandlersOK /\ KeptInv /\ [Next]_vars => KeptInv'
<1> SUFFICES ASSUME HandlersOK, KeptInv, [Next]_vars, NEW c \in kept' PROVE c \in Commands /\ cmd'[c].ctx = "cancelled"
  BY DEF KeptInv
<1>1. CASE c \in kept
  BY <1>1, CancelledForGood DEF KeptInv
<1>2. CASE c \notin kept
  <2>1. ReleaseRun(c) /\ c \in Commands /\ cmd[c].ctx = "cancelled"
    BY <1>2 DEF Next, Handle, Receive, TakeRun, StartRun, ReleaseRun, React, Cancel, recordPullRequestRun,
           EndRun, Push, Tick, vars, AnswerLost, Fallible
  <2> QED
    BY <2>1, CancelledForGood
<1> QED
  BY <1>1, <1>2

\* README: "A failed start can be retried immediately".  The code keeps this in
\* every run in which no call fails but on a request given up on: a cooldown that
\* no started run has earned is that of a command whose own context was cancelled
\* between taking the run and giving it back.
THEOREM RetryableUnlessCancelled ==
  ASSUME "call" \notin Failures
  PROVE  Spec => [](FailedStartFree \/ \E c \in Commands : cmd[c].took = last /\ cmd[c].ctx = "cancelled")
<1>1. Init => KeptInv
  BY DEF Init, KeptInv
<1>2. TypeOK /\ KeptInv /\ [Next]_vars => KeptInv'
  BY KeptStep DEF TypeOK
<1>3. CooldownEarned /\ KeptInv
        => FailedStartFree \/ \E c \in Commands : cmd[c].took = last /\ cmd[c].ctx = "cancelled"
  BY DEF CooldownEarned, KeptInv, FailedStartFree
<1> QED
  BY <1>1, <1>2, <1>3, TypeCorrect, EarnsCooldown, PTL DEF Spec
=============================================================================
