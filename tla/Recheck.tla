------------------------------- MODULE Recheck -------------------------------
(***************************************************************************)
(* The "/arbiterer recheck" command (internal/server/webhook.go) and its   *)
(* cooldown in the pull_request_runs row (internal/storage/run.go).        *)
(*                                                                         *)
(* A command takes the stored run and starts the cooldown in one           *)
(* statement, asks GitHub to run it again, and gives the cooldown back if  *)
(* that fails.  The handler works on the context of the webhook request:   *)
(* once GitHub gives up waiting for it, every later call fails, giving     *)
(* the cooldown back included.                                             *)
(***************************************************************************)
EXTENDS Naturals

CONSTANTS Commands,  \* the recheck commands of the pull request's author
          MaxRuns,   \* bound: the workflow runs that pushes start
          MaxClock,  \* bound: the last tick of the clock
          recheckCooldown, \* in ticks
          Timeout,   \* the longest a handler works on a run it has taken, in ticks
          Failures   \* what may go wrong: "call" (a call fails or its answer is
                     \* lost), "context" (the webhook request is given up on)

ASSUME RecheckAssumption ==
    /\ MaxRuns \in Nat /\ MaxClock \in Nat \ {0}
    /\ recheckCooldown \in Nat /\ Timeout \in Nat /\ Timeout < recheckCooldown
    /\ Failures \subseteq {"call", "context"}

VARIABLES
    run,     \* pull_request_runs: the run to start, or NoRun
    last,    \* its last_recheck_at, or Null
    cmd,     \* the handler of each command
    pushed,  \* how many runs pushes have started
    running, \* the runs GitHub has under way
    clock,
    kept     \* history: commands that could not give their cooldown back

vars == <<run, last, cmd, pushed, running, clock, kept>>

Runs == 1 .. MaxRuns
Times == 1 .. MaxClock
NoRun == 0
Null == 0

\* A handler: when it took which run, when GitHub started that run, and whether
\* the request it serves is still waited for.
Idle == [at |-> "idle", took |-> Null, run |-> NoRun, started |-> Null, ctx |-> "live", reaction |-> "none"]
\* A call is made only on a live context, and its answer may be lost.
Sent(c) == cmd[c].ctx = "live"
AnswerLost(c) == Sent(c) /\ "call" \in Failures
Fallible(c) == "call" \in Failures \/ cmd[c].ctx = "cancelled"
Reacts(c, reaction) == cmd' = [cmd EXCEPT ![c].at = "reacting", ![c].reaction = reaction]
Goes(c, phase) == cmd' = [cmd EXCEPT ![c].at = phase]

Init ==
    /\ run = NoRun /\ last = Null
    /\ cmd = [c \in Commands |-> Idle]
    /\ pushed = 0 /\ running = {}
    /\ clock = 1
    /\ kept = {}

-----------------------------------------------------------------------------
\* handleIssueComment passes a command on, and an installation token is made;
\* without one there is not even a reaction.
Receive(c) ==
    /\ cmd[c].at = "idle"
    /\ \/ Goes(c, "taking")
       \/ Fallible(c) /\ Goes(c, "done")
    /\ UNCHANGED <<run, last, pushed, running, clock, kept>>

\* Mutant of Elapsed: the cooldown is one tick short.
ElapsedEarly == last = Null \/ last + recheckCooldown <= clock + 1

Elapsed == last = Null \/ last + recheckCooldown <= clock

\* TakePullRequestRun: one UPDATE checks the cooldown and starts it again.  If
\* its answer is lost, so is the run, and the cooldown goes on.
TakeRun(c) ==
    /\ cmd[c].at = "taking"
    /\ \/ /\ Sent(c) /\ run # NoRun /\ Elapsed
          /\ last' = clock
          /\ cmd' = [cmd EXCEPT ![c].at = "starting", ![c].took = clock, ![c].run = run]
          /\ UNCHANGED kept
       \/ /\ AnswerLost(c) /\ run # NoRun /\ Elapsed
          /\ last' = clock
          /\ cmd' = [cmd EXCEPT ![c].at = "reacting", ![c].took = clock, ![c].reaction = "confused"]
          /\ kept' = kept \cup {c}
       \/ /\ run = NoRun \/ ~Elapsed \/ Fallible(c)
          /\ Reacts(c, "confused")
          /\ UNCHANGED <<last, kept>>
    /\ UNCHANGED <<run, pushed, running, clock>>

\* Mutant of StartRun: a failed start keeps the cooldown.
StartKeepingCooldown(c) ==
    /\ cmd[c].at = "starting"
    /\ \/ /\ Sent(c) /\ cmd[c].run \notin running
          /\ running' = running \cup {cmd[c].run}
          /\ cmd' = [cmd EXCEPT ![c].at = "reacting", ![c].started = clock, ![c].reaction = "+1"]
       \/ /\ cmd[c].run \in running \/ Fallible(c)
          /\ Reacts(c, "confused")
          /\ UNCHANGED running
    /\ UNCHANGED <<run, last, pushed, clock, kept>>

\* RerunWorkflowRun.  GitHub refuses to start a run that is under way; its
\* answer to one it started may be lost, which the handler takes for a failure.
StartRun(c) ==
    /\ cmd[c].at = "starting"
    /\ \/ /\ Sent(c) /\ cmd[c].run \notin running
          /\ running' = running \cup {cmd[c].run}
          /\ \/ cmd' = [cmd EXCEPT ![c].at = "reacting", ![c].started = clock, ![c].reaction = "+1"]
             \/ /\ AnswerLost(c)
                /\ cmd' = [cmd EXCEPT ![c].at = "releasing", ![c].started = clock]
       \/ /\ cmd[c].run \in running \/ Fallible(c)
          /\ Goes(c, "releasing")
          /\ UNCHANGED running
    /\ UNCHANGED <<run, last, pushed, clock, kept>>

\* Mutant of ReleaseRun: the run is left to the command to start once more.
ReleaseTaken(c) ==
    /\ cmd[c].at = "releasing"
    /\ last' = Null
    /\ cmd' = [cmd EXCEPT ![c].at = "starting", ![c].run = NoRun]
    /\ UNCHANGED <<run, pushed, running, clock, kept>>

\* ReleasePullRequestRun forgets the cooldown, whoever started it.
ReleaseRun(c) ==
    /\ cmd[c].at = "releasing"
    /\ \/ Sent(c) /\ last' = Null /\ UNCHANGED kept
       \/ Fallible(c) /\ kept' = kept \cup {c} /\ UNCHANGED last
    /\ Reacts(c, "confused")
    /\ UNCHANGED <<run, pushed, running, clock>>

\* reactToCommand: a failure is only logged.
React(c) ==
    /\ cmd[c].at = "reacting"
    /\ Goes(c, "done")
    /\ UNCHANGED <<run, last, pushed, running, clock, kept>>

\* GitHub gives up waiting for the webhook's answer, or the server stops.
Cancel(c) ==
    /\ "context" \in Failures /\ cmd[c].at \notin {"idle", "done"}
    /\ cmd' = [cmd EXCEPT ![c].ctx = "cancelled"]
    /\ UNCHANGED <<run, last, pushed, running, clock, kept>>

-----------------------------------------------------------------------------
\* A push starts a run of the workflow.
Push ==
    /\ pushed < MaxRuns
    /\ pushed' = pushed + 1
    /\ running' = running \cup {pushed + 1}
    /\ UNCHANGED <<run, last, cmd, clock, kept>>

\* A run under way resolves its author: UpsertPullRequestRun stores it, and
\* leaves the cooldown as it is.
recordPullRequestRun(r) ==
    /\ r \in running
    /\ run' = r
    /\ UNCHANGED <<last, cmd, pushed, running, clock, kept>>

EndRun(r) ==
    /\ r \in running
    /\ running' = running \ {r}
    /\ UNCHANGED <<run, last, cmd, pushed, clock, kept>>

\* Time passes, but no handler works on a run for longer than its calls may last.
Tick ==
    /\ clock < MaxClock
    /\ \A c \in Commands : cmd[c].at \in {"starting", "releasing"} => clock < cmd[c].took + Timeout
    /\ clock' = clock + 1
    /\ UNCHANGED <<run, last, cmd, pushed, running, kept>>

-----------------------------------------------------------------------------
Handle(c) == Receive(c) \/ TakeRun(c) \/ StartRun(c) \/ ReleaseRun(c) \/ React(c)

Next ==
    \/ \E c \in Commands : Handle(c) \/ Cancel(c)
    \/ \E r \in Runs : recordPullRequestRun(r) \/ EndRun(r)
    \/ Push \/ Tick

Spec == Init /\ [][Next]_vars

-----------------------------------------------------------------------------
(***************************************************************************)
(* Properties                                                              *)
(***************************************************************************)

HandlersOK ==
    cmd \in [Commands -> [at : {"idle", "taking", "starting", "releasing", "reacting", "done"},
                          took : Times \cup {Null}, run : Runs \cup {NoRun}, started : Times \cup {Null},
                          ctx : {"live", "cancelled"}, reaction : {"none", "+1", "confused"}]]

\* Every variable has its type, a handler past taking has a run it took, and a
\* handler never outlives the time its calls may last.
TypeOK ==
    /\ HandlersOK
    /\ run \in Runs \cup {NoRun}
    /\ last \in 0 .. clock
    /\ pushed \in 0 .. MaxRuns
    /\ running \subseteq Runs
    /\ clock \in Times
    /\ kept \subseteq Commands
    /\ \A c \in Commands :
         cmd[c].at \in {"starting", "releasing"} =>
            /\ cmd[c].run # NoRun /\ cmd[c].took # Null
            /\ clock <= cmd[c].took + Timeout

\* No command takes the run within the cooldown of one that was told it started
\* a recheck: a release by a third command never reaches past its own cooldown
\* into that of a later one.
TakesSpaced ==
    \A c, d \in Commands :
        c # d /\ cmd[c].reaction = "+1"
              /\ (cmd[c].took < cmd[d].took \/ (cmd[c].took = cmd[d].took /\ cmd[d].reaction = "+1"))
          => cmd[c].took + recheckCooldown <= cmd[d].took

\* A cooldown is always some command's: once all commands are answered, one
\* that is left over was started by a command whose run GitHub started, or by
\* one that failed to give it back.  A refused start never costs the next
\* command its turn, however the commands interleave.
CooldownEarned ==
    (\A c \in Commands : cmd[c].at \in {"idle", "done"}) /\ last # Null
      => \E c \in Commands : cmd[c].took = last /\ (cmd[c].started # Null \/ c \in kept)

\* README: "A failed start can be retried immediately": when all commands are
\* answered, a cooldown is left only by a run GitHub started.
FailedStartFree ==
    (\A c \in Commands : cmd[c].at \in {"idle", "done"}) /\ last # Null
      => \E c \in Commands : cmd[c].took = last /\ cmd[c].started # Null
=============================================================================
