----------------------------- MODULE ForkServer -----------------------------
(***************************************************************************)
(* The grading server of app/sandbox/entry.py: serve(), one select() loop  *)
(* that reads job lines from the API, forks up to Parallel children at     *)
(* once, collects each child's report from its own pipe, kills a child at  *)
(* its deadline and answers every job with one line.                       *)
(*                                                                         *)
(* The API is Send and Close, the learner's code in a child is Writes,     *)
(* Floods, Shuts and Stops, time is Overdue.  A line is in stdin once its  *)
(* last byte is; lines are JSON, the API sends no others.  Jobs are        *)
(* identified by the id that the API gives them.                           *)
(*                                                                         *)
(* The end of a child's pipe is not the end of its process: code that      *)
(* closes the pipe and lives on makes the loop wait for it, and for as     *)
(* long as it lives the loop does nothing else.                            *)
(***************************************************************************)
EXTENDS Integers, Sequences, FiniteSets

CONSTANTS
  Jobs,      \* ids of the job lines the API sends
  Parallel,  \* --parallel
  Endings,   \* the ways a child ends in this instance
  Stdin      \* stands for the file descriptor of stdin among the ready ones

ASSUME JobsAssumption == Stdin \notin Jobs
ASSUME ParallelAssumption == Parallel \in Nat \ {0}

(* How a child's process ends: its report written, exit 0 without one, another exit code *)
(* or signal, the exit code of the timer, SIGXCPU or SIGKILL as at the CPU limit.        *)
Ends == {"reported", "empty", "failed", "alarmed", "outOfCpu"}

ASSUME EndingsAssumption == Endings \subseteq Ends

VARIABLES
  sent,      \* jobs the API has written
  stdin,     \* lines written and not read yet
  closed,    \* the API has gone: its ends of stdin and stdout are closed
  stdinOpen, \* the server has not seen that yet
  waiting,   \* jobs read and not started, oldest first
  running,   \* jobs whose child is watched, in the order they were started
  awaited,   \* the job whose child the loop waits for, if any
  child,     \* what has become of each job's child
  due,       \* running jobs whose deadline has passed
  pc,        \* place in the loop
  ready,     \* descriptors still to be handled in this round
  replies    \* lines written to stdout

vars == <<sent, stdin, closed, stdinOpen, waiting, running, awaited, child, due, pc, ready, replies>>
loop == <<stdinOpen, waiting, running, awaited, pc, ready, replies>>

Outcomes == {"ok", "timeout", "crashed"}

Alive == {"busy", "writing", "flooding", "shut"}
Child == {"none", "reaped"} \cup Alive \cup Ends

Members(s)    == {s[i] : i \in DOMAIN s}
Place(s, x)   == CHOOSE i \in DOMAIN s : s[i] = x
Without(s, x) == [i \in 1..Len(s) - 1 |-> IF i < Place(s, x) THEN s[i] ELSE s[i + 1]]

-----------------------------------------------------------------------------
Init ==
  /\ sent = {} /\ stdin = <<>> /\ closed = FALSE /\ stdinOpen = TRUE
  /\ waiting = <<>> /\ running = <<>> /\ awaited = {} /\ child = [j \in Jobs |-> "none"]
  /\ due = {} /\ pc = "fill" /\ ready = {} /\ replies = <<>>

(* reply(): without a reader the write raises BrokenPipeError, which nothing catches. *)
Reply(j, outcome, next) ==
  IF closed THEN pc' = "exited" /\ UNCHANGED replies
  ELSE pc' = next /\ replies' = Append(replies, [job |-> j, outcome |-> outcome])

-----------------------------------------------------------------------------
(* mutant: one child too many *)
OneTooMany == waiting # <<>> /\ Len(running) <= Parallel

(* while waiting and len(running) < parallel *)
CanStart == waiting # <<>> /\ Len(running) < Parallel

(* mutant: a job whose fork failed is answered and tried again *)
RetriesToo ==
  LET j == Head(waiting) IN
  /\ pc = "fill" /\ CanStart
  /\ \/ /\ waiting' = Tail(waiting)
        /\ running' = Append(running, j)
        /\ child' = [child EXCEPT ![j] = "busy"]
        /\ UNCHANGED <<pc, replies>>
     \/ Reply(j, "crashed", "fill") /\ UNCHANGED <<waiting, running, child>>
  /\ UNCHANGED <<sent, stdin, closed, stdinOpen, awaited, due, ready>>

(* The oldest waiting job: forked, or answered at once when that fails. *)
StartJob ==
  LET j == Head(waiting) IN
  /\ pc = "fill" /\ CanStart
  /\ waiting' = Tail(waiting)
  /\ \/ /\ running' = Append(running, j)
        /\ child' = [child EXCEPT ![j] = "busy"]
        /\ UNCHANGED <<pc, replies>>
     \/ Reply(j, "crashed", "fill") /\ UNCHANGED <<running, child>>
  /\ UNCHANGED <<sent, stdin, closed, stdinOpen, awaited, due, ready>>

(* mutant: a descriptor stays among those that are watched after its child was reaped *)
NeverRemoved ==
  {fd \in {Stdin} : stdinOpen /\ (stdin # <<>> \/ closed)}
  \cup {j \in Jobs : child[j] \notin {"none", "busy"}}

(* Descriptors that select() reports: stdin with a line or at its end, and every child *)
(* that has written something or whose end of the pipe is closed.                      *)
Readable ==
  {fd \in {Stdin} : stdinOpen /\ (stdin # <<>> \/ closed)}
  \cup {j \in Members(running) : child[j] # "busy"}

(* They are handled in the order they were passed in: stdin, then as the children started. *)
Earliest(fds) ==
  CHOOSE fd \in fds : \A j \in fds : Place(running, fd) <= Place(running, j)

(* mutant: select() without a timeout *)
NoTimeout == Readable # {}

(* select() returns when something is readable or the earliest deadline is reached. *)
Wakes == Readable # {} \/ due # {}

Select ==
  /\ pc = "fill" /\ ~CanStart /\ Wakes
  /\ ready' = Readable /\ pc' = "handle"
  /\ UNCHANGED <<sent, stdin, closed, stdinOpen, waiting, running, awaited, child, due, replies>>

-----------------------------------------------------------------------------
(* One read of up to 64 KiB: the last byte of some of the lines, or the end of stdin. *)
ReadLines(n) ==
  /\ stdin' = SubSeq(stdin, n + 1, Len(stdin))
  /\ waiting' = waiting \o SubSeq(stdin, 1, n)

ReadStdin ==
  /\ pc = "handle" /\ Stdin \in ready
  /\ ready' = ready \ {Stdin}
  /\ IF stdin = <<>>
     THEN stdinOpen' = FALSE /\ UNCHANGED <<stdin, waiting>>
     ELSE (\E n \in 1..Len(stdin) : ReadLines(n)) /\ UNCHANGED stdinOpen
  /\ UNCHANGED <<sent, closed, running, awaited, child, due, pc, replies>>

(* mutant: the outcome is what the child's end is called *)
Verbatim(end) == end

(* mutant: the report is looked for before the exit code *)
IgnoresExit(end) == IF end \in {"reported", "failed"} THEN "ok" ELSE "timeout"

(* _outcome *)
Outcome(end) ==
  IF end = "reported" THEN "ok"
  ELSE IF end \in {"alarmed", "outOfCpu"} THEN "timeout" ELSE "crashed"

(* mutant: the job stays among the running ones until the next one is started *)
NotPopped(j) == due' = due \ {j} /\ UNCHANGED running

(* finish() first takes the child off the table and closes its pipe ... *)
Pop(j) == running' = Without(running, j) /\ due' = due \ {j}

(* ... and answers the job when the process has ended and been reaped. *)
ReapAndReply(j, outcome, next) ==
  /\ child' = [child EXCEPT ![j] = "reaped"]
  /\ Reply(j, outcome, next)

(* The end of a pipe: the loop goes to wait for the process, which nothing kills. *)
AwaitEnd(j) ==
  /\ ready' = ready \ {j} /\ Pop(j)
  /\ awaited' = {j} /\ pc' = "await"
  /\ UNCHANGED <<child, replies>>

(* A read from a child: more of its report, too much of it, or the end of its pipe. *)
ReadChild ==
  LET j == Earliest(ready) IN
  /\ pc = "handle" /\ ready # {} /\ Stdin \notin ready
  /\ \/ /\ child[j] = "writing" /\ ready' = ready \ {j}
        /\ child' = [child EXCEPT ![j] = "busy"]
        /\ UNCHANGED <<running, awaited, due, pc, replies>>
     \/ /\ child[j] = "flooding" /\ ready' = ready \ {j}
        /\ Pop(j) /\ ReapAndReply(j, "crashed", pc) /\ UNCHANGED awaited
     \/ child[j] \in Ends \cup {"shut"} /\ AwaitEnd(j)
  /\ UNCHANGED <<sent, stdin, closed, stdinOpen, waiting>>

(* os.waitpid(pid, 0) returns *)
Reap ==
  /\ pc = "await"
  /\ \E j \in awaited : child[j] \in Ends /\ ReapAndReply(j, Outcome(child[j]), "handle")
  /\ awaited' = {}
  /\ UNCHANGED <<sent, stdin, closed, stdinOpen, waiting, running, due, ready>>

(* The deadlines are compared with the time after the reads. *)
CheckDeadlines ==
  /\ pc = "handle" /\ ready = {}
  /\ ready' = Members(running) \cap due /\ pc' = "kill"
  /\ UNCHANGED <<sent, stdin, closed, stdinOpen, waiting, running, awaited, child, due, replies>>

KillLate ==
  /\ pc = "kill" /\ ready # {}
  /\ LET j == Earliest(ready)
     IN  ready' = ready \ {j} /\ Pop(j) /\ ReapAndReply(j, "timeout", pc)
  /\ UNCHANGED <<sent, stdin, closed, stdinOpen, waiting, awaited>>

(* mutant: the loop ends only by an error *)
Forever == pc # "exited"

(* while stdin_open or running or waiting *)
MoreToDo == stdinOpen \/ running # <<>> \/ waiting # <<>>

Again ==
  /\ pc = "kill" /\ ready = {}
  /\ pc' = IF MoreToDo THEN "fill" ELSE "exited"
  /\ UNCHANGED <<sent, stdin, closed, stdinOpen, waiting, running, awaited, child, due, ready, replies>>

Serve == StartJob \/ Select \/ ReadStdin \/ ReadChild \/ Reap \/ CheckDeadlines \/ KillLate \/ Again

-----------------------------------------------------------------------------
(* The API *)
Send(j) ==
  /\ ~closed /\ pc # "exited" /\ j \notin sent
  /\ sent' = sent \cup {j} /\ stdin' = Append(stdin, j)
  /\ UNCHANGED <<closed, loop, child, due>>

Close ==
  /\ ~closed
  /\ closed' = TRUE
  /\ UNCHANGED <<sent, stdin, loop, child, due>>

(* A child's process *)
Becomes(j, from, to) ==
  /\ child[j] \in from /\ child' = [child EXCEPT ![j] = to]
  /\ UNCHANGED <<sent, stdin, closed, loop, due>>

Writes(j) == Becomes(j, {"busy"}, "writing")
Floods(j) == Becomes(j, {"busy"}, "flooding")
Shuts(j)  == Becomes(j, {"busy", "writing"}, "shut")

(* A report needs the pipe. *)
Stops(j)  ==
  \E end \in Endings : Becomes(j, {"busy", "writing"} \cup (IF end = "reported" THEN {} ELSE {"shut"}), end)

(* timeout + 1 s after the fork, whatever the child is doing. *)
Overdue(j) ==
  /\ pc # "exited" /\ j \in Members(running) \ due
  /\ due' = due \cup {j}
  /\ UNCHANGED <<sent, stdin, closed, loop, child>>

Next ==
  \/ Serve \/ Close
  \/ \E j \in Jobs : Send(j) \/ Writes(j) \/ Floods(j) \/ Shuts(j) \/ Stops(j) \/ Overdue(j)

(* The loop runs and time passes; nothing is assumed of the learner's code or the API. *)
Spec == Init /\ [][Next]_vars /\ WF_vars(Serve) /\ \A j \in Jobs : WF_vars(Overdue(j))

-----------------------------------------------------------------------------
(* Properties                                                              *)

TypeOK ==
  /\ sent \subseteq Jobs /\ closed \in BOOLEAN /\ stdinOpen \in BOOLEAN
  /\ stdin \in Seq(Jobs) /\ waiting \in Seq(Jobs) /\ running \in Seq(Jobs)
  /\ awaited \subseteq Jobs /\ child \in [Jobs -> Child] /\ due \subseteq Jobs
  /\ pc \in {"fill", "handle", "await", "kill", "exited"}
  /\ ready \subseteq Jobs \cup {Stdin}
  /\ replies \in Seq([job : Jobs, outcome : Outcomes])

Answered == {replies[i].job : i \in DOMAIN replies}
Unread   == Members(stdin)

(* Every job the API sent is in exactly one place: unread, waiting, running, waited for, *)
(* or answered; none is lost on the way and none is in two places or twice in one.       *)
InOnePlace ==
  /\ pc # "exited" =>
       sent \subseteq Unread \cup Members(waiting) \cup Members(running) \cup awaited \cup Answered
  /\ Len(stdin) + Len(waiting) + Len(running) + Cardinality(awaited) + Len(replies)
       <= Cardinality(sent)

(* Never more children than allowed, and the children are exactly those of the running  *)
(* jobs and the one that the loop waits for: none is forgotten alive or left unreaped   *)
(* while the server runs.                                                               *)
ChildrenAreWatched ==
  /\ Len(running) + Cardinality(awaited) <= Parallel
  /\ \A j \in Jobs : child[j] \notin {"none", "reaped"} <=> j \in Members(running) \cup awaited

(* What is handled in a round is still there: no descriptor is read after it was closed. *)
ReadyIsWatched == ready \subseteq Members(running) \cup {Stdin}

(* The answer tells what the child did: "ok" only for a report written by a child that   *)
(* ended by itself, "timeout" only when a limit was reached.                             *)
HonestAnswers ==
  [][\A j \in Jobs : j \in Answered' \ Answered =>
       LET outcome == replies'[Len(replies')].outcome IN
       /\ outcome = "ok" => child[j] = "reported"
       /\ outcome = "timeout" => j \in due \/ child[j] \in {"alarmed", "outOfCpu"}
       /\ child[j] = "reported" => outcome = "ok" \/ j \in due]_vars

(* The loop waits for a child that has closed its pipe and has not ended. *)
IsHeld == \E j \in awaited : child[j] = "shut"

(* Whatever the code of a job does, and whatever the others do, every job is answered,    *)
(* unless the API goes away or a child that closed its pipe holds the loop for ever: the  *)
(* deadlines alone guarantee it, for any child that keeps its pipe open.                  *)
EveryJobIsAnswered ==
  []<>~IsHeld => \A j \in Jobs : j \in sent ~> j \in Answered \/ closed

(* The server does not outlive the API, but for such a child. *)
EndsWithTheApi == []<>~IsHeld => (closed ~> pc = "exited")
=============================================================================
