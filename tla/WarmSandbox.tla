---------------------------- MODULE WarmSandbox ----------------------------
(***************************************************************************)
(* The API's side of warm grading, class WarmSandbox and execute() of      *)
(* app/sandbox/executor.py: grades that run at once, the lock that guards  *)
(* the fork server's start and its stdin, the slots, the job ids, one      *)
(* reader task per server process, and what happens when a server dies,    *)
(* hangs, is slow or cannot be started.                                    *)
(*                                                                         *)
(* Everything between two awaits is one step.  A server is a JobServer     *)
(* here: it answers the jobs it was sent, in any order.  It may also stall *)
(* and go on (a child may hold its loop), and be killed by the system at   *)
(* any time.  One whose start or whose replies the API gives up on is      *)
(* "abandoned": it runs on, or comes up, with nobody to read it.           *)
(***************************************************************************)
EXTENDS Integers, FiniteSets

CONSTANTS
  Grades,      \* requests that grade
  Boot,        \* the start-up task that runs warm_up()
  Parallel,    \* sandbox_parallel
  MaxServers,  \* bound: server processes in a behaviour; a later start fails
  MaxJobs      \* bound: jobs sent in a behaviour

ASSUME GradesAssumption == Boot \notin Grades /\ 0 \notin Grades \cup {Boot}
ASSUME BoundsAssumption == Parallel \in Nat \ {0} /\ MaxServers \in Nat /\ MaxJobs \in Nat

VARIABLES
  proc,      \* _proc: the server in use, or None
  lock,      \* holder of _lock, or Free
  jobs,      \* _jobs: the last job id
  pending,   \* keys of _pending: jobs whose future the reader can still resolve
  task,      \* each task's place, its job, the server it was sent to, and its future
  server,    \* state of each server process
  exited,    \* servers whose exit the event loop has seen (returncode is set)
  held,      \* jobs each server has and has not answered
  written,   \* answers in each server's stdout pipe
  reading    \* servers whose reader task runs

vars == <<proc, lock, jobs, pending, task, server, exited, held, written, reading>>

Servers == 1..MaxServers
Jobs    == 1..MaxJobs
Tasks   == Grades \cup {Boot}
None    == 0
Free    == 0

(* "unset" is a future that waits, an answer is the job id it is tagged with. *)
Unset   == 0
Crashed == -1

Idle == [pc |-> "idle", job |-> 0, server |-> None, fut |-> Unset]

Up      == {"up", "stalled"}
Gone    == {"dead", "killed"}
Waiting == {c \in Grades : task[c].pc = "waiting"}
Unsent  == {c \in Grades : task[c].pc \in {"queued", "locking", "starting"}}

-----------------------------------------------------------------------------
Init ==
  /\ proc = None /\ lock = Free /\ jobs = 0 /\ pending = {}
  /\ task = [c \in Tasks |-> IF c = Boot THEN [Idle EXCEPT !.pc = "locking"] ELSE Idle]
  /\ server = [p \in Servers |-> "none"] /\ exited = {}
  /\ held = [p \in Servers |-> {}] /\ written = [p \in Servers |-> {}] /\ reading = {}

Goto(c, pc) == task' = [task EXCEPT ![c].pc = pc]
Return(c)   == task' = [task EXCEPT ![c] = Idle]

(* mutant: the slot is given back once the job is sent *)
SlotUntilSent == {c \in Grades : task[c].pc \in {"locking", "starting"}}

(* async with slots: from the slot's grant to the end of run() *)
InSlot == {c \in Grades : task[c].pc \notin {"idle", "queued", "cold"}}

(* execute() with sandbox_warm: the grade asks for a slot. *)
Call(c) ==
  /\ task[c].pc = "idle" /\ jobs + Cardinality(Unsent) < MaxJobs
  /\ Goto(c, "queued")
  /\ UNCHANGED <<proc, lock, jobs, pending, server, exited, held, written, reading>>

GetSlot(c) ==
  /\ task[c].pc = "queued" /\ Cardinality(InSlot) < Parallel
  /\ Goto(c, "locking")
  /\ UNCHANGED <<proc, lock, jobs, pending, server, exited, held, written, reading>>

-----------------------------------------------------------------------------
(* run() under the lock *)

(* mutant: warm_up() starts a server whatever is there *)
BootAlwaysStarts(c) == c = Boot \/ proc = None \/ proc \in exited

(* warm_up() looks only for a server, run() also for one that has exited. *)
NeedsServer(c) == proc = None \/ (c # Boot /\ proc \in exited)

(* mutant: the job is numbered before the counter moves *)
SameJob == jobs

(* job_id *)
NextJob == jobs + 1

(* The job is registered and written to p.  A pipe whose reader is gone may take the line *)
(* all the same; or the write raises OSError, the job is taken back and the server killed. *)
SendJob(c, p) ==
  /\ jobs' = jobs + 1
  /\ \/ /\ task' = [task EXCEPT ![c] = [pc |-> "waiting", job |-> NextJob, server |-> p, fut |-> Unset]]
        /\ pending' = pending \cup {NextJob}
        /\ held' = IF server[p] \in Gone THEN held ELSE [held EXCEPT ![p] = @ \cup {NextJob}]
        /\ lock' = Free /\ proc' = p
     \/ /\ server[p] \in Gone
        /\ proc' = None
        /\ task' = [task EXCEPT ![c] = [Idle EXCEPT !.pc = "reaping", !.server = p]]
        /\ lock' = c
        /\ UNCHANGED <<pending, held>>

(* The lock is free and a server is there: the job is sent at once. *)
UseServer(c) ==
  /\ c \in Grades /\ task[c].pc = "locking" /\ lock = Free /\ ~NeedsServer(c)
  /\ SendJob(c, proc)
  /\ UNCHANGED <<server, exited, written, reading>>

NothingToDo ==
  /\ task[Boot].pc = "locking" /\ lock = Free /\ ~NeedsServer(Boot)
  /\ Return(Boot)
  /\ UNCHANGED <<proc, lock, jobs, pending, server, exited, held, written, reading>>

(* _start(): the next process is spawned, or that fails (OSError). *)
StartServer(c) ==
  /\ task[c].pc = "locking" /\ lock = Free /\ NeedsServer(c)
  /\ \/ \E p \in Servers :
          /\ server[p] = "none" /\ \A q \in Servers : q < p => server[q] # "none"
          /\ server' = [server EXCEPT ![p] = "starting"]
          /\ task' = [task EXCEPT ![c].pc = "starting", ![c].server = p]
          /\ lock' = c
     \/ /\ IF c = Boot THEN Return(c) ELSE Goto(c, "cold")
        /\ UNCHANGED <<server, lock>>
  /\ UNCHANGED <<proc, jobs, pending, exited, held, written, reading>>

(* The new server's ready line arrives.  By then the event loop has read what a server   *)
(* that had ended left in its pipe: an interpreter starts up slower than a pipe is read. *)
ServerReady(c) ==
  LET p == task[c].server IN
  /\ task[c].pc = "starting" /\ server[p] = "starting"
  /\ \A q \in reading : server[q] \notin Gone
  /\ server' = [server EXCEPT ![p] = "up"]
  /\ reading' = reading \cup {p}
  /\ IF c = Boot
     THEN /\ proc' = p /\ lock' = Free /\ Return(c)
          /\ UNCHANGED <<jobs, pending, held>>
     ELSE SendJob(c, p)
  /\ UNCHANGED <<exited, written>>

(* No ready line in time, or the process ended: the grade falls back to a cold run.  A *)
(* process that is only slow is left alone: it may come up beside its successor.       *)
StartFails(c) ==
  /\ task[c].pc = "starting"
  /\ server' = [server EXCEPT ![task[c].server] = IF @ \in Gone THEN @ ELSE "abandoned"]
  /\ lock' = Free
  /\ IF c = Boot THEN Return(c) ELSE task' = [task EXCEPT ![c] = [Idle EXCEPT !.pc = "cold"]]
  /\ UNCHANGED <<proc, jobs, pending, exited, held, written, reading>>

(* _execute_cold *)
ColdRun(c) ==
  /\ task[c].pc = "cold"
  /\ Return(c)
  /\ UNCHANGED <<proc, lock, jobs, pending, server, exited, held, written, reading>>

-----------------------------------------------------------------------------
(* run() after the lock: the future, or the timeout *)

Answered(c) ==
  /\ task[c].pc = "waiting" /\ task[c].fut # Unset
  /\ Return(c)
  /\ UNCHANGED <<proc, lock, jobs, pending, server, exited, held, written, reading>>

(* mutant: the answer is awaited without a timeout *)
Patient(c) == c \notin Tasks

(* mutant: the timeout of one job fails the others before the server is restarted *)
FailsTheOthers(c) ==
  /\ task[c].pc = "waiting" /\ server[task[c].server] # "up"
  /\ pending' = {}
  /\ task' = [d \in Tasks |-> IF d = c THEN [task[d] EXCEPT !.pc = "killing"]
                              ELSE IF d \in Waiting THEN [task[d] EXCEPT !.fut = Crashed] ELSE task[d]]
  /\ UNCHANGED <<proc, lock, jobs, server, exited, held, written, reading>>

(* timeout + 5 s have passed, which a server in order never needs.  The timer also wins over *)
(* an answer that has arrived but has not been taken yet: wait_for cancels the wait.          *)
TimesOut(c) ==
  /\ task[c].pc = "waiting" /\ server[task[c].server] # "up"
  /\ pending' = pending \ {task[c].job}
  /\ Goto(c, "killing")
  /\ UNCHANGED <<proc, lock, jobs, server, exited, held, written, reading>>

(* mutant: whatever server is there is killed *)
AnyServer(c) == c \in Tasks

(* if self._proc is proc *)
IsOwnServer(c) == proc = task[c].server

(* _kill: the server is forgotten, killed unless its exit is known, and waited for. *)
KillServer(c) ==
  /\ task[c].pc = "killing" /\ lock = Free
  /\ IF IsOwnServer(c) /\ proc # None
     THEN /\ proc' = None
          /\ server' = [server EXCEPT ![proc] = IF @ \in Gone THEN @ ELSE "killed"]
          /\ IF proc \in exited THEN Return(c) /\ UNCHANGED lock
             ELSE task' = [task EXCEPT ![c] = [Idle EXCEPT !.pc = "reaping", !.server = proc]] /\ lock' = c
     ELSE Return(c) /\ UNCHANGED <<proc, server, lock>>
  /\ UNCHANGED <<jobs, pending, exited, held, written, reading>>

Reaped(c) ==
  /\ task[c].pc = "reaping" /\ task[c].server \in exited
  /\ Return(c) /\ lock' = Free
  /\ UNCHANGED <<proc, jobs, pending, server, exited, held, written, reading>>

-----------------------------------------------------------------------------
(* _read_replies *)

(* mutant: answers are taken in the order the jobs were sent *)
InOrder(id) == {c \in Waiting : task[c].job \in pending /\ \A k \in pending : task[c].job <= k}

(* The caller whose future an answer resolves: the one registered under its id. *)
Addressee(id) == {c \in Waiting : id \in pending /\ task[c].job = id}

Resolve(callers, value) ==
  task' = [c \in Tasks |-> IF c \in callers /\ task[c].fut = Unset
                           THEN [task[c] EXCEPT !.fut = value] ELSE task[c]]

ReadReply(p) ==
  /\ p \in reading
  /\ \E id \in written[p] :
       /\ written' = [written EXCEPT ![p] = @ \ {id}]
       /\ Resolve(Addressee(id), id)
       /\ pending' = pending \ {id}
  /\ UNCHANGED <<proc, lock, jobs, server, exited, held, reading>>

(* mutant: the reader just ends *)
EndsSilently(p) ==
  /\ p \in reading /\ written[p] = {} /\ server[p] \in Gone
  /\ reading' = reading \ {p}
  /\ proc' = IF proc = p THEN None ELSE proc
  /\ UNCHANGED <<lock, jobs, pending, task, server, exited, held, written>>

(* After its loop the reader forgets its server: every job still waiting has crashed. *)
ReaderStops(p) ==
  /\ reading' = reading \ {p}
  /\ proc' = IF proc = p THEN None ELSE proc
  /\ Resolve({c \in Waiting : task[c].job \in pending}, Crashed)
  /\ pending' = {}
  /\ UNCHANGED <<lock, jobs, exited, held, written>>

(* The end of a server's pipe. *)
ReaderEnds(p) ==
  /\ p \in reading /\ written[p] = {} /\ server[p] \in Gone
  /\ ReaderStops(p)
  /\ UNCHANGED server

(* A reply that cannot be read (a line longer than the stream's limit): the reader stops *)
(* although its server may be alive, and nothing kills that.                             *)
ReaderFails(p) ==
  /\ p \in reading /\ written[p] # {}
  /\ ReaderStops(p)
  /\ server' = [server EXCEPT ![p] = IF @ \in Gone THEN @ ELSE "abandoned"]

-----------------------------------------------------------------------------
(* The server processes *)

ServerAnswers(p) ==
  /\ server[p] = "up"
  /\ \E id \in held[p] : /\ held' = [held EXCEPT ![p] = @ \ {id}]
                         /\ written' = [written EXCEPT ![p] = @ \cup {id}]
  /\ UNCHANGED <<proc, lock, jobs, pending, task, server, exited, reading>>

Becomes(p, from, to) ==
  /\ server[p] \in from /\ server' = [server EXCEPT ![p] = to]
  /\ UNCHANGED <<proc, lock, jobs, pending, task, exited, held, written, reading>>

Stalls(p) == Becomes(p, {"up"}, "stalled")
GoesOn(p) == Becomes(p, {"stalled"}, "up")
Dies(p)   == Becomes(p, {"starting", "abandoned"} \cup Up, "dead")

(* The event loop learns that the process has ended. *)
ExitSeen(p) ==
  /\ server[p] \in Gone /\ p \notin exited
  /\ exited' = exited \cup {p}
  /\ UNCHANGED <<proc, lock, jobs, pending, task, server, held, written, reading>>

-----------------------------------------------------------------------------
TaskStep(c) ==
  \/ UseServer(c) \/ StartServer(c) \/ ServerReady(c) \/ StartFails(c) \/ ColdRun(c)
  \/ Answered(c) \/ TimesOut(c) \/ KillServer(c) \/ Reaped(c) \/ (c = Boot /\ NothingToDo)

Next ==
  \/ \E c \in Grades : Call(c) \/ GetSlot(c)
  \/ \E c \in Tasks : TaskStep(c)
  \/ \E p \in Servers : \/ ReadReply(p) \/ ReaderEnds(p) \/ ReaderFails(p) \/ ServerAnswers(p)
                        \/ Stalls(p) \/ GoesOn(p) \/ Dies(p) \/ ExitSeen(p)

(* Tasks run and timers fire; the lock and the semaphore serve in order of arrival, hence *)
(* strong fairness; a server that is up answers (ForkServer); exits and pipes are noticed. *)
Spec ==
  /\ Init /\ [][Next]_vars
  /\ \A c \in Grades : SF_vars(GetSlot(c))
  /\ \A c \in Tasks : SF_vars(TaskStep(c))
  /\ \A p \in Servers : WF_vars(ReadReply(p)) /\ WF_vars(ReaderEnds(p))
                        /\ WF_vars(ServerAnswers(p)) /\ WF_vars(ExitSeen(p))

-----------------------------------------------------------------------------
(* Properties                                                              *)

Places == {"idle", "queued", "locking", "starting", "waiting", "killing", "reaping", "cold"}

TypeOK ==
  /\ proc \in Servers \cup {None} /\ lock \in Tasks \cup {Free}
  /\ jobs \in 0..MaxJobs /\ pending \subseteq 1..jobs
  /\ task \in [Tasks -> [pc : Places, job : 0..jobs, server : Servers \cup {None},
                         fut : {Unset, Crashed} \cup 1..jobs]]
  /\ server \in [Servers -> {"none", "starting", "abandoned"} \cup Up \cup Gone]
  /\ exited \subseteq Servers /\ reading \subseteq Servers
  /\ held \in [Servers -> SUBSET (1..jobs)] /\ written \in [Servers -> SUBSET (1..jobs)]

(* Nobody waits in vain: a grade whose future is unset is registered, and the server it *)
(* was sent to is still being read, so that its answer or its end will be noticed.  And  *)
(* nothing else is registered.                                                           *)
EveryWaitIsWatched ==
  LET unresolved == {c \in Waiting : task[c].fut = Unset} IN
  /\ pending = {task[c].job : c \in unresolved}
  /\ \A c \in unresolved : task[c].server \in reading

(* An answer reaches the grade that sent the job, across restarts too. *)
OwnAnswer == \A c \in Waiting : task[c].fut \in {Unset, Crashed, task[c].job}

(* docs/ARCHITECTURE.md: "the API side caps jobs in flight at the same number (so queueing *)
(* never eats a job's timeout)", also after timeouts, crashes and restarts.                *)
NothingQueues == \A p \in Servers : server[p] \in Up => Cardinality(held[p]) <= Parallel

(* A job is reported crashed only when the server it was sent to is no longer read: at    *)
(* the end of that server or at a reply of it that cannot be read, never at another's,    *)
(* although the end of any reader fails every job that waits.                             *)
CrashHasACause == \A c \in Waiting : task[c].fut = Crashed => task[c].server \notin reading

(* There is one server.  At most one process is in use or being started, by the holder of *)
(* the lock; one that is up is in use and read.  Every other one alive has been abandoned: *)
(* no grade is handed to it and none waits for it.                                         *)
OneServer ==
  /\ \A p, q \in Servers : {server[p], server[q]} \subseteq Up \cup {"starting"} => p = q
  /\ \A p \in Servers : server[p] = "starting" =>
       \E c \in Tasks : lock = c /\ task[c].pc = "starting" /\ task[c].server = p
  /\ \A p \in Servers : server[p] \in Up => proc = p /\ p \in reading
  /\ \A p \in Servers : server[p] = "abandoned" =>
       /\ proc # p /\ p \notin reading
       /\ \A c \in Waiting : task[c].server = p => task[c].fut # Unset

(* A server is killed only on behalf of a job that was sent to it. *)
KillsOnlyItsOwn ==
  [][\A p \in Servers : server'[p] = "killed" /\ server[p] # "killed" =>
       \E c \in Grades : task[c].pc = "killing" /\ task[c].server = p]_vars

(* Every grade returns, whatever the servers do. *)
GradesReturn == \A c \in Grades : task[c].pc # "idle" ~> task[c].pc = "idle"
=============================================================================
