------------------------- MODULE WarmSandbox_proofs -------------------------
(***************************************************************************)
(* Proofs about WarmSandbox, for any number of grades, slots, servers and  *)
(* jobs.                                                                   *)
(***************************************************************************)
EXTENDS WarmSandbox, FiniteSetTheorems, TLAPS

USE GradesAssumption, BoundsAssumption

-----------------------------------------------------------------------------
(* The inductive invariant.                                                *)

Locking == {"starting", "reaping"}
Sent    == {"waiting", "killing"}
Started == Up \cup Gone \cup {"abandoned"}

(* The lock is held by the one task that starts a server or waits for the end of one. *)
LockInv ==
  /\ lock # Free => task[lock].pc \in Locking
  /\ \A c \in Tasks : task[c].pc \in Locking => lock = c
  /\ task[Boot].pc \in {"idle", "locking", "starting"}

(* A server in use has started, and is read until its end has been noticed; while one *)
(* is up, it is the only one that is read.  A new one starts only after that.          *)
ServerInv ==
  /\ proc # None => proc \in reading /\ server[proc] \in Up \cup {"dead"}
  /\ \A p, q \in reading : p = q
  /\ \A p \in reading : server[p] \in Up \cup Gone
  /\ \A p \in Servers : server[p] \in Up => proc = p /\ reading = {p}
  /\ \A p \in exited : server[p] \in Gone
  /\ \A p \in Servers : server[p] \in {"none", "starting"} => held[p] = {}
  /\ \A c \in Tasks : task[c].pc = "starting" =>
       /\ proc = None \/ proc \in exited
       /\ task[c].server \in Servers /\ server[task[c].server] \in {"starting", "dead"}

(* A server that is starting belongs to the task that holds the lock. *)
StarterInv ==
  \A p \in Servers : server[p] = "starting" =>
    \E c \in Tasks : lock = c /\ task[c].pc = "starting" /\ task[c].server = p

(* A job has one owner, is registered while its future waits, and reaches its server. *)
JobInv ==
  /\ \A c, d \in Grades : task[c].pc \in Sent /\ task[d].pc \in Sent /\ c # d => task[c].job # task[d].job
  /\ \A c \in Grades : task[c].pc \in Sent =>
       task[c].job \in 1..jobs /\ task[c].server \in Servers /\ server[task[c].server] \in Started
  /\ \A p \in Servers : server[p] \in Up => \A id \in held[p] :
       \E c \in Grades : task[c].pc \in Sent /\ task[c].job = id /\ task[c].server = p

(* A job that has been answered is held by no server. *)
HeldInv ==
  /\ \A p, q \in Servers : written[p] \cap held[q] = {} /\ (p # q => held[p] \cap held[q] = {})
  /\ \A c \in Grades : task[c].pc = "waiting" /\ task[c].fut \notin {Unset, Crashed} =>
       \A p \in Servers : task[c].job \notin held[p]

(* The slots and the bound on jobs. *)
SlotInv ==
  /\ IsFiniteSet(InSlot) /\ Cardinality(InSlot) <= Parallel
  /\ IsFiniteSet(Unsent) /\ jobs + Cardinality(Unsent) <= MaxJobs

IInv == /\ TypeOK /\ LockInv /\ ServerInv /\ StarterInv /\ JobInv /\ HeldInv /\ SlotInv
        /\ EveryWaitIsWatched /\ OwnAnswer /\ CrashHasACause

-----------------------------------------------------------------------------
Unresolved == {c \in Waiting : task[c].fut = Unset}

Task == [pc : Places, job : 0..jobs, server : Servers \cup {None}, fut : {Unset, Crashed} \cup 1..jobs]

(* What the other lemmas use of the types. *)
LEMMA Types ==
  ASSUME IInv
  PROVE  /\ jobs \in Nat /\ jobs <= MaxJobs /\ MaxJobs \in Nat /\ None \notin Servers /\ Free \notin Tasks
         /\ task \in [Tasks -> Task] /\ pending = {task[c].job : c \in Unresolved}
         /\ \A c \in Unresolved : task[c].server \in reading
<1>1. jobs \in 0..MaxJobs /\ task \in [Tasks -> Task]
  BY DEF IInv, TypeOK, Task
<1>2. pending = {task[c].job : c \in Unresolved} /\ \A c \in Unresolved : task[c].server \in reading
  BY DEF IInv, EveryWaitIsWatched, Unresolved
<1> QED
  BY <1>1, <1>2 DEF Servers, None, Tasks, Free

LEMMA InitInv == Init => IInv
<1> SUFFICES ASSUME Init PROVE IInv
  OBVIOUS
<1> USE DEF Init, Idle, Servers, None, Free, Unset
<1>1. \A c \in Tasks : /\ task[c].pc \in {"idle", "locking"} /\ (c \in Grades => task[c].pc = "idle")
                       /\ task[c] \in [pc : Places, job : 0..jobs, server : Servers \cup {None},
                                       fut : {Unset, Crashed} \cup 1..jobs]
  BY DEF Tasks, Places
<1>2. TypeOK
  <2>1. /\ proc \in Servers \cup {None} /\ lock \in Tasks \cup {Free} /\ jobs \in 0..MaxJobs
        /\ pending \subseteq 1..jobs /\ exited \subseteq Servers /\ reading \subseteq Servers
    OBVIOUS
  <2>2. task \in [Tasks -> [pc : Places, job : 0..jobs, server : Servers \cup {None},
                           fut : {Unset, Crashed} \cup 1..jobs]]
    BY <1>1
  <2>3. /\ server \in [Servers -> {"none", "starting", "abandoned"} \cup Up \cup Gone]
        /\ held \in [Servers -> SUBSET (1..jobs)] /\ written \in [Servers -> SUBSET (1..jobs)]
    OBVIOUS
  <2> QED
    BY <2>1, <2>2, <2>3 DEF TypeOK
<1>3. LockInv
  BY <1>1 DEF LockInv, Locking, Tasks
<1>4. ServerInv /\ StarterInv
  BY <1>1 DEF ServerInv, StarterInv, Up, Gone
<1>5. JobInv /\ HeldInv /\ EveryWaitIsWatched /\ OwnAnswer /\ CrashHasACause
  BY <1>1 DEF JobInv, HeldInv, EveryWaitIsWatched, OwnAnswer, CrashHasACause, Sent, Waiting, Tasks, Up
<1>6. SlotInv
  <2>1. InSlot = {} /\ Unsent = {}
    BY <1>1 DEF InSlot, Unsent, Tasks
  <2> QED
    BY <2>1, FS_EmptySet DEF SlotInv
<1> QED
  BY <1>2, <1>3, <1>4, <1>5, <1>6 DEF IInv

-----------------------------------------------------------------------------
(* Slots                                                                   *)

OutOfSlot == {"idle", "queued", "cold"}
NotSent   == {"queued", "locking", "starting"}

(* A task that takes no slot and no job leaves room for as many as before. *)
LEMMA SlotsKept ==
  ASSUME IInv, NEW c \in Tasks, NEW q, task' = [task EXCEPT ![c] = q], jobs' = jobs,
         c \in Grades => /\ q.pc \in OutOfSlot \/ task[c].pc \notin OutOfSlot
                         /\ q.pc \notin NotSent \/ task[c].pc \in NotSent
  PROVE  SlotInv'
<1>1. \A d \in Tasks : task'[d] = IF d = c THEN q ELSE task[d]
  BY Types
<1>2. InSlot' \in SUBSET InSlot /\ Unsent' \in SUBSET Unsent
  BY <1>1 DEF InSlot, Unsent, OutOfSlot, NotSent, Tasks
<1>3. IsFiniteSet(InSlot) /\ IsFiniteSet(Unsent)
  BY DEF IInv, SlotInv
<1>4. /\ IsFiniteSet(InSlot') /\ Cardinality(InSlot') <= Cardinality(InSlot)
      /\ IsFiniteSet(Unsent') /\ Cardinality(Unsent') <= Cardinality(Unsent)
  BY <1>2, <1>3, FS_Subset
<1>5. /\ Cardinality(InSlot) \in Nat /\ Cardinality(Unsent) \in Nat
      /\ Cardinality(InSlot') \in Nat /\ Cardinality(Unsent') \in Nat
  BY <1>3, <1>4, FS_CardinalityType
<1> QED
  BY <1>4, <1>5, Types DEF IInv, SlotInv

(* A grade that asks for a slot is one more whose job is to be sent. *)
LEMMA CallSlots ==
  ASSUME IInv, NEW c \in Grades, Call(c)
  PROVE  SlotInv'
<1>1. \A d \in Tasks : task'[d].pc = IF d = c THEN "queued" ELSE task[d].pc
  BY Types DEF Call, Goto, Task
<1>2. task[c].pc = "idle" /\ jobs' = jobs /\ jobs + Cardinality(Unsent) < MaxJobs
  BY DEF Call
<1>3. InSlot' = InSlot /\ Unsent' = Unsent \cup {c} /\ c \notin Unsent
  BY <1>1, <1>2 DEF InSlot, Unsent, Tasks
<1>4. IsFiniteSet(Unsent') /\ Cardinality(Unsent') = Cardinality(Unsent) + 1 /\ Cardinality(Unsent) \in Nat
  BY <1>3, FS_AddElement, FS_CardinalityType DEF IInv, SlotInv
<1> QED
  BY <1>2, <1>3, <1>4, Types DEF IInv, SlotInv

LEMMA GetSlotSlots ==
  ASSUME IInv, NEW c \in Grades, GetSlot(c)
  PROVE  SlotInv'
<1>1. \A d \in Tasks : task'[d].pc = IF d = c THEN "locking" ELSE task[d].pc
  BY Types DEF GetSlot, Goto, Task
<1>2. task[c].pc = "queued" /\ jobs' = jobs /\ Cardinality(InSlot) < Parallel
  BY DEF GetSlot
<1>3. Unsent' = Unsent /\ InSlot' = InSlot \cup {c} /\ c \notin InSlot
  BY <1>1, <1>2 DEF InSlot, Unsent, Tasks
<1>4. IsFiniteSet(InSlot') /\ Cardinality(InSlot') = Cardinality(InSlot) + 1 /\ Cardinality(InSlot) \in Nat
  BY <1>3, FS_AddElement, FS_CardinalityType DEF IInv, SlotInv
<1> QED
  BY <1>2, <1>3, <1>4, Types DEF IInv, SlotInv

(* A job that has got its number is no longer to be sent. *)
LEMMA SentSlots ==
  ASSUME IInv, NEW c \in Grades, NEW q, task' = [task EXCEPT ![c] = q], jobs' = jobs + 1,
         q.pc \notin NotSent, task[c].pc \in {"locking", "starting"}
  PROVE  SlotInv' /\ jobs' <= MaxJobs
<1>1. \A d \in Tasks : task'[d] = IF d = c THEN q ELSE task[d]
  BY Types
<1>2. InSlot' \in SUBSET InSlot /\ Unsent' = Unsent \ {c} /\ c \in Unsent
  BY <1>1 DEF InSlot, Unsent, NotSent, Tasks
<1>3. IsFiniteSet(InSlot) /\ IsFiniteSet(Unsent)
  BY DEF IInv, SlotInv
<1>4. /\ IsFiniteSet(InSlot') /\ Cardinality(InSlot') <= Cardinality(InSlot)
      /\ IsFiniteSet(Unsent') /\ Cardinality(Unsent') = Cardinality(Unsent) - 1
  BY <1>2, <1>3, FS_Subset, FS_RemoveElement
<1>5. /\ Cardinality(InSlot) \in Nat /\ Cardinality(Unsent) \in Nat
      /\ Cardinality(InSlot') \in Nat /\ Cardinality(Unsent') \in Nat
  BY <1>3, <1>4, FS_CardinalityType
<1> QED
  BY <1>4, <1>5, Types DEF IInv, SlotInv

-----------------------------------------------------------------------------
(* A task that moves on without touching a server: it may let go of the lock, and of a  *)
(* job that it no longer waits for, when no server that is up still has that job.       *)
LEMMA Move ==
  ASSUME IInv, NEW c \in Tasks, NEW q \in Task, task' = [task EXCEPT ![c] = q], SlotInv',
         UNCHANGED <<proc, jobs, server, exited, held, written, reading>>, task[c].pc # "starting",
         q.pc \notin Locking \cup {"waiting"},
         q.pc = "killing" => /\ task[c].pc = "waiting" /\ c \in Grades
                             /\ q.job = task[c].job /\ q.server = task[c].server,
         c = Boot => q.pc = "idle",
         lock' = IF lock = c THEN Free ELSE lock,
         pending' = IF c \in Unresolved THEN pending \ {task[c].job} ELSE pending,
         c \in Grades /\ task[c].pc \in Sent /\ q.pc \notin Sent =>
           \A p \in Servers : server[p] \in Up => task[c].server # p \/ task[c].job \notin held[p]
  PROVE  IInv'
<1>1. \A d \in Tasks : task'[d] = IF d = c THEN q ELSE task[d]
  BY Types
<1>2. task' \in [Tasks -> Task]' /\ Task' = Task
  BY Types DEF Task, Servers
<1>3. Unresolved' = Unresolved \ {c} /\ Waiting' = Waiting \ {c}
  BY <1>1 DEF Unresolved, Waiting, Tasks
<1>4. \A d \in Grades : d # c /\ d \in Unresolved /\ c \in Unresolved => task[d].job # task[c].job
  BY DEF IInv, JobInv, Unresolved, Waiting, Sent
<1>5. pending' = {task'[d].job : d \in Unresolved'}
  BY <1>1, <1>3, <1>4, Types DEF Unresolved, Waiting, Tasks
<1>6. TypeOK'
  BY <1>2, Types DEF IInv, TypeOK, Task, Tasks
<1>7. LockInv'
  BY <1>1 DEF IInv, LockInv, Locking, Tasks
<1>8. ServerInv' /\ StarterInv'
  BY <1>1 DEF IInv, ServerInv, StarterInv, Locking, Servers, Tasks
<1>9. JobInv'
  BY <1>1 DEF IInv, JobInv, Sent, Tasks, Servers
<1>10. HeldInv' /\ OwnAnswer' /\ CrashHasACause'
  BY <1>1 DEF IInv, HeldInv, OwnAnswer, CrashHasACause, Waiting, Tasks, Servers
<1>11. EveryWaitIsWatched'
  BY <1>1, <1>3, <1>5, Types DEF EveryWaitIsWatched, Unresolved, Waiting, Tasks
<1> QED
  BY <1>6, <1>7, <1>8, <1>9, <1>10, <1>11 DEF IInv

-----------------------------------------------------------------------------
(* One lemma for each action of a task.                                    *)

LEMMA CallKeeps == ASSUME IInv, NEW c \in Grades, Call(c) PROVE IInv'
<1> DEFINE q == [task[c] EXCEPT !.pc = "queued"]
<1>1. c \in Tasks /\ task[c] \in Task /\ task[c].pc = "idle" /\ lock # c /\ c # Boot
  BY Types DEF Call, Tasks, IInv, LockInv, Locking
<1>2. q \in Task /\ q.pc = "queued"
  BY <1>1 DEF Task, Places
<1>3. SlotInv'
  BY CallSlots
<1>4. c \notin Unresolved /\ task' = [task EXCEPT ![c] = q]
  BY <1>1 DEF Call, Goto, Unresolved, Waiting
<1> QED
  BY <1>1, <1>2, <1>3, <1>4, Move DEF Call, Sent, Locking

LEMMA GetSlotKeeps == ASSUME IInv, NEW c \in Grades, GetSlot(c) PROVE IInv'
<1> DEFINE q == [task[c] EXCEPT !.pc = "locking"]
<1>1. c \in Tasks /\ task[c] \in Task /\ task[c].pc = "queued" /\ lock # c /\ c # Boot
  BY Types DEF GetSlot, Tasks, IInv, LockInv, Locking
<1>2. q \in Task /\ q.pc = "locking"
  BY <1>1 DEF Task, Places
<1>3. SlotInv'
  BY GetSlotSlots
<1>4. c \notin Unresolved /\ task' = [task EXCEPT ![c] = q]
  BY <1>1 DEF GetSlot, Goto, Unresolved, Waiting
<1> QED
  BY <1>1, <1>2, <1>3, <1>4, Move DEF GetSlot, Sent, Locking

(* A task returns, when no server that is up has its job any more. *)
LEMMA ReturnKeeps ==
  ASSUME IInv, NEW c \in Tasks, Return(c), task[c].pc # "starting", lock' = IF lock = c THEN Free ELSE lock,
         UNCHANGED <<proc, jobs, pending, server, exited, held, written, reading>>,
         c \notin Unresolved,
         c \in Grades /\ task[c].pc \in Sent =>
           \A p \in Servers : server[p] \in Up => task[c].server # p \/ task[c].job \notin held[p]
  PROVE  IInv'
<1>0. Idle \in Task
  BY Types DEF Idle, Task, Places, None, Unset
<1>1. Idle.pc = "idle"
  BY DEF Idle
<1>2. task' = [task EXCEPT ![c] = Idle]
  BY DEF Return
<1>3. SlotInv'
  BY <1>1, <1>2, SlotsKept DEF OutOfSlot, NotSent
<1> QED
  BY <1>0, <1>1, <1>2, <1>3, Move DEF Sent, Locking

LEMMA NothingToDoKeeps == ASSUME IInv, NothingToDo PROVE IInv'
<1>1. Boot \in Tasks /\ Boot \notin Unresolved /\ lock # Boot
  BY DEF Tasks, Unresolved, Waiting, NothingToDo, Free
<1> QED
  BY <1>1, ReturnKeeps DEF NothingToDo

LEMMA ColdRunKeeps == ASSUME IInv, NEW c \in Tasks, ColdRun(c) PROVE IInv'
<1>1. c \notin Unresolved /\ lock # c /\ task[c].pc \notin Sent
  BY Types DEF ColdRun, Unresolved, Waiting, IInv, LockInv, Locking, Sent
<1> QED
  BY <1>1, ReturnKeeps DEF ColdRun

LEMMA AnsweredKeeps == ASSUME IInv, NEW c \in Tasks, Answered(c) PROVE IInv'
<1>1. c \notin Unresolved /\ lock # c
  BY Types DEF Answered, Unresolved, IInv, LockInv, Locking
<1>2. ASSUME c \in Grades, NEW p \in Servers, server[p] \in Up
      PROVE  task[c].server # p \/ task[c].job \notin held[p]
  <2>1. CASE task[c].fut = Crashed
    <3>1. task[c].server \notin reading
      BY <1>2, <2>1 DEF Answered, IInv, CrashHasACause, Waiting
    <3> QED
      BY <1>2, <3>1 DEF IInv, ServerInv
  <2>2. CASE task[c].fut # Crashed
    BY <1>2, <2>2 DEF Answered, IInv, HeldInv
  <2> QED
    BY <2>1, <2>2
<1> QED
  BY <1>1, <1>2, ReturnKeeps DEF Answered

LEMMA TimesOutKeeps == ASSUME IInv, NEW c \in Tasks, TimesOut(c) PROVE IInv'
<1> DEFINE q == [task[c] EXCEPT !.pc = "killing"]
<1>1. task[c] \in Task /\ task[c].pc = "waiting" /\ lock # c /\ c # Boot /\ c \in Grades
  BY Types DEF TimesOut, Tasks, IInv, LockInv, Locking
<1>2. q \in Task /\ q.pc = "killing" /\ q.job = task[c].job /\ q.server = task[c].server
  BY <1>1 DEF Task, Places
<1>3. task' = [task EXCEPT ![c] = q]
  BY DEF TimesOut, Goto
<1>4. SlotInv'
  BY <1>1, <1>2, <1>3, SlotsKept DEF OutOfSlot, NotSent, TimesOut
<1>5. pending' = IF c \in Unresolved THEN pending \ {task[c].job} ELSE pending
  <2>1. CASE c \in Unresolved
    BY <2>1 DEF TimesOut
  <2>2. CASE c \notin Unresolved
    <3>1. task[c].job \notin pending
      BY <1>1, <2>2, Types DEF IInv, JobInv, Sent, Unresolved, Waiting
    <3> QED
      BY <2>2, <3>1 DEF TimesOut
  <2> QED
    BY <2>1, <2>2
<1> QED
  BY <1>1, <1>2, <1>3, <1>4, <1>5, Move DEF TimesOut, Sent, Locking

LEMMA ReapedKeeps == ASSUME IInv, NEW c \in Tasks, Reaped(c) PROVE IInv'
<1>1. c \notin Unresolved /\ lock = c /\ task[c].pc \notin Sent
  BY DEF Reaped, Unresolved, Waiting, IInv, LockInv, Locking, Sent
<1> QED
  BY <1>1, ReturnKeeps DEF Reaped

-----------------------------------------------------------------------------
(* Sending a job                                                           *)

LEMMA ServerTypes ==
  ASSUME IInv
  PROVE  /\ proc \in Servers \cup {None} /\ exited \subseteq Servers /\ reading \subseteq Servers
         /\ server \in [Servers -> {"none", "starting", "abandoned"} \cup Up \cup Gone]
         /\ held \in [Servers -> SUBSET (1..jobs)] /\ written \in [Servers -> SUBSET (1..jobs)]
         /\ pending \subseteq 1..jobs /\ lock \in Tasks \cup {Free}
  BY DEF IInv, TypeOK

(* A new number fits the types, whoever it goes to. *)
LEMMA NumberedTask ==
  ASSUME IInv, NEW c \in Grades, NEW q, q \in Task', task' = [task EXCEPT ![c] = q], jobs' = jobs + 1
  PROVE  task' \in [Tasks -> Task'] /\ \A d \in Tasks : task'[d] = IF d = c THEN q ELSE task[d]
<1>1. \A d \in Tasks : task'[d] = IF d = c THEN q ELSE task[d]
  BY Types DEF Tasks
<1>2. 1..jobs \subseteq 1..jobs' /\ 0..jobs \subseteq 0..jobs'
  BY Types
<1>3. \A d \in Tasks : task[d] \in Task'
  BY <1>2, Types DEF Task, Servers
<1> QED
  BY <1>1, <1>3, Types DEF Tasks

LEMMA NewNumber ==
  ASSUME IInv, task' \in [Tasks -> Task'], jobs' = jobs + 1, jobs' <= MaxJobs,
         exited' = exited, written' = written,
         pending' \subseteq pending \cup {jobs'}, lock' \in Tasks \cup {Free},
         proc' \in Servers \cup {None}, reading' \subseteq Servers,
         server' \in [Servers -> {"none", "starting", "abandoned"} \cup Up \cup Gone],
         held' \in [Servers -> SUBSET (1..jobs')]
  PROVE  TypeOK'
<1>1. 1..jobs \subseteq 1..jobs' /\ jobs' \in 1..jobs' /\ jobs' \in 0..MaxJobs
  BY Types
<1>2. written' \in [Servers -> SUBSET (1..jobs')] /\ pending' \subseteq 1..jobs' /\ exited' \subseteq Servers
  BY <1>1, ServerTypes
<1> QED
  BY <1>1, <1>2 DEF TypeOK, Task, Servers

LEMMA Sends ==
  ASSUME IInv, NEW c \in Grades, NEW p \in Servers, NEW q,
         q = [pc |-> "waiting", job |-> jobs + 1, server |-> p, fut |-> Unset],
         task[c].pc \in {"locking", "starting"}, lock \in {Free, c}, lock' = Free,
         task' = [task EXCEPT ![c] = q], jobs' = jobs + 1, pending' = pending \cup {jobs + 1},
         held' \in {held, [held EXCEPT ![p] = @ \cup {jobs + 1}]}, UNCHANGED <<exited, written>>,
         \/ server' = server
         \/ server[p] = "starting" /\ server' = [server EXCEPT ![p] = "up"],
         \A r \in Servers : server'[r] # "starting",
         server'[p] \in Up \cup Gone, p \in reading \/ server[p] = "starting", reading' = reading \cup {p},
         proc' \in Servers \cup {None}, reading' \in SUBSET Servers, ServerInv'
  PROVE  IInv'
<1>1. SlotInv' /\ jobs' <= MaxJobs
  BY SentSlots DEF NotSent, Tasks
<1>2. q \in Task'
  BY Types DEF Task, Places, Servers
<1>3. server' \in [Servers -> {"none", "starting", "abandoned"} \cup Up \cup Gone]
  BY ServerTypes DEF Up
<1>4. task' \in [Tasks -> Task'] /\ \A d \in Tasks : task'[d] = IF d = c THEN q ELSE task[d]
  BY <1>2, NumberedTask
<1>12. TypeOK'
  <2>1. pending' \subseteq pending \cup {jobs'} /\ reading' \subseteq Servers
    OBVIOUS
  <2>2. held' \in [Servers -> SUBSET (1..jobs')]
    <3>1. 1..jobs \subseteq 1..jobs' /\ jobs + 1 \in 1..jobs'
      BY Types
    <3> QED
      BY <3>1, ServerTypes
  <2> QED
    BY <1>1, <1>3, <1>4, <2>1, <2>2, NewNumber
<1>5. jobs + 1 \notin 1..jobs /\ \A d \in Grades : d # c /\ task[d].pc \in Sent => task[d].job # jobs + 1
  BY Types DEF IInv, JobInv
<1>6. LockInv'
  BY <1>4, Types DEF IInv, LockInv, Locking, Tasks
<1>7. JobInv'
  <2>1. \A d, e \in Grades : task'[d].pc \in Sent /\ task'[e].pc \in Sent /\ d # e => task'[d].job # task'[e].job
    BY <1>4, <1>5 DEF IInv, JobInv, Tasks
  <2>2. \A d \in Grades : task'[d].pc \in Sent =>
          task'[d].job \in 1..jobs' /\ task'[d].server \in Servers /\ server'[task'[d].server] \in Started
    BY <1>4, Types, ServerTypes DEF IInv, JobInv, Tasks, Started, Up, Gone
  <2>3. ASSUME NEW r \in Servers, server'[r] \in Up, NEW id \in held'[r]
        PROVE  \E d \in Grades : task'[d].pc \in Sent /\ task'[d].job = id /\ task'[d].server = r
    <3>1. CASE id \in held[r]
      <4>1. server[r] \in Up
        BY <2>3, <3>1, ServerTypes DEF IInv, ServerInv, Up
      <4>2. PICK d \in Grades : task[d].pc \in Sent /\ task[d].job = id /\ task[d].server = r
        BY <3>1, <4>1 DEF IInv, JobInv
      <4> QED
        BY <1>4, <4>2 DEF Sent, Tasks
    <3>2. CASE id \notin held[r]
      <4>1. id = jobs + 1 /\ r = p
        BY <2>3, <3>2, ServerTypes
      <4> QED
        BY <1>4, <4>1 DEF Sent, Tasks
    <3> QED
      BY <3>1, <3>2
  <2> QED
    BY <2>1, <2>2, <2>3 DEF JobInv, Servers
<1>8. HeldInv'
  <2>1. \A r, s \in Servers : written'[r] \cap held'[s] = {} /\ (r # s => held'[r] \cap held'[s] = {})
    BY <1>5, ServerTypes DEF IInv, HeldInv
  <2>2. \A d \in Grades : task'[d].pc = "waiting" /\ task'[d].fut \notin {Unset, Crashed} =>
          \A r \in Servers : task'[d].job \notin held'[r]
    BY <1>4, <1>5, ServerTypes DEF IInv, HeldInv, Sent, Tasks
  <2> QED
    BY <2>1, <2>2 DEF HeldInv, Servers
<1>9. EveryWaitIsWatched'
  <2>1. Unresolved' = Unresolved \cup {c} /\ c \notin Unresolved
    BY <1>4 DEF Unresolved, Waiting, Tasks
  <2>2. pending' = {task'[d].job : d \in Unresolved'}
    BY <1>4, <2>1, Types DEF Unresolved, Waiting, Tasks
  <2>3. \A d \in Unresolved' : task'[d].server \in reading'
    BY <1>4, <2>1, Types DEF Unresolved, Waiting, Tasks
  <2> QED
    BY <2>2, <2>3 DEF EveryWaitIsWatched, Unresolved
<1>10. OwnAnswer'
  BY <1>4 DEF IInv, OwnAnswer, Waiting, Tasks
<1>11. CrashHasACause'
  <2>1. \A d \in Grades : task[d].pc = "waiting" => server[task[d].server] # "starting"
    BY DEF IInv, JobInv, Sent, Started, Up, Gone
  <2> QED
    BY <1>4, <2>1 DEF IInv, CrashHasACause, Waiting, Tasks, Unset, Crashed
<1>13. StarterInv'
  BY DEF StarterInv, Servers
<1> QED
  BY <1>1, <1>12, <1>13, <1>6, <1>7, <1>8, <1>9, <1>10, <1>11 DEF IInv

(* The write fails: the job is taken back, the server forgotten and waited for. *)
LEMMA SendFails ==
  ASSUME IInv, NEW c \in Grades, proc # None, server[proc] \in Gone, lock = Free, lock' = c,
         task[c].pc = "locking", task' = [task EXCEPT ![c] = [Idle EXCEPT !.pc = "reaping", !.server = proc]],
         jobs' = jobs + 1, proc' = None,
         UNCHANGED <<pending, held, server, exited, written, reading>>
  PROVE  IInv'
<1> DEFINE q == [Idle EXCEPT !.pc = "reaping", !.server = proc]
<1>1. q.pc = "reaping" /\ proc \in Servers
  BY ServerTypes DEF Idle
<1>2. SlotInv' /\ jobs' <= MaxJobs
  BY <1>1, SentSlots DEF NotSent, Tasks
<1>3. q \in Task'
  <2>1. 0 \in 0..jobs'
    BY Types
  <2>2. Idle \in Task'
    BY <2>1 DEF Idle, Task, Places, None, Unset
  <2> QED
    BY <1>1, <2>2 DEF Task, Places, Servers
<1>4. task' \in [Tasks -> Task'] /\ \A d \in Tasks : task'[d] = IF d = c THEN q ELSE task[d]
  BY <1>3, NumberedTask
<1>11. TypeOK'
  <2>1. 1..jobs \subseteq 1..jobs'
    BY Types
  <2>2. held' \in [Servers -> SUBSET (1..jobs')] /\ pending' \subseteq pending \cup {jobs'}
    BY <2>1, ServerTypes
  <2>3. lock' \in Tasks \cup {Free} /\ proc' \in Servers \cup {None}
    BY DEF Tasks
  <2> QED
    BY <1>2, <1>4, <2>2, <2>3, ServerTypes, NewNumber
<1>5. c \notin Unresolved /\ c \in Tasks /\ c # Boot
  BY DEF Unresolved, Waiting, Tasks
<1>6. LockInv'
  BY <1>1, <1>4, <1>5, Types DEF IInv, LockInv, Locking
<1>7. ServerInv'
  BY <1>1, <1>4, ServerTypes DEF IInv, ServerInv, Up, Gone, Servers
<1>12. StarterInv'
  BY Types DEF IInv, StarterInv, Servers
<1>8. JobInv'
  BY <1>1, <1>4, <1>5, Types DEF IInv, JobInv, Sent, Tasks, Servers
<1>9. HeldInv' /\ OwnAnswer' /\ CrashHasACause'
  BY <1>1, <1>4, <1>5 DEF IInv, HeldInv, OwnAnswer, CrashHasACause, Waiting, Tasks, Servers
<1>10. EveryWaitIsWatched'
  BY <1>1, <1>4, <1>5, Types DEF EveryWaitIsWatched, Unresolved, Waiting, Tasks
<1> QED
  BY <1>2, <1>11, <1>12, <1>6, <1>7, <1>8, <1>9, <1>10 DEF IInv

LEMMA UseServerKeeps == ASSUME IInv, NEW c \in Tasks, UseServer(c) PROVE IInv'
<1>1. /\ c \in Grades /\ task[c].pc = "locking" /\ lock = Free /\ proc # None
      /\ SendJob(c, proc) /\ UNCHANGED <<server, exited, written, reading>>
  BY DEF UseServer, NeedsServer
<1>2. proc \in Servers /\ proc \in reading /\ server[proc] \in Up \cup {"dead"}
  BY <1>1, ServerTypes DEF IInv, ServerInv
<1>3. CASE lock' = c
  BY <1>1, <1>3, SendFails, Types DEF SendJob, Tasks
<1>4. CASE lock' # c
  <2> DEFINE q == [pc |-> "waiting", job |-> jobs + 1, server |-> proc, fut |-> Unset]
  <2>1. /\ task' = [task EXCEPT ![c] = q] /\ pending' = pending \cup {jobs + 1} /\ proc' = proc
        /\ lock' = Free /\ jobs' = jobs + 1 /\ held' \in {held, [held EXCEPT ![proc] = @ \cup {jobs + 1}]}
    BY <1>1, <1>4 DEF SendJob, NextJob
  <2>2. \A d \in Tasks : task'[d].pc = "starting" => task[d].pc = "starting" /\ task'[d].server = task[d].server
    BY <2>1, Types
  <2>3. \A r \in Servers : server[r] \in {"none", "starting"} => held'[r] = {}
    BY <1>2, <2>1, ServerTypes DEF IInv, ServerInv, Up
  <2>4. ServerInv'
    BY <1>1, <2>1, <2>2, <2>3 DEF IInv, ServerInv, Servers
  <2>5. reading' \in SUBSET Servers /\ reading' = reading \cup {proc} /\ proc' \in Servers \cup {None}
        /\ server' = server /\ server'[proc] \in Up \cup Gone /\ UNCHANGED <<exited, written>>
    BY <1>1, <1>2, <2>1, ServerTypes DEF Gone
  <2>6. \A r \in Servers : server'[r] # "starting"
    BY <1>1, <2>5, Types DEF IInv, StarterInv
  <2> QED
    BY <1>1, <1>2, <2>1, <2>4, <2>5, <2>6, Sends
<1> QED
  BY <1>3, <1>4

-----------------------------------------------------------------------------
(* Starting a server                                                       *)

LEMMA StartServerKeeps == ASSUME IInv, NEW c \in Tasks, StartServer(c) PROVE IInv'
<1>1. /\ task[c] \in Task /\ task[c].pc = "locking" /\ lock = Free /\ lock # c
      /\ proc = None \/ proc \in exited
      /\ UNCHANGED <<proc, jobs, pending, exited, held, written, reading>>
  BY Types DEF StartServer, NeedsServer
<1>2. c \notin Unresolved
  BY <1>1 DEF Unresolved, Waiting
<1>3. CASE UNCHANGED server
  <2>1. CASE Return(c) /\ UNCHANGED lock
    BY <1>1, <1>2, <1>3, <2>1, ReturnKeeps DEF Sent
  <2>2. CASE c # Boot /\ Goto(c, "cold") /\ UNCHANGED lock
    <3> DEFINE q == [task[c] EXCEPT !.pc = "cold"]
    <3>1. q \in Task /\ q.pc = "cold" /\ task' = [task EXCEPT ![c] = q]
      BY <1>1, <2>2 DEF Task, Places, Goto
    <3>2. SlotInv'
      BY <1>1, <3>1, SlotsKept DEF OutOfSlot, NotSent
    <3> QED
      BY <1>1, <1>2, <1>3, <2>2, <3>1, <3>2, Move DEF Sent, Locking
  <2> QED
    BY <1>3, <2>1, <2>2, ServerTypes DEF StartServer, Goto, Return
<1>4. CASE server' # server
  <2>1. PICK p \in Servers :
          /\ server[p] = "none" /\ server' = [server EXCEPT ![p] = "starting"] /\ lock' = c
          /\ task' = [task EXCEPT ![c].pc = "starting", ![c].server = p]
    BY <1>4 DEF StartServer
  <2> DEFINE q == [task[c] EXCEPT !.pc = "starting", !.server = p]
  <2>2. q \in Task /\ q.pc = "starting" /\ q.server = p
    BY <1>1 DEF Task, Places
  <2>3. task' = [task EXCEPT ![c] = q] /\ \A d \in Tasks : task'[d] = IF d = c THEN q ELSE task[d]
    BY <1>1, <2>1, Types
  <2> HIDE DEF q
  <2>4. SlotInv'
    BY <1>1, <2>2, <2>3, SlotsKept DEF OutOfSlot, NotSent
  <2>5. \A r \in Servers : server'[r] = IF r = p THEN "starting" ELSE server[r]
    BY <2>1, ServerTypes
  <2>6. TypeOK'
    <3>1. task' \in [Tasks -> Task]
      BY <2>2, <2>3, Types
    <3>2. server' \in [Servers -> {"none", "starting", "abandoned"} \cup Up \cup Gone] /\ lock' \in Tasks \cup {Free}
      BY <2>1, ServerTypes
    <3> QED
      BY <1>1, <3>1, <3>2 DEF IInv, TypeOK, Task, Servers
  <2>7. LockInv'
    BY <1>1, <2>1, <2>2, <2>3, Types DEF IInv, LockInv, Locking, Tasks
  <2>8. ServerInv'
    <3>1. \A r \in Servers : r # p => server'[r] = server[r]
      BY <2>5
    <3>2. p \notin reading /\ p \notin exited /\ proc # p /\ held[p] = {} /\ server'[p] \notin Up
      <4>1. p \notin reading /\ p \notin exited
        BY <2>1 DEF IInv, ServerInv, Up, Gone
      <4>2. proc # p
        BY <4>1, Types DEF IInv, ServerInv
      <4>3. held[p] = {}
        BY <2>1 DEF IInv, ServerInv
      <4> QED
        BY <4>1, <4>2, <4>3, <2>5 DEF Up
    <3>3. \A d \in Tasks : task'[d].pc = "starting" => d = c
      BY <1>1, <2>3, Types DEF IInv, LockInv, Locking
    <3>4. task'[c].server = p /\ server'[p] = "starting"
      BY <2>2, <2>3, <2>5
    <3>5. \A r \in reading : r # p /\ server'[r] \in Up \cup Gone
      BY <3>1, <3>2, ServerTypes DEF IInv, ServerInv
    <3>6. proc # None => proc \in reading /\ server'[proc] \in Up \cup {"dead"}
      BY <3>1, <3>2, ServerTypes DEF IInv, ServerInv
    <3>7. \A r \in exited : server'[r] \in Gone
      BY <3>1, <3>2, ServerTypes DEF IInv, ServerInv
    <3> QED
      BY <1>1, <3>1, <3>2, <3>3, <3>4, <3>5, <3>6, <3>7 DEF IInv, ServerInv, Servers
  <2>13. \A d \in Grades : task'[d].pc \in Sent \/ task[d].pc \in Sent => task'[d] = task[d]
    BY <1>1, <2>2, <2>3 DEF Sent, Tasks
  <2>14. \A r \in Servers : server'[r] \in Started \/ server[r] \in Started => server'[r] = server[r]
    BY <2>1, <2>5 DEF Started, Up, Gone
  <2>9. JobInv'
    BY <1>1, <2>13, <2>14 DEF IInv, JobInv, Servers, Started
  <2>10. HeldInv' /\ OwnAnswer'
    BY <1>1, <2>2, <2>3 DEF IInv, HeldInv, OwnAnswer, Waiting, Tasks, Servers
  <2>11. CrashHasACause'
    BY <1>1, <2>13 DEF IInv, CrashHasACause, Sent, Waiting
  <2>15. StarterInv'
    BY <1>1, <2>1, <2>2, <2>3, <2>5, Types DEF IInv, StarterInv, Servers, Tasks
  <2>12. EveryWaitIsWatched'
    BY <1>1, <2>2, <2>3 DEF IInv, EveryWaitIsWatched, Waiting, Tasks
  <2> QED
    BY <2>4, <2>6, <2>7, <2>8, <2>9, <2>10, <2>11, <2>12, <2>15 DEF IInv
<1> QED
  BY <1>3, <1>4

(* The ready line: the readers of servers that ended are done, so the new one is alone. *)
LEMMA ServerReadyKeeps == ASSUME IInv, NEW c \in Tasks, ServerReady(c) PROVE IInv'
<1> DEFINE p == task[c].server
<1>1. /\ task[c].pc = "starting" /\ server[p] = "starting" /\ \A r \in reading : server[r] \notin Gone
      /\ server' = [server EXCEPT ![p] = "up"] /\ reading' = reading \cup {p}
      /\ UNCHANGED <<exited, written>>
  BY DEF ServerReady
<1>2. /\ p \in Servers /\ lock = c /\ (proc = None \/ proc \in exited) /\ held[p] = {}
      /\ \A d \in Tasks : task[d].pc \in Locking => d = c
  BY <1>1 DEF IInv, ServerInv, LockInv, Locking
<1>3. reading = {} /\ \A r \in Servers : server[r] \notin Up
  <2>1. ASSUME NEW r \in Servers, server[r] \in Up PROVE FALSE
    BY <1>2, <2>1 DEF IInv, ServerInv, Up, Gone, Servers, None
  <2>2. \A r \in reading : server[r] \in Up
    BY <1>1 DEF IInv, ServerInv
  <2> QED
    BY <2>1, <2>2, ServerTypes
<1>4. \A r \in Servers : server'[r] = IF r = p THEN "up" ELSE server[r]
  BY <1>1, ServerTypes
<1>8. \A r \in Servers : server'[r] # "starting"
  BY <1>2, <1>4 DEF IInv, StarterInv
<1> HIDE DEF p
<1>5. ASSUME proc' = p, \A d \in Tasks : task'[d].pc # "starting", UNCHANGED exited,
             \A r \in Servers : server'[r] \in {"none", "starting"} => held'[r] = {}
      PROVE  ServerInv'
  BY <1>1, <1>2, <1>3, <1>4, <1>5, ServerTypes DEF IInv, ServerInv, Up, Gone, Servers
<1>6. CASE c = Boot
  <2>1. /\ proc' = p /\ lock' = Free /\ task' = [task EXCEPT ![c] = Idle]
        /\ UNCHANGED <<jobs, pending, held, exited, written>>
    BY <1>6 DEF ServerReady, Return, p
  <2>2. \A d \in Tasks : task'[d] = IF d = c THEN Idle ELSE task[d]
    BY <2>1, Types
  <2>3. Idle \in Task /\ Idle.pc = "idle"
    BY Types DEF Idle, Task, Places, None, Unset
  <2>4. SlotInv'
    BY <2>1, <2>3, SlotsKept DEF OutOfSlot, NotSent
  <2>5. TypeOK'
    <3>1. task' \in [Tasks -> Task]
      <4> HIDE DEF Idle
      <4> QED
        BY <2>1, <2>3, Types
    <3>2. server' \in [Servers -> {"none", "starting", "abandoned"} \cup Up \cup Gone] /\ proc' \in Servers \cup {None}
          /\ reading' \subseteq Servers /\ lock' \in Tasks \cup {Free}
      BY <1>1, <1>2, <2>1, ServerTypes DEF Up
    <3> QED
      BY <2>1, <3>1, <3>2 DEF IInv, TypeOK, Task, Servers
  <2>6. LockInv'
    BY <1>2, <1>6, <2>1, <2>2, <2>3 DEF IInv, LockInv, Locking
  <2>7. ServerInv'
    <3>1. \A d \in Tasks : task'[d].pc # "starting"
      BY <1>2, <2>2, <2>3 DEF Locking
    <3>2. \A r \in Servers : server'[r] \in {"none", "starting"} => held'[r] = {}
      BY <1>4, <2>1 DEF IInv, ServerInv
    <3> QED
      BY <1>5, <2>1, <3>1, <3>2
  <2>8. \A d \in Grades : task[d].server = p => task[d].pc \notin Sent
    BY <1>1 DEF IInv, JobInv, Started, Up, Gone, p
  <2>9. JobInv' /\ HeldInv' /\ OwnAnswer' /\ CrashHasACause' /\ EveryWaitIsWatched'
    <3>1. \A d \in Grades : task'[d] = task[d]
      BY <1>6, <2>2 DEF Tasks
    <3>2. JobInv'
      BY <1>2, <1>3, <1>4, <2>1, <3>1 DEF IInv, JobInv, Started, Up, Gone, Servers
    <3>3. HeldInv' /\ OwnAnswer'
      BY <2>1, <3>1 DEF IInv, HeldInv, OwnAnswer, Waiting, Servers
    <3>4. CrashHasACause'
      BY <1>1, <2>8, <3>1 DEF IInv, CrashHasACause, Waiting, Sent
    <3>5. EveryWaitIsWatched'
      BY <1>1, <2>1, <3>1 DEF IInv, EveryWaitIsWatched, Waiting
    <3> QED
      BY <3>2, <3>3, <3>4, <3>5
  <2>10. StarterInv'
    BY <1>8 DEF StarterInv, Servers
  <2> QED
    BY <2>4, <2>5, <2>6, <2>7, <2>9, <2>10 DEF IInv
<1>7. CASE c # Boot
  <2> DEFINE q == [pc |-> "waiting", job |-> jobs + 1, server |-> p, fut |-> Unset]
  <2>1. /\ task' = [task EXCEPT ![c] = q] /\ pending' = pending \cup {jobs + 1} /\ proc' = p
        /\ lock' = Free /\ jobs' = jobs + 1 /\ held' \in {held, [held EXCEPT ![p] = @ \cup {jobs + 1}]}
    BY <1>1, <1>7 DEF ServerReady, SendJob, NextJob, p, Gone
  <2>2. \A d \in Tasks : task'[d].pc # "starting"
    BY <1>2, <2>1, Types DEF Locking
  <2>3. \A r \in Servers : server'[r] \in {"none", "starting"} => held'[r] = {}
    BY <1>4, <2>1, ServerTypes DEF IInv, ServerInv
  <2>4. ServerInv'
    BY <1>1, <1>5, <2>1, <2>2, <2>3
  <2>5. reading' \in SUBSET Servers /\ reading' = reading \cup {p} /\ proc' \in Servers \cup {None}
        /\ server'[p] \in Up \cup Gone /\ UNCHANGED <<exited, written>> /\ c \in Grades
        /\ server[p] = "starting" /\ server' = [server EXCEPT ![p] = "up"]
    BY <1>1, <1>2, <1>4, <1>7, <2>1, ServerTypes DEF Up, Tasks, p
  <2> QED
    BY <1>1, <1>2, <1>8, <2>1, <2>4, <2>5, Sends
<1> QED
  BY <1>6, <1>7

(* A task leaves its server behind, which is given up, was dead already, or is killed. *)
LEMMA GivesUp ==
  ASSUME IInv, NEW c \in Tasks, NEW q \in Task, task' = [task EXCEPT ![c] = q],
         task[c].pc \in {"starting", "killing"}, q.pc \in {"idle", "cold", "reaping"},
         c = Boot => q.pc = "idle",
         lock \in {Free, c}, lock' = IF q.pc = "reaping" THEN c ELSE Free,
         NEW p \in Servers, p = task[c].server, NEW to \in {"abandoned", "dead", "killed"},
         server' = [server EXCEPT ![p] = to],
         to = "abandoned" => server[p] = "starting",
         to = "dead" => server[p] = "dead",
         (proc' = None /\ proc = p) \/ (proc' = proc /\ to # "killed"),
         UNCHANGED <<jobs, pending, exited, held, written, reading>>
  PROVE  IInv'
<1>1. \A d \in Tasks : task'[d] = IF d = c THEN q ELSE task[d]
  BY Types
<1>2. \A r \in Servers : server'[r] = IF r = p THEN to ELSE server[r]
  BY ServerTypes
<1>3. \A d \in Tasks : task[d].pc \in Locking => d = c
  BY Types DEF IInv, LockInv
<1>4. SlotInv'
  BY SlotsKept DEF OutOfSlot, NotSent
<1>5. TypeOK'
  <2>1. task' \in [Tasks -> Task]
    BY Types
  <2>2. /\ server' \in [Servers -> {"none", "starting", "abandoned"} \cup Up \cup Gone]
        /\ proc' \in Servers \cup {None} /\ lock' \in Tasks \cup {Free}
    BY ServerTypes DEF Gone
  <2> QED
    BY <2>1, <2>2, ServerTypes, Types DEF IInv, TypeOK, Task, Servers
<1>6. LockInv'
  BY <1>1, <1>3 DEF IInv, LockInv, Locking
<1>7. ServerInv'
  <2>1. proc' # None => proc' \in reading' /\ server'[proc'] \in Up \cup {"dead"}
    BY <1>2, ServerTypes DEF IInv, ServerInv, Up
  <2>2. \A r \in reading : server'[r] \in Up \cup Gone
    BY <1>2, ServerTypes DEF IInv, ServerInv, Up, Gone
  <2>3. \A r \in Servers : server'[r] \in Up => proc' = r /\ reading = {r}
    BY <1>2 DEF IInv, ServerInv, Up
  <2>4. \A r \in exited : server'[r] \in Gone
    BY <1>2, ServerTypes DEF IInv, ServerInv, Up, Gone
  <2>5. \A r \in Servers : server'[r] \in {"none", "starting"} => held[r] = {}
    BY <1>2 DEF IInv, ServerInv
  <2>6. \A d \in Tasks : task'[d].pc # "starting"
    BY <1>1, <1>3 DEF Locking
  <2> QED
    BY <2>1, <2>2, <2>3, <2>4, <2>5, <2>6 DEF IInv, ServerInv, Servers
<1>14. StarterInv'
  BY <1>2, Types DEF IInv, StarterInv, Servers
<1>8. \A d \in Grades : task'[d].pc \in Sent => d # c /\ task'[d] = task[d] /\ task[d].pc \in Sent
  BY <1>1 DEF Sent, Tasks
<1>9. \A r \in Servers : /\ server[r] \in Started => server'[r] \in Started
                         /\ server'[r] \in Up => r # p /\ server'[r] = server[r]
  BY <1>2 DEF Started, Up, Gone
<1>10. JobInv'
  <2>1. ASSUME NEW r \in Servers, server'[r] \in Up, NEW id \in held[r]
        PROVE  \E d \in Grades : task'[d].pc \in Sent /\ task'[d].job = id /\ task'[d].server = r
    <3>1. PICK d \in Grades : task[d].pc \in Sent /\ task[d].job = id /\ task[d].server = r
      BY <1>9, <2>1 DEF IInv, JobInv
    <3> QED
      BY <1>1, <1>9, <2>1, <3>1 DEF Tasks
  <2> QED
    BY <1>8, <1>9, <2>1 DEF IInv, JobInv, Servers
<1>11. HeldInv' /\ OwnAnswer'
  BY <1>8 DEF IInv, HeldInv, OwnAnswer, Waiting, Servers, Sent
<1>12. CrashHasACause'
  BY <1>8 DEF IInv, CrashHasACause, Waiting, Sent
<1>13. EveryWaitIsWatched'
  <2>1. Unresolved' = Unresolved /\ \A d \in Unresolved : task'[d] = task[d]
    BY <1>1 DEF Unresolved, Waiting, Tasks
  <2> QED
    BY <2>1, Types DEF EveryWaitIsWatched, Unresolved
<1> QED
  BY <1>4, <1>5, <1>6, <1>7, <1>10, <1>11, <1>12, <1>13, <1>14 DEF IInv

LEMMA StartFailsKeeps == ASSUME IInv, NEW c \in Tasks, StartFails(c) PROVE IInv'
<1> DEFINE p == task[c].server
           q == IF c = Boot THEN Idle ELSE [Idle EXCEPT !.pc = "cold"]
           to == IF server[p] = "dead" THEN "dead" ELSE "abandoned"
<1>1. /\ task[c].pc = "starting" /\ lock = c /\ p \in Servers /\ server[p] \in {"starting", "dead"}
  BY DEF StartFails, IInv, ServerInv, LockInv, Locking
<1>2. q \in Task /\ q.pc \in {"idle", "cold"} /\ (c = Boot => q.pc = "idle")
  <2>1. Idle \in Task /\ Idle.pc = "idle"
    BY Types DEF Idle, Task, Places, None, Unset
  <2>2. [Idle EXCEPT !.pc = "cold"] \in Task /\ [Idle EXCEPT !.pc = "cold"].pc = "cold"
    BY <2>1 DEF Task, Places
  <2> QED
    BY <2>1, <2>2
<1>3. task' = [task EXCEPT ![c] = q] /\ lock' = Free
  BY DEF StartFails, Return
<1>4. server' = [server EXCEPT ![p] = to]
  <2>1. server' = [server EXCEPT ![p] = IF server[p] \in Gone THEN server[p] ELSE "abandoned"]
    BY DEF StartFails
  <2> QED
    BY <1>1, <2>1 DEF Gone
<1>5. (to = "abandoned" /\ server[p] = "starting") \/ (to = "dead" /\ server[p] = "dead")
  BY <1>1
<1>6. UNCHANGED <<proc, jobs, pending, exited, held, written, reading>>
  BY DEF StartFails
<1> HIDE DEF q, to, p
<1>7. p = task[c].server
  BY DEF p
<1> QED
  BY <1>1, <1>2, <1>3, <1>4, <1>5, <1>6, <1>7, GivesUp

LEMMA KillServerKeeps == ASSUME IInv, NEW c \in Tasks, KillServer(c) PROVE IInv'
<1>1. task[c].pc = "killing" /\ lock = Free /\ c # Boot /\ c \in Grades /\ c \notin Unresolved /\ task[c].job \in 1..jobs
  BY DEF KillServer, Tasks, IInv, LockInv, JobInv, Sent, Unresolved, Waiting
<1>2. CASE ~(IsOwnServer(c) /\ proc # None)
  <2>1. \A p \in Servers : server[p] \in Up => task[c].server # p
    BY <1>2 DEF IsOwnServer, IInv, ServerInv, Servers, None
  <2>2. Return(c) /\ UNCHANGED <<proc, server, lock, jobs, pending, exited, held, written, reading>>
    BY <1>2 DEF KillServer
  <2> QED
    <3>1. lock' = IF lock = c THEN Free ELSE lock
      BY <1>1, <2>2
    <3>2. Return(c) /\ UNCHANGED <<proc, jobs, pending, server, exited, held, written, reading>>
      BY <2>2
    <3>3. \A p \in Servers : server[p] \in Up => task[c].server # p \/ task[c].job \notin held[p]
      BY <2>1
    <3> QED
      BY <1>1, <3>1, <3>2, <3>3, ReturnKeeps
<1>3. CASE IsOwnServer(c) /\ proc # None
  <2> DEFINE to == IF server[proc] = "dead" THEN "dead" ELSE "killed"
             q  == IF proc \in exited THEN Idle ELSE [Idle EXCEPT !.pc = "reaping", !.server = proc]
  <2>1. proc = task[c].server /\ proc \in Servers /\ server[proc] \in Up \cup {"dead"}
    BY <1>3, ServerTypes DEF IsOwnServer, IInv, ServerInv
  <2>2. q \in Task /\ q.pc \in {"idle", "reaping"}
    <3>1. Idle \in Task /\ Idle.pc = "idle"
      BY Types DEF Idle, Task, Places, None, Unset
    <3>2. [Idle EXCEPT !.pc = "reaping", !.server = proc] \in Task
          /\ [Idle EXCEPT !.pc = "reaping", !.server = proc].pc = "reaping"
      BY <2>1, <3>1 DEF Task, Places
    <3> QED
      BY <3>1, <3>2
  <2>3. q.pc = "reaping" <=> proc \notin exited
    BY DEF Idle
  <2>4. task' = [task EXCEPT ![c] = q] /\ lock' = IF q.pc = "reaping" THEN c ELSE Free
    BY <1>1, <1>3, <2>3 DEF KillServer, Return
  <2>5. server' = [server EXCEPT ![proc] = to] /\ proc' = None
    BY <1>3, <2>1 DEF KillServer, Up, Gone
  <2>6. (to = "dead" /\ server[proc] = "dead") \/ to = "killed"
    OBVIOUS
  <2>7. UNCHANGED <<jobs, pending, exited, held, written, reading>>
    BY DEF KillServer
  <2> HIDE DEF q, to
  <2> QED
    BY <1>1, <2>1, <2>2, <2>4, <2>5, <2>6, <2>7, GivesUp
<1> QED
  BY <1>2, <1>3

-----------------------------------------------------------------------------
(* The reader task                                                         *)

(* Resolving futures leaves everything else of the tasks as it was. *)
LEMMA ResolveKeeps ==
  ASSUME IInv, NEW callers, callers \subseteq Unresolved, NEW value, value \in {Crashed} \cup 1..jobs,
         Resolve(callers, value), UNCHANGED <<lock, jobs, exited, held>>,
         \A r \in Servers : server'[r] = server[r] \/ (server[r] \in Up /\ server'[r] = "abandoned")
  PROVE  /\ \A c \in Tasks : task'[c] = IF c \in callers THEN [task[c] EXCEPT !.fut = value] ELSE task[c]
         /\ \A c \in Tasks : /\ task'[c].pc = task[c].pc /\ task'[c].job = task[c].job
                             /\ task'[c].server = task[c].server
                             /\ task'[c].fut = IF c \in callers THEN value ELSE task[c].fut
         /\ task' \in [Tasks -> Task] /\ LockInv' /\ StarterInv' /\ JobInv' /\ SlotInv'
         /\ Waiting' = Waiting /\ Unresolved' = Unresolved \ callers
<1>1. \A c \in Tasks : task'[c] = IF c \in callers THEN [task[c] EXCEPT !.fut = value] ELSE task[c]
  BY DEF Resolve, Unresolved
<1>2. \A c \in Tasks : /\ task'[c].pc = task[c].pc /\ task'[c].job = task[c].job
                       /\ task'[c].server = task[c].server
                       /\ task'[c].fut = IF c \in callers THEN value ELSE task[c].fut
  BY <1>1, Types DEF Task
<1>3. task' \in [Tasks -> Task]
  <2>1. \A c \in Tasks : task'[c] \in Task
    BY <1>1, Types DEF Task
  <2>2. task' = [c \in Tasks |-> task'[c]]
    BY DEF Resolve
  <2> QED
    BY <2>1, <2>2
<1>4. LockInv'
  BY <1>2, ServerTypes DEF IInv, LockInv, Tasks
<1>5. JobInv' /\ StarterInv'
  <2>1. \A r \in Servers : /\ server'[r] \in Up => server[r] \in Up
                           /\ server[r] \in Started => server'[r] \in Started
                           /\ server'[r] = "starting" => server[r] = "starting"
    BY DEF Started, Up, Gone
  <2>2. JobInv'
    BY <1>2, <2>1 DEF IInv, JobInv, Tasks, Servers
  <2>3. StarterInv'
    BY <1>2, <2>1 DEF IInv, StarterInv, Tasks, Servers
  <2> QED
    BY <2>2, <2>3
<1>6. Waiting' = Waiting /\ InSlot' = InSlot /\ Unsent' = Unsent
  BY <1>2 DEF Waiting, InSlot, Unsent, Tasks
<1>7. SlotInv'
  BY <1>6 DEF IInv, SlotInv
<1>8. Unresolved' = Unresolved \ callers
  BY <1>2, <1>6, Types DEF Unresolved, Waiting, Tasks, Unset, Crashed
<1> QED
  BY <1>1, <1>2, <1>3, <1>4, <1>5, <1>6, <1>7, <1>8

LEMMA ReadReplyKeeps == ASSUME IInv, NEW p \in Servers, ReadReply(p) PROVE IInv'
<1>1. PICK id \in written[p] : /\ written' = [written EXCEPT ![p] = @ \ {id}]
                               /\ Resolve(Addressee(id), id) /\ pending' = pending \ {id}
  BY DEF ReadReply
<1>2. p \in reading /\ UNCHANGED <<proc, lock, jobs, server, exited, held, reading>>
  BY DEF ReadReply
<1>3. id \in 1..jobs
  BY ServerTypes
<1>4. \A c \in Waiting : task[c].job = id /\ id \in pending => c \in Unresolved
  BY Types DEF IInv, JobInv, Sent, Waiting, Unresolved
<1>5. Addressee(id) \subseteq Unresolved /\ \A c \in Unresolved : c \in Addressee(id) <=> task[c].job = id
  BY <1>4, Types DEF Addressee, Unresolved
<1> DEFINE callers == Addressee(id)
<1> HIDE DEF callers
<1>6. callers \subseteq Unresolved /\ (\A c \in Unresolved : c \in callers <=> task[c].job = id)
      /\ Resolve(callers, id)
  BY <1>1, <1>5 DEF callers
<1>7. /\ \A c \in Tasks : /\ task'[c].pc = task[c].pc /\ task'[c].job = task[c].job
                          /\ task'[c].server = task[c].server
                          /\ task'[c].fut = IF c \in callers THEN id ELSE task[c].fut
      /\ task' \in [Tasks -> Task] /\ LockInv' /\ StarterInv' /\ JobInv' /\ SlotInv'
      /\ Waiting' = Waiting /\ Unresolved' = Unresolved \ callers
  BY <1>2, <1>3, <1>6, ResolveKeeps
<1>8. \A r \in Servers : written'[r] \subseteq written[r]
  BY <1>1, ServerTypes
<1>9. TypeOK'
  <2>1. written' \in [Servers -> SUBSET (1..jobs)] /\ pending' \subseteq 1..jobs
    BY <1>1, ServerTypes
  <2> QED
    BY <1>2, <1>7, <2>1 DEF IInv, TypeOK, Task, Servers
<1>10. ServerInv'
  BY <1>2, <1>7 DEF IInv, ServerInv, Servers
<1>11. HeldInv'
  <2>1. \A r \in Servers : id \notin held[r]
    BY DEF IInv, HeldInv
  <2>2. \A c \in callers : task[c].job = id
    BY <1>6
  <2> QED
    BY <1>2, <1>7, <1>8, <2>1, <2>2 DEF IInv, HeldInv, Tasks, Servers
<1>12. OwnAnswer'
  BY <1>6, <1>7 DEF IInv, OwnAnswer, Waiting, Tasks
<1>13. CrashHasACause'
  BY <1>2, <1>3, <1>7 DEF IInv, CrashHasACause, Waiting, Tasks, Crashed
<1>14. EveryWaitIsWatched'
  <2>1. pending' = {task'[c].job : c \in Unresolved'}
    BY <1>1, <1>6, <1>7, Types DEF Unresolved, Waiting, Tasks
  <2>2. \A c \in Unresolved' : task'[c].server \in reading'
    BY <1>2, <1>7, Types DEF Unresolved, Waiting, Tasks
  <2> QED
    BY <2>1, <2>2 DEF EveryWaitIsWatched, Unresolved
<1> QED
  BY <1>7, <1>9, <1>10, <1>11, <1>12, <1>13, <1>14 DEF IInv

(* When a reader stops, its server was the only one read, and is not up or is abandoned. *)
LEMMA ReaderStopsKeeps ==
  ASSUME IInv, NEW p \in reading, ReaderStops(p), server'[p] \in Gone \cup {"abandoned"},
         server' \in [Servers -> {"none", "starting", "abandoned"} \cup Up \cup Gone],
         \A r \in Servers : server'[r] = server[r] \/ (r = p /\ server[r] \in Up /\ server'[r] = "abandoned")
  PROVE  IInv'
<1>1. /\ p \in Servers /\ reading' = reading \ {p} /\ pending' = {}
      /\ proc' = IF proc = p THEN None ELSE proc
      /\ UNCHANGED <<lock, jobs, exited, held, written>>
  BY ServerTypes DEF ReaderStops
<1> DEFINE callers == {c \in Waiting : task[c].job \in pending}
<1>2. callers = Unresolved
  BY Types DEF IInv, JobInv, Sent, Waiting, Unresolved
<1> HIDE DEF callers
<1>3. Resolve(Unresolved, Crashed)
  BY <1>2 DEF ReaderStops, callers
<1>4. /\ \A c \in Tasks : /\ task'[c].pc = task[c].pc /\ task'[c].job = task[c].job
                          /\ task'[c].server = task[c].server
                          /\ task'[c].fut = IF c \in Unresolved THEN Crashed ELSE task[c].fut
      /\ task' \in [Tasks -> Task] /\ LockInv' /\ StarterInv' /\ JobInv' /\ SlotInv'
      /\ Waiting' = Waiting /\ Unresolved' = {}
  <2> DEFINE all == Unresolved
             crashed == Crashed
  <2>1. all \subseteq Unresolved /\ crashed \in {Crashed} \cup 1..jobs /\ Resolve(all, crashed)
    BY <1>3
  <2> HIDE DEF all, crashed
  <2>2. /\ \A c \in Tasks : /\ task'[c].pc = task[c].pc /\ task'[c].job = task[c].job
                            /\ task'[c].server = task[c].server
                            /\ task'[c].fut = IF c \in all THEN crashed ELSE task[c].fut
        /\ task' \in [Tasks -> Task] /\ LockInv' /\ StarterInv' /\ JobInv' /\ SlotInv'
        /\ Waiting' = Waiting /\ Unresolved' = Unresolved \ all
    BY <1>1, <2>1, ResolveKeeps
  <2> QED
    BY <2>2 DEF all, crashed
<1>5. reading = {p} /\ \A r \in Servers : server'[r] \notin Up
  <2>1. reading = {p}
    BY DEF IInv, ServerInv
  <2>2. \A r \in Servers : r # p => server'[r] = server[r] /\ server[r] \notin Up
    BY <2>1 DEF IInv, ServerInv
  <2>3. server'[p] \notin Up
    BY DEF Up, Gone
  <2> QED
    BY <2>1, <2>2, <2>3
<1>6. TypeOK'
  <2>1. proc' \in Servers \cup {None} /\ reading' \subseteq Servers /\ pending' \subseteq 1..jobs
    BY <1>1, ServerTypes
  <2> QED
    BY <1>1, <1>4, <2>1 DEF IInv, TypeOK, Task, Servers
<1>7. ServerInv'
  <2>1. proc' = None /\ reading' = {}
    BY <1>1, <1>5, Types DEF IInv, ServerInv
  <2>2. \A r \in exited : server'[r] \in Gone
    BY ServerTypes DEF IInv, ServerInv, Up, Gone
  <2>3. \A r \in Servers : server'[r] \in {"none", "starting"} => held'[r] = {}
    BY <1>1 DEF IInv, ServerInv
  <2>4. \A c \in Tasks : task'[c].pc = "starting" =>
          /\ task'[c].server \in Servers /\ server'[task'[c].server] \in {"starting", "dead"}
    BY <1>4 DEF IInv, ServerInv, Up
  <2> QED
    BY <1>1, <1>5, <2>1, <2>2, <2>3, <2>4 DEF ServerInv, Servers
<1>8. HeldInv'
  BY <1>1, <1>4 DEF IInv, HeldInv, Tasks, Servers
<1>9. OwnAnswer'
  BY <1>4 DEF IInv, OwnAnswer, Waiting, Tasks
<1>10. CrashHasACause'
  BY <1>1, <1>5 DEF CrashHasACause
<1>11. EveryWaitIsWatched'
  BY <1>1, <1>4 DEF EveryWaitIsWatched, Unresolved
<1> QED
  BY <1>4, <1>6, <1>7, <1>8, <1>9, <1>10, <1>11 DEF IInv

LEMMA ReaderEndsKeeps == ASSUME IInv, NEW p \in Servers, ReaderEnds(p) PROVE IInv'
  BY ReaderStopsKeeps, ServerTypes DEF ReaderEnds

LEMMA ReaderFailsKeeps == ASSUME IInv, NEW p \in Servers, ReaderFails(p) PROVE IInv'
<1>1. /\ p \in reading /\ ReaderStops(p)
      /\ server' = [server EXCEPT ![p] = IF server[p] \in Gone THEN server[p] ELSE "abandoned"]
  BY DEF ReaderFails
<1>2. server[p] \in Up \cup Gone
  BY <1>1 DEF IInv, ServerInv
<1>3. \A r \in Servers : server'[r] = IF r = p /\ server[p] \notin Gone THEN "abandoned" ELSE server[r]
  BY <1>1, ServerTypes
<1>4. server' \in [Servers -> {"none", "starting", "abandoned"} \cup Up \cup Gone]
  BY <1>1, ServerTypes
<1> QED
  BY <1>1, <1>2, <1>3, <1>4, ReaderStopsKeeps

-----------------------------------------------------------------------------
(* The server processes                                                    *)

LEMMA ServerAnswersKeeps == ASSUME IInv, NEW p \in Servers, ServerAnswers(p) PROVE IInv'
<1>1. PICK id \in held[p] : /\ held' = [held EXCEPT ![p] = @ \ {id}]
                            /\ written' = [written EXCEPT ![p] = @ \cup {id}]
  BY DEF ServerAnswers
<1>2. UNCHANGED <<proc, lock, jobs, pending, task, server, exited, reading>>
  BY DEF ServerAnswers
<1>3. /\ \A r \in Servers : held'[r] \subseteq held[r] /\ (r = p => id \notin held'[r])
      /\ \A r \in Servers : written'[r] \subseteq written[r] \cup {id}
      /\ \A r \in Servers : r # p => written'[r] = written[r] /\ id \notin held[r]
  BY <1>1, ServerTypes DEF IInv, HeldInv
<1>4. TypeOK'
  <2>1. held' \in [Servers -> SUBSET (1..jobs)] /\ written' \in [Servers -> SUBSET (1..jobs)]
    BY <1>1, ServerTypes
  <2> QED
    BY <1>2, <2>1 DEF IInv, TypeOK, Servers, Tasks
<1>5. LockInv' /\ StarterInv' /\ OwnAnswer' /\ CrashHasACause' /\ EveryWaitIsWatched'
  BY <1>2 DEF IInv, LockInv, StarterInv, OwnAnswer, CrashHasACause, EveryWaitIsWatched, Waiting, Servers
<1>6. ServerInv'
  BY <1>2, <1>3 DEF IInv, ServerInv, Servers
<1>7. JobInv'
  BY <1>2, <1>3 DEF IInv, JobInv, Servers
<1>8. HeldInv'
  <2>1. \A r, s \in Servers : written'[r] \cap held'[s] = {} /\ (r # s => held'[r] \cap held'[s] = {})
    BY <1>3 DEF IInv, HeldInv
  <2>2. \A c \in Grades : task[c].pc = "waiting" /\ task[c].fut \notin {Unset, Crashed} =>
          \A r \in Servers : task[c].job \notin held'[r]
    BY <1>3 DEF IInv, HeldInv
  <2> QED
    BY <1>2, <2>1, <2>2 DEF HeldInv, Servers
<1>9. SlotInv'
  BY <1>2 DEF IInv, SlotInv, InSlot, Unsent
<1> QED
  BY <1>4, <1>5, <1>6, <1>7, <1>8, <1>9 DEF IInv

LEMMA BecomesKeeps ==
  ASSUME IInv, NEW p \in Servers, NEW from, NEW to, Becomes(p, from, to),
         \/ from \subseteq Up /\ to \in Up
         \/ "none" \notin from /\ from \cap Gone = {} /\ to = "dead"
  PROVE  IInv'
<1>1. /\ server[p] \in from /\ server' = [server EXCEPT ![p] = to]
      /\ UNCHANGED <<proc, lock, jobs, pending, task, exited, held, written, reading>>
  BY DEF Becomes
<1>2. \A r \in Servers : server'[r] = IF r = p THEN to ELSE server[r]
  BY <1>1, ServerTypes
<1>3. \A r \in Servers : /\ server'[r] \in Up => server[r] \in Up
                         /\ server[r] \in Up \cup Gone => server'[r] \in Up \cup Gone
                         /\ server[r] \in Started => server'[r] \in Started
                         /\ server[r] \in Gone => server'[r] = server[r]
                         /\ server'[r] \in {"none", "starting"} => server[r] = server'[r]
                         /\ server[r] \in {"starting", "dead"} => server'[r] \in {"starting", "dead"}
                         /\ server[r] \in Up \cup {"dead"} => server'[r] \in Up \cup {"dead"}
  BY <1>1, <1>2 DEF Started, Up, Gone
<1>4. TypeOK'
  <2>1. server' \in [Servers -> {"none", "starting", "abandoned"} \cup Up \cup Gone]
    BY <1>1, ServerTypes DEF Gone
  <2> QED
    BY <1>1, <2>1 DEF IInv, TypeOK, Servers, Tasks
<1>5. LockInv' /\ HeldInv' /\ OwnAnswer' /\ EveryWaitIsWatched' /\ SlotInv'
  BY <1>1 DEF IInv, LockInv, HeldInv, OwnAnswer, EveryWaitIsWatched, SlotInv, InSlot, Unsent, Waiting, Servers
<1>6. ServerInv'
  <2>1. proc # None => proc \in reading /\ server'[proc] \in Up \cup {"dead"}
    BY <1>3, ServerTypes DEF IInv, ServerInv
  <2>2. \A r \in reading : server'[r] \in Up \cup Gone
    BY <1>3, ServerTypes DEF IInv, ServerInv
  <2>3. \A r \in exited : server'[r] \in Gone
    BY <1>3, ServerTypes DEF IInv, ServerInv
  <2> QED
    BY <1>1, <1>3, <2>1, <2>2, <2>3 DEF IInv, ServerInv, Servers
<1>7. JobInv'
  BY <1>1, <1>3 DEF IInv, JobInv, Servers
<1>8. CrashHasACause' /\ StarterInv'
  BY <1>1, <1>3 DEF IInv, CrashHasACause, StarterInv, Waiting, Servers
<1> QED
  BY <1>4, <1>5, <1>6, <1>7, <1>8 DEF IInv

LEMMA ExitSeenKeeps == ASSUME IInv, NEW p \in Servers, ExitSeen(p) PROVE IInv'
<1>1. /\ server[p] \in Gone /\ exited' = exited \cup {p}
      /\ UNCHANGED <<proc, lock, jobs, pending, task, server, held, written, reading>>
  BY DEF ExitSeen
<1>2. TypeOK'
  BY <1>1 DEF IInv, TypeOK, Servers, Tasks
<1>3. LockInv' /\ StarterInv' /\ JobInv' /\ HeldInv' /\ SlotInv' /\ OwnAnswer' /\ CrashHasACause' /\ EveryWaitIsWatched'
  BY <1>1 DEF IInv, LockInv, StarterInv, JobInv, HeldInv, SlotInv, OwnAnswer, CrashHasACause, EveryWaitIsWatched,
              InSlot, Unsent, Waiting, Servers
<1>4. ServerInv'
  BY <1>1 DEF IInv, ServerInv, Servers
<1> QED
  BY <1>2, <1>3, <1>4 DEF IInv

-----------------------------------------------------------------------------
(* The theorems                                                            *)

LEMMA StepKeeps == ASSUME IInv, NEW c \in Tasks, TaskStep(c) PROVE IInv'
<1>1. CASE UseServer(c)
  BY <1>1, UseServerKeeps
<1>2. CASE StartServer(c)
  BY <1>2, StartServerKeeps
<1>3. CASE ServerReady(c)
  BY <1>3, ServerReadyKeeps
<1>4. CASE StartFails(c)
  BY <1>4, StartFailsKeeps
<1>5. CASE ColdRun(c)
  BY <1>5, ColdRunKeeps
<1>6. CASE Answered(c)
  BY <1>6, AnsweredKeeps
<1>7. CASE TimesOut(c)
  BY <1>7, TimesOutKeeps
<1>8. CASE KillServer(c)
  BY <1>8, KillServerKeeps
<1>9. CASE Reaped(c)
  BY <1>9, ReapedKeeps
<1>10. CASE NothingToDo
  BY <1>10, NothingToDoKeeps
<1> QED
  BY <1>1, <1>2, <1>3, <1>4, <1>5, <1>6, <1>7, <1>8, <1>9, <1>10 DEF TaskStep

LEMMA Inductive == IInv /\ [Next]_vars => IInv'
<1> SUFFICES ASSUME IInv, [Next]_vars PROVE IInv'
  OBVIOUS
<1>1. CASE \E c \in Grades : Call(c) \/ GetSlot(c)
  BY <1>1, CallKeeps, GetSlotKeeps
<1>2. CASE \E c \in Tasks : TaskStep(c)
  BY <1>2, StepKeeps
<1>3. ASSUME NEW p \in Servers, ReadReply(p) \/ ReaderEnds(p) \/ ReaderFails(p) \/ ServerAnswers(p)
                                \/ Stalls(p) \/ GoesOn(p) \/ Dies(p) \/ ExitSeen(p)
      PROVE  IInv'
  <2>1. CASE Stalls(p)
    BY <2>1, BecomesKeeps DEF Stalls, Up
  <2>2. CASE GoesOn(p)
    BY <2>2, BecomesKeeps DEF GoesOn, Up
  <2>3. CASE Dies(p)
    BY <2>3, BecomesKeeps DEF Dies, Up, Gone
  <2> QED
    BY <1>3, <2>1, <2>2, <2>3, ReadReplyKeeps, ReaderEndsKeeps, ReaderFailsKeeps, ServerAnswersKeeps, ExitSeenKeeps
<1>4. CASE UNCHANGED vars
  <2>1. InSlot' = InSlot /\ Unsent' = Unsent /\ Waiting' = Waiting
    BY <1>4 DEF vars, InSlot, Unsent, Waiting
  <2> QED
    BY <1>4, <2>1 DEF vars, IInv, TypeOK, LockInv, ServerInv, StarterInv, JobInv, HeldInv, SlotInv, EveryWaitIsWatched,
                      OwnAnswer, CrashHasACause, Servers, Tasks
<1> QED
  BY <1>1, <1>2, <1>3, <1>4 DEF Next

LEMMA Invariance == Spec => []IInv
BY InitInv, Inductive, PTL DEF Spec

(* The invariant of the client of the fork server: the types, and what follows below. *)
THEOREM TypeCorrect == Spec => []TypeOK
<1>1. IInv => TypeOK
  BY DEF IInv
<1> QED
  BY <1>1, Invariance, PTL

(* WarmSandbox.run: whoever restarts the server or times out, a grade that waits is *)
(* registered among those to be answered, and its server is read.                   *)
THEOREM WaitsAreWatched == Spec => []EveryWaitIsWatched
<1>1. IInv => EveryWaitIsWatched
  BY DEF IInv
<1> QED
  BY <1>1, Invariance, PTL

(* _read_replies: the answer that a waiting grade gets is the one to its own job, also *)
(* when answers come back out of order or after the job of another one was given up.   *)
THEOREM AnswersAreOwn == Spec => []OwnAnswer
<1>1. IInv => OwnAnswer
  BY DEF IInv
<1> QED
  BY <1>1, Invariance, PTL

(* _read_replies: a waiting grade is told that the sandbox crashed only when the server that *)
(* had its job is no longer read, although any reader that stops fails every job that waits. *)
THEOREM CrashesAreReal == Spec => []CrashHasACause
<1>1. IInv => CrashHasACause
  BY DEF IInv
<1> QED
  BY <1>1, Invariance, PTL

(* WarmSandbox._start, _read_replies: at most one server is in use or being started, and *)
(* every other one alive was abandoned and is neither read, nor used, nor waited for.    *)
THEOREM ServerIsAlone == Spec => []OneServer
<1>1. ASSUME IInv PROVE OneServer
  <2>1. ASSUME NEW p \in Servers, NEW q \in Servers, server[p] = "starting", server[q] \in Up PROVE FALSE
    <3>1. proc = None \/ proc \in exited
      BY <1>1, <2>1 DEF IInv, StarterInv, ServerInv
    <3>2. proc = q /\ proc # None
      BY <1>1, <2>1, Types DEF IInv, ServerInv
    <3> QED
      BY <1>1, <2>1, <3>1, <3>2 DEF IInv, ServerInv, Up, Gone
  <2>2. ASSUME NEW p \in Servers, NEW q \in Servers, {server[p], server[q]} \subseteq Up \cup {"starting"}
        PROVE  p = q
    <3>1. CASE server[p] = "starting" /\ server[q] = "starting"
      BY <1>1, <3>1 DEF IInv, StarterInv
    <3>2. CASE server[p] \in Up /\ server[q] \in Up
      BY <1>1, <3>2 DEF IInv, ServerInv
    <3> QED
      BY <2>1, <2>2, <3>1, <3>2
  <2>3. ASSUME NEW p \in Servers, server[p] = "abandoned"
        PROVE  proc # p /\ p \notin reading /\ \A c \in Waiting : task[c].server = p => task[c].fut # Unset
    <3>1. p \notin reading
      BY <1>1, <2>3 DEF IInv, ServerInv, Up, Gone
    <3>2. proc # p
      BY <1>1, <3>1, Types DEF IInv, ServerInv
    <3> QED
      BY <1>1, <3>1, <3>2, Types DEF Unresolved
  <2> QED
    BY <1>1, <2>2, <2>3 DEF IInv, StarterInv, ServerInv, OneServer
<1> QED
  BY <1>1, Invariance, PTL

(* docs/ARCHITECTURE.md, execute(): the slots cap the jobs that a server has at --parallel. *)
THEOREM SlotsAreEnough == Spec => []NothingQueues
<1>1. ASSUME IInv, NEW p \in Servers, server[p] \in Up PROVE Cardinality(held[p]) <= Parallel
  <2> DEFINE owns == {c \in InSlot : task[c].job \in held[p] /\ task[c].pc \in Sent}
             f == [c \in owns |-> task[c].job]
  <2>1. IsFiniteSet(InSlot) /\ Cardinality(InSlot) <= Parallel /\ owns \in SUBSET InSlot
    BY <1>1 DEF IInv, SlotInv
  <2>2. IsFiniteSet(owns) /\ Cardinality(owns) <= Cardinality(InSlot)
    BY <2>1, FS_Subset
  <2>3. \A id \in held[p] : \E c \in owns : f[c] = id
    BY <1>1 DEF IInv, JobInv, InSlot, Sent
  <2>4. f \in Surjection(owns, held[p])
    BY <2>3 DEF Surjection
  <2> HIDE DEF f, owns
  <2>5. IsFiniteSet(held[p]) /\ Cardinality(held[p]) <= Cardinality(owns)
    BY <2>2, <2>4, FS_Surjection
  <2>6. Cardinality(held[p]) \in Nat /\ Cardinality(owns) \in Nat /\ Cardinality(InSlot) \in Nat
    BY <2>1, <2>2, <2>5, FS_CardinalityType
  <2> QED
    BY <2>1, <2>2, <2>5, <2>6
<1>2. IInv => NothingQueues
  BY <1>1 DEF NothingQueues
<1> QED
  BY <1>2, Invariance, PTL

(* Only _kill after a timeout kills. *)
LEMMA KillStep ==
  ASSUME IInv, [Next]_vars, NEW p \in Servers, server'[p] = "killed", server[p] # "killed"
  PROVE  \E c \in Grades : task[c].pc = "killing" /\ task[c].server = p
<1>1. ASSUME NEW c \in Tasks, TaskStep(c), ~KillServer(c) PROVE FALSE
  <2>1. server' = server \/ \E r \in Servers, to \in {"starting", "up", "abandoned"} :
                              server' = [server EXCEPT ![r] = to] \/ server' = [server EXCEPT ![r] = server[r]]
    BY <1>1 DEF TaskStep, UseServer, StartServer, ServerReady, StartFails, ColdRun, Answered, TimesOut,
                Reaped, NothingToDo, IInv, ServerInv
  <2> QED
    BY <2>1, ServerTypes
<1>2. ASSUME NEW c \in Tasks, KillServer(c) PROVE c \in Grades /\ task[c].pc = "killing" /\ task[c].server = p
  <2>1. task[c].pc = "killing" /\ c \in Grades
    BY <1>2 DEF KillServer, IInv, LockInv, Tasks
  <2>2. proc = task[c].server /\ server' = [server EXCEPT ![proc] = IF @ \in Gone THEN @ ELSE "killed"]
    BY <1>2 DEF KillServer, IsOwnServer
  <2> QED
    BY <2>1, <2>2, ServerTypes
<1>3. ASSUME NEW c \in Grades, Call(c) \/ GetSlot(c) PROVE FALSE
  BY <1>3 DEF Call, GetSlot
<1>4. ASSUME NEW r \in Servers, ReadReply(r) \/ ReaderEnds(r) \/ ReaderFails(r) \/ ServerAnswers(r)
                                \/ Stalls(r) \/ GoesOn(r) \/ Dies(r) \/ ExitSeen(r)
      PROVE  FALSE
  BY <1>4, ServerTypes DEF ReadReply, ReaderEnds, ReaderFails, ReaderStops, ServerAnswers, Stalls, GoesOn, Dies, Becomes, ExitSeen
<1>5. CASE UNCHANGED vars
  BY <1>5 DEF vars
<1> QED
  BY <1>1, <1>2, <1>3, <1>4, <1>5 DEF Next

(* WarmSandbox.run after a timeout: only the server that the late job was sent to is killed. *)
THEOREM KillsAreOwn == Spec => KillsOnlyItsOwn
<1>1. IInv /\ [Next]_vars =>
        [\A p \in Servers : server'[p] = "killed" /\ server[p] # "killed" =>
           \E c \in Grades : task[c].pc = "killing" /\ task[c].server = p]_vars
  BY KillStep
<1> QED
  BY <1>1, Invariance, PTL DEF Spec, KillsOnlyItsOwn
=============================================================================
