----------------------------- MODULE ThreadPool -----------------------------
(***************************************************************************)
(* The ThreadPool of assign4 (thread-pool.h, thread-pool.cc): a dispatcher *)
(* thread, worker threads, the thread that owns the pool, two queues under *)
(* qlock, the counter jobNum under jobNumLock, three semaphores and a      *)
(* condition variable.                                                     *)
(*                                                                         *)
(* Steps.  Every access to the queues is made under qlock, and every write *)
(* of jobNum under jobNumLock, so a critical section is one step.  The two *)
(* reads of jobNum that hold neither lock (wait's predicate, the worker's  *)
(* test) are steps of their own.  lk is taken by wait() alone, that is by  *)
(* the owner alone, and needs no variable.                                 *)
(*                                                                         *)
(* A thunk is known only by which of schedule's calls handed it over: each *)
(* member of Jobs is scheduled at most once.  While it runs, a thunk may   *)
(* schedule others, as those of archive.cc do.                             *)
(***************************************************************************)
EXTENDS Integers, Sequences, FiniteSets

CONSTANTS Workers,     \* the threads of wts
          Dispatcher,  \* the thread dt
          Owner,       \* the thread that builds, uses and destroys the pool
          Jobs,        \* thunks; their number bounds the calls of schedule
          NoJob

Threads == Workers \cup {Dispatcher, Owner}
Callers == Workers \cup {Owner}          \* who may be inside schedule()
NumWorkers == Cardinality(Workers)

ASSUME ThreadsAssumption ==
    /\ Dispatcher # Owner
    /\ Dispatcher \notin Workers /\ Owner \notin Workers
ASSUME WorkersAssumption == IsFiniteSet(Workers) /\ Workers # {}
ASSUME JobsAssumption == IsFiniteSet(Jobs) /\ NoJob \notin Jobs

VARIABLES
    pc,          \* where each thread is
    arg,         \* arg[c]: the parameter of c's call of schedule
    job,         \* job[w]: the local f of worker w
    readyQueue, jobQueue,
    hasJob, jobReady, hasWorker,    \* the values of the semaphores
    jobNum,
    closing,     \* the destructor has been entered
    sent,        \* the destructor's loop variable i
    stage        \* history: how far each thunk has come

vars == <<pc, arg, job, readyQueue, jobQueue, hasJob, jobReady, hasWorker,
          jobNum, closing, sent, stage>>

queues == <<readyQueue, jobQueue>>
semaphores == <<hasJob, jobReady, hasWorker>>
locals == <<arg, job>>
teardown == <<closing, sent>>

SchedulePc == {"push", "signal"}
WorkerPc == {"waitJob", "take", "run", "release", "discount", "check",
             "notify", "exited"} \cup SchedulePc
DispatcherPc == {"waitReady", "waitWorker", "move", "signalJob", "exited"}
OwnerPc == {"client", "test", "block", "asleep", "endJobs", "endReady",
            "joinDispatcher", "joinWorkers", "gone"} \cup SchedulePc
Stages == {"new", "counted", "ready", "dispatched", "running", "done"}

TypeOK ==
    /\ pc \in [Threads -> WorkerPc \cup DispatcherPc \cup OwnerPc]
    /\ \A w \in Workers : pc[w] \in WorkerPc
    /\ pc[Dispatcher] \in DispatcherPc
    /\ pc[Owner] \in OwnerPc
    /\ arg \in [Callers -> Jobs \cup {NoJob}]
    /\ job \in [Workers -> Jobs \cup {NoJob}]
    /\ readyQueue \in Seq(Jobs) /\ jobQueue \in Seq(Jobs)
    /\ hasJob \in Nat /\ jobReady \in Nat /\ hasWorker \in Nat
    /\ jobNum \in Nat
    /\ closing \in BOOLEAN
    /\ sent \in 0..NumWorkers
    /\ stage \in [Jobs -> Stages]

-----------------------------------------------------------------------------
(* The constructor.  Its threads are modelled as having started.           *)

Init ==
    /\ pc = [t \in Threads |-> IF t = Owner THEN "client"
                               ELSE IF t = Dispatcher THEN "waitReady"
                               ELSE "waitJob"]
    /\ arg = [c \in Callers |-> NoJob]
    /\ job = [w \in Workers |-> NoJob]
    /\ readyQueue = <<>> /\ jobQueue = <<>>
    /\ hasJob = 0 /\ jobReady = 0 /\ hasWorker = NumWorkers
    /\ jobNum = 0
    /\ closing = FALSE /\ sent = 0
    /\ stage = [j \in Jobs |-> "new"]

At(t, label) == pc[t] = label
Goto(t, label) == pc' = [pc EXCEPT ![t] = label]
Reaches(j, s) == stage' = [stage EXCEPT ![j] = s]

(***************************************************************************)
(* schedule(), called by the owner between its other calls and by a worker *)
(* from the thunk it runs.                                                 *)
(***************************************************************************)
Outside(c) == IF c = Owner THEN "client" ELSE "run"

\* Mutant: a thunk scheduled by a thunk is not counted.
ScheduleCountOwnerOnly(c, j) ==
    /\ At(c, Outside(c)) /\ stage[j] = "new"
    /\ jobNum' = IF c = Owner THEN jobNum + 1 ELSE jobNum
    /\ arg' = [arg EXCEPT ![c] = j]
    /\ Goto(c, "push") /\ Reaches(j, "counted")
    /\ UNCHANGED <<job, queues, semaphores, teardown>>

ScheduleCount(c, j) ==
    /\ At(c, Outside(c)) /\ stage[j] = "new"
    /\ jobNum' = jobNum + 1
    /\ arg' = [arg EXCEPT ![c] = j]
    /\ Goto(c, "push") /\ Reaches(j, "counted")
    /\ UNCHANGED <<job, queues, semaphores, teardown>>

SchedulePush(c) ==
    /\ At(c, "push")
    /\ readyQueue' = Append(readyQueue, arg[c])
    /\ arg' = [arg EXCEPT ![c] = NoJob]
    /\ Goto(c, "signal") /\ Reaches(arg[c], "ready")
    /\ UNCHANGED <<job, jobQueue, semaphores, jobNum, teardown>>

ScheduleSignal(c) ==
    /\ At(c, "signal")
    /\ jobReady' = jobReady + 1
    /\ Goto(c, Outside(c))
    /\ UNCHANGED <<locals, queues, hasJob, hasWorker, jobNum, teardown, stage>>

(***************************************************************************)
(* wait(): cv.wait(lg, pred) is while (!pred()) cv.wait(lg).               *)
(***************************************************************************)
CallWait ==
    /\ At(Owner, "client")
    /\ Goto(Owner, "test")
    /\ UNCHANGED <<locals, queues, semaphores, jobNum, teardown, stage>>

AfterWait == IF closing THEN "endJobs" ELSE "client"

\* Mutant: wait() looks at the first queue instead of the counter.
WaitTestQueue ==
    /\ At(Owner, "test")
    /\ Goto(Owner, IF readyQueue = <<>> THEN AfterWait ELSE "block")
    /\ UNCHANGED <<locals, queues, semaphores, jobNum, teardown, stage>>

WaitTest ==
    /\ At(Owner, "test")
    /\ Goto(Owner, IF jobNum = 0 THEN AfterWait ELSE "block")
    /\ UNCHANGED <<locals, queues, semaphores, jobNum, teardown, stage>>

WaitBlock ==
    /\ At(Owner, "block")
    /\ Goto(Owner, "asleep")
    /\ UNCHANGED <<locals, queues, semaphores, jobNum, teardown, stage>>

SpuriousWakeup ==
    /\ At(Owner, "asleep")
    /\ Goto(Owner, "test")
    /\ UNCHANGED <<locals, queues, semaphores, jobNum, teardown, stage>>

-----------------------------------------------------------------------------
(* dispatcher()                                                            *)

DispatcherAwaitJob ==
    /\ At(Dispatcher, "waitReady") /\ jobReady > 0
    /\ jobReady' = jobReady - 1
    /\ Goto(Dispatcher, "waitWorker")
    /\ UNCHANGED <<locals, queues, hasJob, hasWorker, jobNum, teardown, stage>>

\* Mutant: the dispatcher does not wait for a free worker.
DispatcherAwaitNobody ==
    /\ At(Dispatcher, "waitWorker")
    /\ Goto(Dispatcher, "move")
    /\ UNCHANGED <<locals, queues, semaphores, jobNum, teardown, stage>>

DispatcherAwaitWorker ==
    /\ At(Dispatcher, "waitWorker") /\ hasWorker > 0
    /\ hasWorker' = hasWorker - 1
    /\ Goto(Dispatcher, "move")
    /\ UNCHANGED <<locals, queues, hasJob, jobReady, jobNum, teardown, stage>>

\* Mutant: the thunk is put in front of those that wait for a worker.
DispatcherMoveToFront ==
    /\ At(Dispatcher, "move") /\ readyQueue # <<>>
    /\ readyQueue' = Tail(readyQueue)
    /\ jobQueue' = <<Head(readyQueue)>> \o jobQueue
    /\ Goto(Dispatcher, "signalJob") /\ Reaches(Head(readyQueue), "dispatched")
    /\ UNCHANGED <<locals, semaphores, jobNum, teardown>>

DispatcherMove ==
    /\ At(Dispatcher, "move") /\ readyQueue # <<>>
    /\ readyQueue' = Tail(readyQueue)
    /\ jobQueue' = Append(jobQueue, Head(readyQueue))
    /\ Goto(Dispatcher, "signalJob") /\ Reaches(Head(readyQueue), "dispatched")
    /\ UNCHANGED <<locals, semaphores, jobNum, teardown>>

DispatcherExit ==
    /\ At(Dispatcher, "move") /\ readyQueue = <<>>
    /\ Goto(Dispatcher, "exited")
    /\ UNCHANGED <<locals, queues, semaphores, jobNum, teardown, stage>>

DispatcherSignal ==
    /\ At(Dispatcher, "signalJob")
    /\ hasJob' = hasJob + 1
    /\ Goto(Dispatcher, "waitReady")
    /\ UNCHANGED <<locals, queues, jobReady, hasWorker, jobNum, teardown, stage>>

-----------------------------------------------------------------------------
(* worker(id)                                                              *)

WorkerAwaitJob(w) ==
    /\ At(w, "waitJob") /\ hasJob > 0
    /\ hasJob' = hasJob - 1
    /\ Goto(w, "take")
    /\ UNCHANGED <<locals, queues, jobReady, hasWorker, jobNum, teardown, stage>>

WorkerTake(w) ==
    /\ At(w, "take") /\ jobQueue # <<>>
    /\ job' = [job EXCEPT ![w] = Head(jobQueue)]
    /\ jobQueue' = Tail(jobQueue)
    /\ Goto(w, "run") /\ Reaches(Head(jobQueue), "running")
    /\ UNCHANGED <<arg, readyQueue, semaphores, jobNum, teardown>>

WorkerExit(w) ==
    /\ At(w, "take") /\ jobQueue = <<>>
    /\ Goto(w, "exited")
    /\ UNCHANGED <<locals, queues, semaphores, jobNum, teardown, stage>>

\* f() returns.
WorkerReturn(w) ==
    /\ At(w, "run")
    /\ Goto(w, "release")
    /\ UNCHANGED <<locals, queues, semaphores, jobNum, teardown, stage>>

\* Mutant: the worker does not give its slot back.
WorkerKeepsSlot(w) ==
    /\ At(w, "release")
    /\ Goto(w, "discount")
    /\ UNCHANGED <<locals, queues, semaphores, jobNum, teardown, stage>>

WorkerRelease(w) ==
    /\ At(w, "release")
    /\ hasWorker' = hasWorker + 1
    /\ Goto(w, "discount")
    /\ UNCHANGED <<locals, queues, hasJob, jobReady, jobNum, teardown, stage>>

WorkerDiscount(w) ==
    /\ At(w, "discount")
    /\ jobNum' = jobNum - 1
    /\ job' = [job EXCEPT ![w] = NoJob]
    /\ Goto(w, "check") /\ Reaches(job[w], "done")
    /\ UNCHANGED <<arg, queues, semaphores, teardown>>

\* Mutant: the test expects the value from before the decrement.
WorkerCheckOld(w) ==
    /\ At(w, "check")
    /\ Goto(w, IF jobNum = 1 THEN "notify" ELSE "waitJob")
    /\ UNCHANGED <<locals, queues, semaphores, jobNum, teardown, stage>>

\* The test that holds no lock.
WorkerCheck(w) ==
    /\ At(w, "check")
    /\ Goto(w, IF jobNum = 0 THEN "notify" ELSE "waitJob")
    /\ UNCHANGED <<locals, queues, semaphores, jobNum, teardown, stage>>

\* notify_all reaches only a thread that is already in the wait set.
WorkerNotify(w) ==
    /\ At(w, "notify")
    /\ pc' = [pc EXCEPT ![w] = "waitJob",
                        ![Owner] = IF @ = "asleep" THEN "test" ELSE @]
    /\ UNCHANGED <<locals, queues, semaphores, jobNum, teardown, stage>>

-----------------------------------------------------------------------------
(* The destructor: wait(), then tokens that find the queues empty, joins.  *)

\* Mutant: the destructor does not wait for the thunks.
CallDestructorNoWait ==
    /\ At(Owner, "client")
    /\ closing' = TRUE
    /\ Goto(Owner, "endJobs")
    /\ UNCHANGED <<locals, queues, semaphores, jobNum, sent, stage>>

CallDestructor ==
    /\ At(Owner, "client")
    /\ closing' = TRUE
    /\ Goto(Owner, "test")
    /\ UNCHANGED <<locals, queues, semaphores, jobNum, sent, stage>>

\* Mutants: one token too many, and one too few.
EndSignalExtra ==
    /\ At(Owner, "endJobs")
    /\ hasJob' = hasJob + 1
    /\ sent' = sent + 1
    /\ Goto(Owner, IF sent < NumWorkers THEN "endJobs" ELSE "endReady")
    /\ UNCHANGED <<locals, queues, jobReady, hasWorker, jobNum, closing, stage>>
EndSignalFewer ==
    /\ At(Owner, "endJobs")
    /\ hasJob' = hasJob + 1
    /\ sent' = sent + 1
    /\ Goto(Owner, IF sent + 2 < NumWorkers THEN "endJobs" ELSE "endReady")
    /\ UNCHANGED <<locals, queues, jobReady, hasWorker, jobNum, closing, stage>>

EndSignalWorker ==
    /\ At(Owner, "endJobs")
    /\ hasJob' = hasJob + 1
    /\ sent' = sent + 1
    /\ Goto(Owner, IF sent + 1 < NumWorkers THEN "endJobs" ELSE "endReady")
    /\ UNCHANGED <<locals, queues, jobReady, hasWorker, jobNum, closing, stage>>

EndSignalDispatcher ==
    /\ At(Owner, "endReady")
    /\ jobReady' = jobReady + 1
    /\ Goto(Owner, "joinDispatcher")
    /\ UNCHANGED <<locals, queues, hasJob, hasWorker, jobNum, teardown, stage>>

JoinDispatcher ==
    /\ At(Owner, "joinDispatcher") /\ At(Dispatcher, "exited")
    /\ Goto(Owner, "joinWorkers")
    /\ UNCHANGED <<locals, queues, semaphores, jobNum, teardown, stage>>

JoinWorkers ==
    /\ At(Owner, "joinWorkers")
    /\ \A w \in Workers : At(w, "exited")
    /\ Goto(Owner, "gone")
    /\ UNCHANGED <<locals, queues, semaphores, jobNum, teardown, stage>>

-----------------------------------------------------------------------------
Schedule(c) == SchedulePush(c) \/ ScheduleSignal(c)

DispatcherStep == \/ DispatcherAwaitJob \/ DispatcherAwaitWorker
                  \/ DispatcherMove \/ DispatcherExit \/ DispatcherSignal

WorkerStep(w) ==
    \/ WorkerAwaitJob(w) \/ WorkerTake(w) \/ WorkerExit(w)
    \/ WorkerReturn(w) \/ WorkerRelease(w) \/ WorkerDiscount(w)
    \/ WorkerCheck(w) \/ WorkerNotify(w) \/ Schedule(w)

\* What the owner does inside a call it has made.
OwnerStep == \/ Schedule(Owner) \/ WaitTest \/ WaitBlock
             \/ EndSignalWorker \/ EndSignalDispatcher
             \/ JoinDispatcher \/ JoinWorkers

\* What nobody is obliged to do: make a call, wake up for no reason.
Choice == \/ \E c \in Callers, j \in Jobs : ScheduleCount(c, j)
          \/ CallWait \/ CallDestructor \/ SpuriousWakeup

Next == \/ DispatcherStep
        \/ \E w \in Workers : WorkerStep(w)
        \/ OwnerStep
        \/ Choice

Spec == Init /\ [][Next]_vars

(***************************************************************************)
(* A thread that can take a step inside a call takes it (the operating     *)
(* system runs every thread, thunks return); no call has to be made and no *)
(* spurious wakeup has to happen.                                          *)
(***************************************************************************)
Fairness == /\ WF_vars(DispatcherStep)
            /\ \A w \in Workers : WF_vars(WorkerStep(w))
            /\ WF_vars(OwnerStep)

FairSpec == Spec /\ Fairness

-----------------------------------------------------------------------------
(* Properties.                                                             *)

Outstanding == {j \in Jobs : stage[j] \notin {"new", "done"}}
TearingDown == pc[Owner] \in {"endJobs", "endReady", "joinDispatcher",
                              "joinWorkers", "gone"}

\* jobNum, written under its lock at two ends of a thunk's life by different
\* threads, is the number of thunks handed over and not executed in full.
JobNumCounts == jobNum = Cardinality(Outstanding)

\* wait() comes back only at a moment when nothing is queued, no thunk is in
\* execution and no thunk is on its way through schedule() (thread-pool.h:
\* "Blocks and waits until all previously scheduled thunks have been executed
\* in full"), although its predicate reads jobNum with no lock that protects it.
WaitMeansDone ==
    [][At(Owner, "test") /\ pc'[Owner] = AfterWait
        => /\ readyQueue = <<>> /\ jobQueue = <<>>
           /\ \A w \in Workers : ~At(w, "run")
           /\ \A j \in Jobs : stage[j] \in {"new", "done"}]_vars

\* A thread of the pool leaves its loop only for the destructor, with nothing
\* left to do: finding its queue empty is the exit signal, so a semaphore
\* token too many would silently lose a thread, and with it a thunk.
NoEarlyExit ==
    (\E t \in Workers \cup {Dispatcher} : At(t, "exited"))
        => TearingDown /\ Outstanding = {}

\* A thunk is handed to the workers only when one of them is free for it: the
\* thunks dispatched and those in execution never outnumber the workers.
DispatchedHaveWorkers ==
    Len(jobQueue) + Cardinality({w \in Workers : pc[w] \in
                                   {"run", "push", "signal", "release"}})
        <= NumWorkers

\* What the pool looks like to those who use it.
Queued == jobQueue \o readyQueue
Running == {job[w] : w \in Workers} \ {NoJob}
Finished == {j \in Jobs : stage[j] = "done"}
Client == IF pc[Owner] \in {"client", "push", "signal"} THEN "open"
          ELSE IF pc[Owner] \in {"test", "block", "asleep"}
          THEN (IF closing THEN "closing" ELSE "waiting")
          ELSE "closed"

\* The pool is a FIFO executor: thunks start in the order in which schedule()
\* queued them, each once, at most one per worker, and wait() and the
\* destructor return only when all is done.
Executor == INSTANCE FifoExecutor WITH
    Capacity <- NumWorkers, pending <- Queued, running <- Running,
    done <- Finished, client <- Client
ImplementsExecutor == Executor!Spec

\* Every thunk handed to schedule() is executed in full in the end, whatever
\* the owner does next.
EveryThunkRuns ==
    \A j \in Jobs : (stage[j] = "counted") ~> (stage[j] = "done")

\* Once its wait() is over the destructor ends: every thread finds a token
\* and an empty queue, and is joined.
DestructorEnds == At(Owner, "endJobs") ~> At(Owner, "gone")

\* A thread asleep in wait() while thunks are outstanding is woken once they
\* have run, although the worker that finishes last tests jobNum without a lock,
\* after others may have changed it.
SleeperIsWoken == (At(Owner, "asleep") /\ jobNum # 0) ~> At(Owner, "test")

\* wait() returns, as thread-pool.h says by "Blocks and waits until all
\* previously scheduled thunks have been executed in full".
WaitReturns == At(Owner, "test") ~> ~(pc[Owner] \in {"test", "block", "asleep"})
=============================================================================
