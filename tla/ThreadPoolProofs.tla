-------------------------- MODULE ThreadPoolProofs --------------------------
(***************************************************************************)
(* Proofs about ThreadPool for any number of workers and of thunks.        *)
(*                                                                         *)
(* The argument.  The history variable stage and the places a thunk can be *)
(* in (the parameter of a call, a queue, the local of a worker) tell the   *)
(* same story (Located); hence the thunk a worker discounts is one that    *)
(* was outstanding, and jobNum is the number of outstanding thunks.        *)
(***************************************************************************)
EXTENDS ThreadPool, FiniteSetTheorems, TLAPS

Busy == {"run", "push", "signal", "release", "discount"}

\* Each place holds thunks of the stage it stands for, no thunk twice.
ArgsLocated ==
    /\ \A c \in Callers : IF At(c, "push")
                          THEN arg[c] \in Jobs /\ stage[arg[c]] = "counted"
                          ELSE arg[c] = NoJob
    /\ \A c, d \in Callers : arg[c] = arg[d] /\ arg[c] # NoJob => c = d

ReadyLocated ==
    /\ \A i \in DOMAIN readyQueue : stage[readyQueue[i]] = "ready"
    /\ \A i, k \in DOMAIN readyQueue : readyQueue[i] = readyQueue[k] => i = k

DispatchedLocated ==
    /\ \A i \in DOMAIN jobQueue : stage[jobQueue[i]] = "dispatched"
    /\ \A i, k \in DOMAIN jobQueue : jobQueue[i] = jobQueue[k] => i = k

JobsLocated ==
    /\ \A w \in Workers : IF pc[w] \in Busy
                          THEN job[w] \in Jobs /\ stage[job[w]] = "running"
                          ELSE job[w] = NoJob
    /\ \A v, w \in Workers : job[v] = job[w] /\ job[v] # NoJob => v = w

Located == ArgsLocated /\ ReadyLocated /\ DispatchedLocated /\ JobsLocated

\* The destructor's loop variable, before, during and after the loop.
SentBound == IF At(Owner, "endJobs") THEN sent < NumWorkers
             ELSE sent = IF TearingDown THEN NumWorkers ELSE 0

IInv == TypeOK /\ Located /\ SentBound /\ JobNumCounts

-----------------------------------------------------------------------------
\* There is at least one worker, and their number is a natural number.
LEMMA NumWorkersType == NumWorkers \in Nat /\ NumWorkers > 0
<1>1. NumWorkers \in Nat
  BY WorkersAssumption, FS_CardinalityType DEF NumWorkers
<1>2. NumWorkers # 0
  BY WorkersAssumption, FS_EmptySet DEF NumWorkers
<1> QED BY <1>1, <1>2

\* The outstanding thunks can be counted.
LEMMA OutstandingFinite ==
    IsFiniteSet(Outstanding) /\ Cardinality(Outstanding) \in Nat
<1>1. Outstanding \subseteq Jobs
  BY DEF Outstanding
<1>2. IsFiniteSet(Outstanding)
  BY <1>1, JobsAssumption, FS_Subset
<1> QED BY <1>2, FS_CardinalityType

\* The pool as the constructor leaves it satisfies the invariant.
LEMMA InitIInv == Init => IInv
<1> SUFFICES ASSUME Init PROVE IInv
  OBVIOUS
<1> USE DEF Init
<1>1. TypeOK
  <2>1. /\ pc \in [Threads -> WorkerPc \cup DispatcherPc \cup OwnerPc]
        /\ \A w \in Workers : pc[w] \in WorkerPc
        /\ pc[Dispatcher] \in DispatcherPc
        /\ pc[Owner] \in OwnerPc
    BY ThreadsAssumption DEF Threads, WorkerPc, DispatcherPc, OwnerPc
  <2>2. readyQueue \in Seq(Jobs) /\ jobQueue \in Seq(Jobs)
    OBVIOUS
  <2>3. /\ arg \in [Callers -> Jobs \cup {NoJob}]
        /\ job \in [Workers -> Jobs \cup {NoJob}]
        /\ stage \in [Jobs -> Stages]
    BY DEF Stages
  <2>4. /\ hasJob \in Nat /\ jobReady \in Nat /\ hasWorker \in Nat
        /\ jobNum \in Nat /\ sent \in 0..NumWorkers
    BY NumWorkersType
  <2>5. closing \in BOOLEAN
    OBVIOUS
  <2> QED BY <2>1, <2>2, <2>3, <2>4, <2>5 DEF TypeOK
<1>2. Located
  BY ThreadsAssumption, JobsAssumption
  DEF Located, ArgsLocated, ReadyLocated, DispatchedLocated, JobsLocated,
      Threads, Callers, At, Busy
<1>3. SentBound
  BY DEF SentBound, TearingDown, At, Threads
<1>4. JobNumCounts
  <2>1. Outstanding = {}
    BY DEF Outstanding
  <2> QED BY <2>1, FS_EmptySet DEF JobNumCounts
<1> QED BY <1>1, <1>2, <1>3, <1>4 DEF IInv

\* No step of any thread leads out of the types.
LEMMA TypeStep ==
    ASSUME IInv, Next, jobNum' \in Nat
    PROVE  TypeOK'
<1> USE DEF IInv, TypeOK, At, Goto, Reaches, queues, semaphores, locals, teardown,
            WorkerPc, DispatcherPc, OwnerPc, SchedulePc, Stages, Threads, Callers
<1> USE ThreadsAssumption, NumWorkersType
<1>1. ASSUME NEW c \in Callers, NEW j \in Jobs, ScheduleCount(c, j) PROVE TypeOK'
  BY <1>1 DEF ScheduleCount, Outside
<1>2. ASSUME NEW c \in Callers, SchedulePush(c) PROVE TypeOK'
  BY <1>2 DEF SchedulePush, Located, ArgsLocated
<1>3. ASSUME NEW c \in Callers, ScheduleSignal(c) PROVE TypeOK'
  BY <1>3 DEF ScheduleSignal, Outside
<1>4. CASE CallWait
  BY <1>4 DEF CallWait
<1>5. CASE WaitTest
  BY <1>5 DEF WaitTest, AfterWait
<1>6. CASE WaitBlock
  BY <1>6 DEF WaitBlock
<1>7. CASE SpuriousWakeup
  BY <1>7 DEF SpuriousWakeup
<1>8. CASE DispatcherAwaitJob
  BY <1>8 DEF DispatcherAwaitJob
<1>9. CASE DispatcherAwaitWorker
  BY <1>9 DEF DispatcherAwaitWorker
<1>10. CASE DispatcherMove
  BY <1>10 DEF DispatcherMove
<1>11. CASE DispatcherExit
  BY <1>11 DEF DispatcherExit
<1>12. CASE DispatcherSignal
  BY <1>12 DEF DispatcherSignal
<1>13. ASSUME NEW w \in Workers, WorkerAwaitJob(w) PROVE TypeOK'
  BY <1>13 DEF WorkerAwaitJob
<1>14. ASSUME NEW w \in Workers, WorkerTake(w) PROVE TypeOK'
  BY <1>14 DEF WorkerTake
<1>15. ASSUME NEW w \in Workers, WorkerExit(w) PROVE TypeOK'
  BY <1>15 DEF WorkerExit
<1>16. ASSUME NEW w \in Workers, WorkerReturn(w) PROVE TypeOK'
  BY <1>16 DEF WorkerReturn
<1>17. ASSUME NEW w \in Workers, WorkerRelease(w) PROVE TypeOK'
  BY <1>17 DEF WorkerRelease
<1>18. ASSUME NEW w \in Workers, WorkerDiscount(w) PROVE TypeOK'
  BY <1>18 DEF WorkerDiscount, Located, JobsLocated, Busy
<1>19. ASSUME NEW w \in Workers, WorkerCheck(w) PROVE TypeOK'
  BY <1>19 DEF WorkerCheck
<1>20. ASSUME NEW w \in Workers, WorkerNotify(w) PROVE TypeOK'
  BY <1>20 DEF WorkerNotify
<1>21. CASE CallDestructor
  BY <1>21 DEF CallDestructor
<1>22. CASE EndSignalWorker
  BY <1>22 DEF EndSignalWorker, SentBound
<1>23. CASE EndSignalDispatcher
  BY <1>23 DEF EndSignalDispatcher
<1>24. CASE JoinDispatcher
  BY <1>24 DEF JoinDispatcher
<1>25. CASE JoinWorkers
  BY <1>25 DEF JoinWorkers
<1> QED
  BY <1>1, <1>2, <1>3, <1>4, <1>5, <1>6, <1>7, <1>8, <1>9, <1>10, <1>11, <1>12,
     <1>13, <1>14, <1>15, <1>16, <1>17, <1>18, <1>19, <1>20, <1>21, <1>22,
     <1>23, <1>24, <1>25
  DEF Next, Choice, DispatcherStep, WorkerStep, OwnerStep, Schedule

\* Every thunk stays where its stage says: in a parameter, in one of the
\* queues, or in the hands of one worker.
LEMMA LocatedStep ==
    ASSUME IInv, Next
    PROVE  Located'
<1> USE ThreadsAssumption, JobsAssumption
<1> USE DEF IInv, TypeOK, Located, ArgsLocated, ReadyLocated, DispatchedLocated,
            JobsLocated, At, Goto, Reaches, queues, semaphores, locals, teardown,
            Busy, Threads, Callers
<1>1. ASSUME NEW c \in Callers, NEW j \in Jobs, ScheduleCount(c, j) PROVE Located'
  BY <1>1 DEF ScheduleCount, Outside
<1>2. ASSUME NEW c \in Callers, SchedulePush(c) PROVE Located'
  BY <1>2 DEF SchedulePush
<1>3. ASSUME NEW c \in Callers, ScheduleSignal(c) PROVE Located'
  BY <1>3 DEF ScheduleSignal, Outside
<1>4. CASE CallWait
  BY <1>4 DEF CallWait
<1>5. CASE WaitTest
  BY <1>5 DEF WaitTest, AfterWait
<1>6. CASE WaitBlock
  BY <1>6 DEF WaitBlock
<1>7. CASE SpuriousWakeup
  BY <1>7 DEF SpuriousWakeup
<1>8. CASE DispatcherAwaitJob
  BY <1>8 DEF DispatcherAwaitJob
<1>9. CASE DispatcherAwaitWorker
  BY <1>9 DEF DispatcherAwaitWorker
<1>10. CASE DispatcherMove
  BY <1>10 DEF DispatcherMove
<1>11. CASE DispatcherExit
  BY <1>11 DEF DispatcherExit
<1>12. CASE DispatcherSignal
  BY <1>12 DEF DispatcherSignal
<1>13. ASSUME NEW w \in Workers, WorkerAwaitJob(w) PROVE Located'
  BY <1>13 DEF WorkerAwaitJob
<1>14. ASSUME NEW w \in Workers, WorkerTake(w) PROVE Located'
  BY <1>14 DEF WorkerTake
<1>15. ASSUME NEW w \in Workers, WorkerExit(w) PROVE Located'
  BY <1>15 DEF WorkerExit
<1>16. ASSUME NEW w \in Workers, WorkerReturn(w) PROVE Located'
  BY <1>16 DEF WorkerReturn
<1>17. ASSUME NEW w \in Workers, WorkerRelease(w) PROVE Located'
  BY <1>17 DEF WorkerRelease
<1>18. ASSUME NEW w \in Workers, WorkerDiscount(w) PROVE Located'
  BY <1>18 DEF WorkerDiscount
<1>19. ASSUME NEW w \in Workers, WorkerCheck(w) PROVE Located'
  BY <1>19 DEF WorkerCheck
<1>20. ASSUME NEW w \in Workers, WorkerNotify(w) PROVE Located'
  BY <1>20 DEF WorkerNotify
<1>21. CASE CallDestructor
  BY <1>21 DEF CallDestructor
<1>22. CASE EndSignalWorker
  BY <1>22 DEF EndSignalWorker
<1>23. CASE EndSignalDispatcher
  BY <1>23 DEF EndSignalDispatcher
<1>24. CASE JoinDispatcher
  BY <1>24 DEF JoinDispatcher
<1>25. CASE JoinWorkers
  BY <1>25 DEF JoinWorkers
<1> QED
  BY <1>1, <1>2, <1>3, <1>4, <1>5, <1>6, <1>7, <1>8, <1>9, <1>10, <1>11, <1>12,
     <1>13, <1>14, <1>15, <1>16, <1>17, <1>18, <1>19, <1>20, <1>21, <1>22,
     <1>23, <1>24, <1>25
  DEF Next, Choice, DispatcherStep, WorkerStep, OwnerStep, Schedule

\* jobNum follows the set of outstanding thunks: only the first step of
\* schedule() and the worker's decrement change either.
LEMMA CountStep ==
    ASSUME IInv, Next
    PROVE  jobNum' \in Nat /\ JobNumCounts'
<1> USE ThreadsAssumption, JobsAssumption, OutstandingFinite
<1> USE DEF IInv, JobNumCounts
<1>1. ASSUME NEW c \in Callers, NEW j \in Jobs, ScheduleCount(c, j)
      PROVE  jobNum' \in Nat /\ JobNumCounts'
  <2>1. jobNum' = jobNum + 1 /\ jobNum \in Nat
    BY <1>1 DEF ScheduleCount, TypeOK
  <2>2. Outstanding' = Outstanding \cup {j} /\ j \notin Outstanding
    BY <1>1 DEF ScheduleCount, Outstanding, Reaches, TypeOK, Stages
  <2>3. Cardinality(Outstanding') = Cardinality(Outstanding) + 1
    BY <2>2, FS_AddElement
  <2> QED BY <2>1, <2>3
<1>2. ASSUME NEW w \in Workers, WorkerDiscount(w)
      PROVE  jobNum' \in Nat /\ JobNumCounts'
  <2>1. jobNum' = jobNum - 1
    BY <1>2 DEF WorkerDiscount
  <2>2. job[w] \in Jobs /\ stage[job[w]] = "running"
    BY <1>2 DEF WorkerDiscount, At, Busy, Located, JobsLocated
  <2>3. Outstanding' = Outstanding \ {job[w]} /\ job[w] \in Outstanding
    BY <1>2, <2>2 DEF WorkerDiscount, Outstanding, Reaches, TypeOK, Stages
  <2>4. Cardinality(Outstanding') = Cardinality(Outstanding) - 1
    BY <2>3, FS_RemoveElement
  <2>5. Outstanding' \subseteq Jobs
    BY DEF Outstanding
  <2>6. Cardinality(Outstanding') \in Nat
    BY <2>5, FS_Subset, FS_CardinalityType
  <2> QED BY <2>1, <2>4, <2>6
<1>3. ASSUME UNCHANGED jobNum, Outstanding' = Outstanding
      PROVE  jobNum' \in Nat /\ JobNumCounts'
  BY <1>3
<1>4. ASSUME NEW c \in Callers, SchedulePush(c) PROVE Outstanding' = Outstanding
  BY <1>4 DEF SchedulePush, Outstanding, Reaches, TypeOK, Stages, At, Located, ArgsLocated
<1>5. ASSUME DispatcherMove PROVE Outstanding' = Outstanding
  BY <1>5 DEF DispatcherMove, Outstanding, Reaches, TypeOK, Stages, Located, ReadyLocated
<1>6. ASSUME NEW w \in Workers, WorkerTake(w) PROVE Outstanding' = Outstanding
  BY <1>6 DEF WorkerTake, Outstanding, Reaches, TypeOK, Stages, Located, DispatchedLocated
<1>7. ASSUME UNCHANGED stage PROVE Outstanding' = Outstanding
  BY <1>7 DEF Outstanding
<1> QED
  BY <1>1, <1>2, <1>3, <1>4, <1>5, <1>6, <1>7
  DEF Next, Choice, DispatcherStep, WorkerStep, OwnerStep, Schedule, Callers,
      SchedulePush, ScheduleSignal, CallWait, WaitTest, WaitBlock,
      SpuriousWakeup, DispatcherAwaitJob, DispatcherAwaitWorker,
      DispatcherMove, DispatcherExit, DispatcherSignal, WorkerAwaitJob,
      WorkerTake, WorkerExit, WorkerReturn, WorkerRelease, WorkerCheck,
      WorkerNotify, CallDestructor, EndSignalWorker, EndSignalDispatcher,
      JoinDispatcher, JoinWorkers, teardown

\* The loop of the destructor stays within its bound.
LEMMA SentStep ==
    ASSUME IInv, Next
    PROVE  SentBound'
<1> USE ThreadsAssumption, NumWorkersType
<1> USE DEF IInv, TypeOK, SentBound, TearingDown, At, Goto, Threads, Callers,
            WorkerPc, SchedulePc, teardown
<1>1. CASE EndSignalWorker
  BY <1>1 DEF EndSignalWorker
<1>2. CASE WaitTest
  BY <1>2 DEF WaitTest, AfterWait
<1>3. CASE EndSignalDispatcher \/ JoinDispatcher \/ JoinWorkers
  BY <1>3 DEF EndSignalDispatcher, JoinDispatcher, JoinWorkers
<1>4. CASE CallWait \/ CallDestructor \/ WaitBlock \/ SpuriousWakeup
  BY <1>4 DEF CallWait, CallDestructor, WaitBlock, SpuriousWakeup
<1>5. CASE \E c \in Callers : Schedule(c) \/ \E j \in Jobs : ScheduleCount(c, j)
  BY <1>5 DEF Schedule, ScheduleCount, SchedulePush, ScheduleSignal, Outside
<1>6. CASE DispatcherStep
  BY <1>6 DEF DispatcherStep, DispatcherAwaitJob, DispatcherAwaitWorker,
              DispatcherMove, DispatcherExit, DispatcherSignal
<1>7. ASSUME NEW w \in Workers, WorkerStep(w), ~Schedule(w) PROVE SentBound'
  BY <1>7 DEF WorkerStep, WorkerAwaitJob, WorkerTake, WorkerExit, WorkerReturn,
              WorkerRelease, WorkerDiscount, WorkerCheck, WorkerNotify
<1> QED
  BY <1>1, <1>2, <1>3, <1>4, <1>5, <1>6, <1>7 DEF Next, Choice, OwnerStep, WorkerStep

\* The invariant is inductive.
LEMMA IInvStep == IInv /\ [Next]_vars => IInv'
<1>1. ASSUME IInv, Next PROVE IInv'
  BY <1>1, CountStep, TypeStep, LocatedStep, SentStep DEF IInv
<1>2. ASSUME IInv, UNCHANGED vars PROVE IInv'
  BY <1>2 DEF IInv, vars, TypeOK, Located, ArgsLocated, ReadyLocated,
      DispatchedLocated, JobsLocated, SentBound, TearingDown, JobNumCounts,
      Outstanding, At
<1> QED BY <1>1, <1>2

\* The invariant holds in every state the pool can reach.
THEOREM IInvHolds == Spec => []IInv
BY InitIInv, IInvStep, PTL DEF Spec

-----------------------------------------------------------------------------
\* Type correctness of the pool.
THEOREM TypeCorrect == Spec => []TypeOK
BY IInvHolds, PTL DEF IInv

\* jobNum is the number of thunks handed over and not executed in full.
THEOREM JobNumCorrect == Spec => []JobNumCounts
BY IInvHolds, PTL DEF IInv

\* When jobNum is zero there is nothing left anywhere in the pool.
LEMMA ZeroMeansQuiet ==
    ASSUME IInv, jobNum = 0
    PROVE  /\ readyQueue = <<>> /\ jobQueue = <<>>
           /\ \A w \in Workers : pc[w] \notin Busy
           /\ \A j \in Jobs : stage[j] \in {"new", "done"}
<1>1. Outstanding = {}
  BY OutstandingFinite, FS_EmptySet DEF IInv, JobNumCounts
<1>2. \A j \in Jobs : stage[j] \in {"new", "done"}
  BY <1>1 DEF Outstanding
<1>3. readyQueue = <<>>
  <2>1. SUFFICES ASSUME readyQueue # <<>> PROVE FALSE
    OBVIOUS
  <2>2. readyQueue[1] \in Jobs /\ 1 \in DOMAIN readyQueue
    BY <2>1 DEF IInv, TypeOK
  <2> QED BY <2>2, <1>2 DEF IInv, Located, ReadyLocated
<1>4. jobQueue = <<>>
  <2>1. SUFFICES ASSUME jobQueue # <<>> PROVE FALSE
    OBVIOUS
  <2>2. jobQueue[1] \in Jobs /\ 1 \in DOMAIN jobQueue
    BY <2>1 DEF IInv, TypeOK
  <2> QED BY <2>2, <1>2 DEF IInv, Located, DispatchedLocated
<1>5. \A w \in Workers : pc[w] \notin Busy
  BY <1>2 DEF IInv, Located, JobsLocated
<1> QED BY <1>2, <1>3, <1>4, <1>5

\* wait() comes back only when everything handed over is executed in full.
THEOREM WaitCorrect == Spec => WaitMeansDone
<1>1. ASSUME IInv, Next, At(Owner, "test"), pc'[Owner] = AfterWait
      PROVE  jobNum = 0
  <2> USE <1>1, ThreadsAssumption
  <2> USE DEF IInv, TypeOK, At, Goto, AfterWait, Threads, Callers
  <2>1. CASE WaitTest
    BY <2>1 DEF WaitTest
  <2>2. CASE Choice
    BY <2>2 DEF Choice, ScheduleCount, Outside, CallWait, CallDestructor, SpuriousWakeup
  <2>3. CASE OwnerStep /\ ~WaitTest
    BY <2>3 DEF OwnerStep, Schedule, SchedulePush, ScheduleSignal, WaitBlock,
           EndSignalWorker, EndSignalDispatcher, JoinDispatcher, JoinWorkers
  <2>4. CASE DispatcherStep
    BY <2>4 DEF DispatcherStep, DispatcherAwaitJob, DispatcherAwaitWorker,
              DispatcherMove, DispatcherExit, DispatcherSignal
  <2>5. ASSUME NEW w \in Workers, WorkerStep(w) PROVE jobNum = 0
    BY <2>5 DEF WorkerStep, WorkerAwaitJob, WorkerTake, WorkerExit, WorkerReturn,
              WorkerRelease, WorkerDiscount, WorkerCheck, WorkerNotify,
              Schedule, SchedulePush, ScheduleSignal, Outside
  <2> QED BY <2>1, <2>2, <2>3, <2>4, <2>5 DEF Next
<1>2. ASSUME IInv, [Next]_vars
      PROVE  [At(Owner, "test") /\ pc'[Owner] = AfterWait
                => /\ readyQueue = <<>> /\ jobQueue = <<>>
                   /\ \A w \in Workers : ~At(w, "run")
                   /\ \A j \in Jobs : stage[j] \in {"new", "done"}]_vars
  BY <1>1, <1>2, ZeroMeansQuiet DEF Busy, At
<1> QED BY <1>2, IInvHolds, PTL DEF Spec, WaitMeansDone

-----------------------------------------------------------------------------
(***************************************************************************)
(* Where the tokens of the three semaphores are.  A token of hasJob or     *)
(* jobReady stands for a queued thunk or for one of the destructor's exit  *)
(* signals; a token of hasWorker stands for a worker with nothing to do.   *)
(***************************************************************************)
In(L) == {w \in Workers : pc[w] \in L}
Bit(P) == IF P THEN 1 ELSE 0

Engaged == {"run", "push", "signal", "release"}

NumTaking == Cardinality(In({"take"}))
NumExited == Cardinality(In({"exited"}))
NumSignalling == Cardinality(In({"signal"}))
NumEngaged == Cardinality(In(Engaged))

JobTokens ==
    hasJob + NumTaking + NumExited + Bit(At(Dispatcher, "signalJob"))
        = Len(jobQueue) + sent

ReadyTokens ==
    jobReady + NumSignalling + Bit(At(Owner, "signal"))
             + Bit(pc[Dispatcher] \in {"waitWorker", "move", "exited"})
        = Len(readyQueue)
             + Bit(pc[Owner] \in {"joinDispatcher", "joinWorkers", "gone"})

WorkerTokens ==
    hasWorker + NumEngaged + Len(jobQueue)
              + Bit(pc[Dispatcher] \in {"move", "exited"})
        = NumWorkers

\* Past the destructor's wait() nothing is left and nothing can be added.
Calm == TearingDown => Outstanding = {}

TokenInv == JobTokens /\ ReadyTokens /\ WorkerTokens /\ Calm /\ NoEarlyExit

\* The numbers of workers at the labels that matter are natural numbers.
LEMMA NumTypes ==
    /\ NumTaking \in Nat /\ NumExited \in Nat
    /\ NumSignalling \in Nat /\ NumEngaged \in Nat
<1>1. ASSUME NEW L PROVE Cardinality(In(L)) \in Nat
  <2>1. In(L) \subseteq Workers
    BY DEF In
  <2> QED BY <2>1, WorkersAssumption, FS_Subset, FS_CardinalityType
<1> QED BY <1>1 DEF NumTaking, NumExited, NumSignalling, NumEngaged

\* A worker that moves leaves one count and enters another.
LEMMA InMove ==
    ASSUME NEW w \in Workers, NEW b, NEW L,
           \A v \in Workers : pc'[v] = IF v = w THEN b ELSE pc[v]
    PROVE  Cardinality(In(L)')
             = Cardinality(In(L)) + Bit(b \in L) - Bit(pc[w] \in L)
<1>1. IsFiniteSet(In(L)) /\ Cardinality(In(L)) \in Nat
  <2>1. In(L) \subseteq Workers
    BY DEF In
  <2> QED BY <2>1, WorkersAssumption, FS_Subset, FS_CardinalityType
<1>2. CASE b \in L /\ pc[w] \notin L
  <2>1. In(L)' = In(L) \cup {w} /\ w \notin In(L)
    BY <1>2 DEF In
  <2>2. Cardinality(In(L)') = Cardinality(In(L)) + 1
    BY <2>1, <1>1, FS_AddElement
  <2>3. Bit(b \in L) = 1 /\ Bit(pc[w] \in L) = 0
    BY <1>2 DEF Bit
  <2> QED BY <2>2, <2>3, <1>1
<1>3. CASE b \notin L /\ pc[w] \in L
  <2>1. In(L)' = In(L) \ {w} /\ w \in In(L)
    BY <1>3 DEF In
  <2>2. Cardinality(In(L)') = Cardinality(In(L)) - 1
    BY <2>1, <1>1, FS_RemoveElement
  <2>3. Bit(b \in L) = 0 /\ Bit(pc[w] \in L) = 1
    BY <1>3 DEF Bit
  <2> QED BY <2>2, <2>3, <1>1
<1>4. CASE (b \in L) = (pc[w] \in L)
  <2>1. In(L)' = In(L)
    BY <1>4 DEF In
  <2> QED BY <2>1, <1>1, <1>4 DEF Bit
<1> QED BY <1>2, <1>3, <1>4

\* Worker w goes from label a to label b and no other worker moves.
Moves(w, a, b) == /\ pc[w] = a
                  /\ \A v \in Workers : pc'[v] = IF v = w THEN b ELSE pc[v]

\* The same for each of the counts the token invariant uses.
LEMMA WorkerMoves ==
    ASSUME NEW w \in Workers, NEW a, NEW b, Moves(w, a, b)
    PROVE  /\ NumTaking' = NumTaking + Bit(b = "take") - Bit(a = "take")
           /\ NumExited' = NumExited + Bit(b = "exited") - Bit(a = "exited")
           /\ NumSignalling' = NumSignalling + Bit(b = "signal") - Bit(a = "signal")
           /\ NumEngaged' = NumEngaged + Bit(b \in Engaged) - Bit(a \in Engaged)
<1>0. pc[w] = a /\ \A v \in Workers : pc'[v] = IF v = w THEN b ELSE pc[v]
  BY DEF Moves
<1>1. NumTaking' = NumTaking + Bit(b \in {"take"}) - Bit(a \in {"take"})
  BY <1>0, InMove DEF NumTaking
<1>2. NumExited' = NumExited + Bit(b \in {"exited"}) - Bit(a \in {"exited"})
  BY <1>0, InMove DEF NumExited
<1>3. NumSignalling' = NumSignalling + Bit(b \in {"signal"}) - Bit(a \in {"signal"})
  BY <1>0, InMove DEF NumSignalling
<1>4. NumEngaged' = NumEngaged + Bit(b \in Engaged) - Bit(a \in Engaged)
  BY <1>0, InMove DEF NumEngaged, Engaged
<1> QED BY <1>1, <1>2, <1>3, <1>4

\* A step that moves no worker leaves the counts alone.
LEMMA WorkersStay ==
    ASSUME \A v \in Workers : pc'[v] = pc[v]
    PROVE  /\ NumTaking' = NumTaking /\ NumExited' = NumExited
           /\ NumSignalling' = NumSignalling /\ NumEngaged' = NumEngaged
BY DEF NumTaking, NumExited, NumSignalling, NumEngaged, In, Engaged

\* At the start no semaphore holds a token but hasWorker, one per worker.
LEMMA InitTokenInv == Init => TokenInv
<1> SUFFICES ASSUME Init PROVE TokenInv
  OBVIOUS
<1>1. /\ pc = [t \in Threads |-> IF t = Owner THEN "client"
                                 ELSE IF t = Dispatcher THEN "waitReady"
                                 ELSE "waitJob"]
      /\ pc[Owner] = "client" /\ pc[Dispatcher] = "waitReady"
      /\ \A w \in Workers : pc[w] = "waitJob"
  BY ThreadsAssumption DEF Init, Threads
<1>2. NumTaking = 0 /\ NumExited = 0 /\ NumSignalling = 0 /\ NumEngaged = 0
  <2>1. /\ In({"take"}) = {} /\ In({"exited"}) = {} /\ In({"signal"}) = {}
        /\ In(Engaged) = {}
    BY <1>1 DEF In, Engaged
  <2> QED BY <2>1, FS_EmptySet DEF NumTaking, NumExited, NumSignalling, NumEngaged
<1>3. /\ Len(jobQueue) = 0 /\ Len(readyQueue) = 0 /\ sent = 0
      /\ hasJob = 0 /\ jobReady = 0 /\ hasWorker = NumWorkers
  BY DEF Init
<1>4. JobTokens /\ ReadyTokens /\ WorkerTokens
  BY <1>1, <1>2, <1>3, NumWorkersType
  DEF JobTokens, ReadyTokens, WorkerTokens, Bit, At
<1>5. Calm /\ NoEarlyExit
  BY <1>1 DEF Calm, NoEarlyExit, TearingDown, At
<1> QED BY <1>4, <1>5 DEF TokenInv

\* The tokens balance after every step.
LEMMA TokensStep ==
    ASSUME IInv, TokenInv, Next
    PROVE  JobTokens' /\ ReadyTokens' /\ WorkerTokens'
<1> DEFINE Balanced == JobTokens /\ ReadyTokens /\ WorkerTokens
<1>0. TypeOK /\ Balanced
  BY DEF IInv, TokenInv
<1> USE ThreadsAssumption
<1> USE DEF At, Goto, queues, semaphores, locals, teardown
<1>1. ASSUME NEW w \in Workers, WorkerAwaitJob(w) PROVE Balanced'
  <2>1. /\ Moves(w, "waitJob", "take")
        /\ pc'[Owner] = pc[Owner]
        /\ pc'[Dispatcher] = pc[Dispatcher]
    BY <1>0, <1>1 DEF WorkerAwaitJob, Threads, TypeOK, Moves
  <2>2. /\ NumTaking' = NumTaking + 1 /\ NumExited' = NumExited
        /\ NumSignalling' = NumSignalling /\ NumEngaged' = NumEngaged
    BY <2>1, WorkerMoves, NumTypes DEF Engaged, Bit
  <2>3. /\ hasJob' = hasJob - 1 /\ jobReady' = jobReady
        /\ hasWorker' = hasWorker /\ Len(jobQueue') = Len(jobQueue)
        /\ Len(readyQueue') = Len(readyQueue) /\ sent' = sent
    BY <1>0, <1>1 DEF WorkerAwaitJob, TypeOK
  <2> QED BY <1>0, <2>1, <2>2, <2>3, NumTypes, NumWorkersType
          DEF TypeOK, JobTokens, ReadyTokens, WorkerTokens, Bit
<1>2. ASSUME NEW w \in Workers, WorkerTake(w) PROVE Balanced'
  <2>1. /\ Moves(w, "take", "run")
        /\ pc'[Owner] = pc[Owner]
        /\ pc'[Dispatcher] = pc[Dispatcher]
    BY <1>0, <1>2 DEF WorkerTake, Threads, TypeOK, Moves
  <2>2. /\ NumTaking' = NumTaking - 1 /\ NumExited' = NumExited
        /\ NumSignalling' = NumSignalling /\ NumEngaged' = NumEngaged + 1
    BY <2>1, WorkerMoves, NumTypes DEF Engaged, Bit
  <2>3. /\ hasJob' = hasJob /\ jobReady' = jobReady
        /\ hasWorker' = hasWorker /\ Len(jobQueue') = Len(jobQueue) - 1
        /\ Len(readyQueue') = Len(readyQueue) /\ sent' = sent
    BY <1>0, <1>2 DEF WorkerTake, TypeOK
  <2> QED BY <1>0, <2>1, <2>2, <2>3, NumTypes, NumWorkersType
          DEF TypeOK, JobTokens, ReadyTokens, WorkerTokens, Bit
<1>3. ASSUME NEW w \in Workers, WorkerExit(w) PROVE Balanced'
  <2>1. /\ Moves(w, "take", "exited")
        /\ pc'[Owner] = pc[Owner]
        /\ pc'[Dispatcher] = pc[Dispatcher]
    BY <1>0, <1>3 DEF WorkerExit, Threads, TypeOK, Moves
  <2>2. /\ NumTaking' = NumTaking - 1 /\ NumExited' = NumExited + 1
        /\ NumSignalling' = NumSignalling /\ NumEngaged' = NumEngaged
    BY <2>1, WorkerMoves, NumTypes DEF Engaged, Bit
  <2>3. /\ hasJob' = hasJob /\ jobReady' = jobReady
        /\ hasWorker' = hasWorker /\ Len(jobQueue') = Len(jobQueue)
        /\ Len(readyQueue') = Len(readyQueue) /\ sent' = sent
    BY <1>0, <1>3 DEF WorkerExit, TypeOK
  <2> QED BY <1>0, <2>1, <2>2, <2>3, NumTypes, NumWorkersType
          DEF TypeOK, JobTokens, ReadyTokens, WorkerTokens, Bit
<1>4. ASSUME NEW w \in Workers, WorkerReturn(w) PROVE Balanced'
  <2>1. /\ Moves(w, "run", "release")
        /\ pc'[Owner] = pc[Owner]
        /\ pc'[Dispatcher] = pc[Dispatcher]
    BY <1>0, <1>4 DEF WorkerReturn, Threads, TypeOK, Moves
  <2>2. /\ NumTaking' = NumTaking /\ NumExited' = NumExited
        /\ NumSignalling' = NumSignalling /\ NumEngaged' = NumEngaged
    BY <2>1, WorkerMoves, NumTypes DEF Engaged, Bit
  <2>3. /\ hasJob' = hasJob /\ jobReady' = jobReady
        /\ hasWorker' = hasWorker /\ Len(jobQueue') = Len(jobQueue)
        /\ Len(readyQueue') = Len(readyQueue) /\ sent' = sent
    BY <1>0, <1>4 DEF WorkerReturn, TypeOK
  <2> QED BY <1>0, <2>1, <2>2, <2>3, NumTypes, NumWorkersType
          DEF TypeOK, JobTokens, ReadyTokens, WorkerTokens, Bit
<1>5. ASSUME NEW w \in Workers, WorkerRelease(w) PROVE Balanced'
  <2>1. /\ Moves(w, "release", "discount")
        /\ pc'[Owner] = pc[Owner]
        /\ pc'[Dispatcher] = pc[Dispatcher]
    BY <1>0, <1>5 DEF WorkerRelease, Threads, TypeOK, Moves
  <2>2. /\ NumTaking' = NumTaking /\ NumExited' = NumExited
        /\ NumSignalling' = NumSignalling /\ NumEngaged' = NumEngaged - 1
    BY <2>1, WorkerMoves, NumTypes DEF Engaged, Bit
  <2>3. /\ hasJob' = hasJob /\ jobReady' = jobReady
        /\ hasWorker' = hasWorker + 1 /\ Len(jobQueue') = Len(jobQueue)
        /\ Len(readyQueue') = Len(readyQueue) /\ sent' = sent
    BY <1>0, <1>5 DEF WorkerRelease, TypeOK
  <2> QED BY <1>0, <2>1, <2>2, <2>3, NumTypes, NumWorkersType
          DEF TypeOK, JobTokens, ReadyTokens, WorkerTokens, Bit
<1>6. ASSUME NEW w \in Workers, WorkerDiscount(w) PROVE Balanced'
  <2>1. /\ Moves(w, "discount", "check")
        /\ pc'[Owner] = pc[Owner]
        /\ pc'[Dispatcher] = pc[Dispatcher]
    BY <1>0, <1>6 DEF WorkerDiscount, Threads, TypeOK, Moves
  <2>2. /\ NumTaking' = NumTaking /\ NumExited' = NumExited
        /\ NumSignalling' = NumSignalling /\ NumEngaged' = NumEngaged
    BY <2>1, WorkerMoves, NumTypes DEF Engaged, Bit
  <2>3. /\ hasJob' = hasJob /\ jobReady' = jobReady
        /\ hasWorker' = hasWorker /\ Len(jobQueue') = Len(jobQueue)
        /\ Len(readyQueue') = Len(readyQueue) /\ sent' = sent
    BY <1>0, <1>6 DEF WorkerDiscount, TypeOK
  <2> QED BY <1>0, <2>1, <2>2, <2>3, NumTypes, NumWorkersType
          DEF TypeOK, JobTokens, ReadyTokens, WorkerTokens, Bit
<1>7. ASSUME NEW w \in Workers, SchedulePush(w) PROVE Balanced'
  <2>1. /\ Moves(w, "push", "signal")
        /\ pc'[Owner] = pc[Owner]
        /\ pc'[Dispatcher] = pc[Dispatcher]
    BY <1>0, <1>7 DEF SchedulePush, Threads, TypeOK, Moves
  <2>2. /\ NumTaking' = NumTaking /\ NumExited' = NumExited
        /\ NumSignalling' = NumSignalling + 1 /\ NumEngaged' = NumEngaged
    BY <2>1, WorkerMoves, NumTypes DEF Engaged, Bit
  <2>3. /\ hasJob' = hasJob /\ jobReady' = jobReady
        /\ hasWorker' = hasWorker /\ Len(jobQueue') = Len(jobQueue)
        /\ Len(readyQueue') = Len(readyQueue) + 1 /\ sent' = sent
    BY <1>0, <1>7 DEF SchedulePush, TypeOK
  <2>4. /\ Len(jobQueue) \in Nat /\ Len(readyQueue) \in Nat /\ sent \in Nat
        /\ hasJob \in Nat /\ jobReady \in Nat /\ hasWorker \in Nat
    BY <1>0, NumWorkersType DEF TypeOK
  <2>5. JobTokens'
    BY <1>0, <2>1, <2>2, <2>3, <2>4, NumTypes DEF JobTokens, Bit
  <2>6. ReadyTokens'
    BY <1>0, <2>1, <2>2, <2>3, <2>4, NumTypes DEF ReadyTokens, Bit
  <2>7. WorkerTokens'
    BY <1>0, <2>1, <2>2, <2>3, <2>4, NumTypes, NumWorkersType DEF WorkerTokens, Bit
  <2> QED BY <2>5, <2>6, <2>7
<1>8. ASSUME NEW w \in Workers, ScheduleSignal(w) PROVE Balanced'
  <2>1. /\ Moves(w, "signal", "run")
        /\ pc'[Owner] = pc[Owner]
        /\ pc'[Dispatcher] = pc[Dispatcher]
    BY <1>0, <1>8 DEF ScheduleSignal, Threads, TypeOK, Moves, Outside
  <2>2. /\ NumTaking' = NumTaking /\ NumExited' = NumExited
        /\ NumSignalling' = NumSignalling - 1 /\ NumEngaged' = NumEngaged
    BY <2>1, WorkerMoves, NumTypes DEF Engaged, Bit
  <2>3. /\ hasJob' = hasJob /\ jobReady' = jobReady + 1
        /\ hasWorker' = hasWorker /\ Len(jobQueue') = Len(jobQueue)
        /\ Len(readyQueue') = Len(readyQueue) /\ sent' = sent
    BY <1>0, <1>8 DEF ScheduleSignal, TypeOK
  <2> QED BY <1>0, <2>1, <2>2, <2>3, NumTypes, NumWorkersType
          DEF TypeOK, JobTokens, ReadyTokens, WorkerTokens, Bit
<1>9. ASSUME NEW w \in Workers, NEW j \in Jobs, ScheduleCount(w, j) PROVE Balanced'
  <2>1. /\ Moves(w, "run", "push")
        /\ pc'[Owner] = pc[Owner]
        /\ pc'[Dispatcher] = pc[Dispatcher]
    BY <1>0, <1>9 DEF ScheduleCount, Threads, TypeOK, Moves, Outside
  <2>2. /\ NumTaking' = NumTaking /\ NumExited' = NumExited
        /\ NumSignalling' = NumSignalling /\ NumEngaged' = NumEngaged
    BY <2>1, WorkerMoves, NumTypes DEF Engaged, Bit
  <2>3. /\ hasJob' = hasJob /\ jobReady' = jobReady
        /\ hasWorker' = hasWorker /\ Len(jobQueue') = Len(jobQueue)
        /\ Len(readyQueue') = Len(readyQueue) /\ sent' = sent
    BY <1>0, <1>9 DEF ScheduleCount, TypeOK
  <2> QED BY <1>0, <2>1, <2>2, <2>3, NumTypes, NumWorkersType
          DEF TypeOK, JobTokens, ReadyTokens, WorkerTokens, Bit
<1>10. ASSUME NEW w \in Workers, WorkerCheck(w) PROVE Balanced'
  <2>1. /\ Moves(w, "check", "notify") \/ Moves(w, "check", "waitJob")
        /\ pc'[Owner] = pc[Owner]
        /\ pc'[Dispatcher] = pc[Dispatcher]
    BY <1>0, <1>10 DEF WorkerCheck, Threads, TypeOK, Moves
  <2>2. /\ NumTaking' = NumTaking /\ NumExited' = NumExited
        /\ NumSignalling' = NumSignalling /\ NumEngaged' = NumEngaged
    BY <2>1, WorkerMoves, NumTypes DEF Engaged, Bit
  <2>3. /\ hasJob' = hasJob /\ jobReady' = jobReady
        /\ hasWorker' = hasWorker /\ Len(jobQueue') = Len(jobQueue)
        /\ Len(readyQueue') = Len(readyQueue) /\ sent' = sent
    BY <1>0, <1>10 DEF WorkerCheck, TypeOK
  <2> QED BY <1>0, <2>1, <2>2, <2>3, NumTypes, NumWorkersType
          DEF TypeOK, JobTokens, ReadyTokens, WorkerTokens, Bit
<1>11. ASSUME NEW w \in Workers, WorkerNotify(w) PROVE Balanced'
  <2>1. /\ Moves(w, "notify", "waitJob")
        /\ pc'[Owner] = IF pc[Owner] = "asleep" THEN "test" ELSE pc[Owner]
        /\ pc'[Dispatcher] = pc[Dispatcher]
    BY <1>0, <1>11 DEF WorkerNotify, Threads, TypeOK, Moves
  <2>2. /\ NumTaking' = NumTaking /\ NumExited' = NumExited
        /\ NumSignalling' = NumSignalling /\ NumEngaged' = NumEngaged
    BY <2>1, WorkerMoves, NumTypes DEF Engaged, Bit
  <2>3. /\ hasJob' = hasJob /\ jobReady' = jobReady
        /\ hasWorker' = hasWorker /\ Len(jobQueue') = Len(jobQueue)
        /\ Len(readyQueue') = Len(readyQueue) /\ sent' = sent
    BY <1>0, <1>11 DEF WorkerNotify, TypeOK
  <2> QED BY <1>0, <2>1, <2>2, <2>3, NumTypes, NumWorkersType
          DEF TypeOK, JobTokens, ReadyTokens, WorkerTokens, Bit
<1>12. CASE DispatcherAwaitJob
  <2>1. /\ pc[Dispatcher] = "waitReady" /\ pc'[Dispatcher] = "waitWorker"
        /\ pc'[Owner] = pc[Owner] /\ \A v \in Workers : pc'[v] = pc[v]
    BY <1>0, <1>12 DEF DispatcherAwaitJob, Threads, TypeOK
  <2>2. /\ NumTaking' = NumTaking /\ NumExited' = NumExited
        /\ NumSignalling' = NumSignalling /\ NumEngaged' = NumEngaged
    BY <2>1, WorkersStay
  <2>3. /\ hasJob' = hasJob /\ jobReady' = jobReady - 1
        /\ hasWorker' = hasWorker /\ Len(jobQueue') = Len(jobQueue)
        /\ Len(readyQueue') = Len(readyQueue) /\ sent' = sent
    BY <1>0, <1>12 DEF DispatcherAwaitJob, TypeOK
  <2> QED BY <1>0, <2>1, <2>2, <2>3, NumTypes, NumWorkersType
          DEF TypeOK, JobTokens, ReadyTokens, WorkerTokens, Bit
<1>13. CASE DispatcherAwaitWorker
  <2>1. /\ pc[Dispatcher] = "waitWorker" /\ pc'[Dispatcher] = "move"
        /\ pc'[Owner] = pc[Owner] /\ \A v \in Workers : pc'[v] = pc[v]
    BY <1>0, <1>13 DEF DispatcherAwaitWorker, Threads, TypeOK
  <2>2. /\ NumTaking' = NumTaking /\ NumExited' = NumExited
        /\ NumSignalling' = NumSignalling /\ NumEngaged' = NumEngaged
    BY <2>1, WorkersStay
  <2>3. /\ hasJob' = hasJob /\ jobReady' = jobReady
        /\ hasWorker' = hasWorker - 1 /\ Len(jobQueue') = Len(jobQueue)
        /\ Len(readyQueue') = Len(readyQueue) /\ sent' = sent
    BY <1>0, <1>13 DEF DispatcherAwaitWorker, TypeOK
  <2> QED BY <1>0, <2>1, <2>2, <2>3, NumTypes, NumWorkersType
          DEF TypeOK, JobTokens, ReadyTokens, WorkerTokens, Bit
<1>14. CASE DispatcherMove
  <2>1. /\ pc[Dispatcher] = "move" /\ pc'[Dispatcher] = "signalJob"
        /\ pc'[Owner] = pc[Owner] /\ \A v \in Workers : pc'[v] = pc[v]
    BY <1>0, <1>14 DEF DispatcherMove, Threads, TypeOK
  <2>2. /\ NumTaking' = NumTaking /\ NumExited' = NumExited
        /\ NumSignalling' = NumSignalling /\ NumEngaged' = NumEngaged
    BY <2>1, WorkersStay
  <2>3. /\ hasJob' = hasJob /\ jobReady' = jobReady
        /\ hasWorker' = hasWorker /\ Len(jobQueue') = Len(jobQueue) + 1
        /\ Len(readyQueue') = Len(readyQueue) - 1 /\ sent' = sent
    BY <1>0, <1>14 DEF DispatcherMove, TypeOK
  <2>4. /\ Len(jobQueue) \in Nat /\ Len(readyQueue) \in Nat /\ sent \in Nat
        /\ hasJob \in Nat /\ jobReady \in Nat /\ hasWorker \in Nat
    BY <1>0, NumWorkersType DEF TypeOK
  <2>5. JobTokens'
    BY <1>0, <2>1, <2>2, <2>3, <2>4, NumTypes DEF JobTokens, Bit
  <2>6. ReadyTokens'
    BY <1>0, <2>1, <2>2, <2>3, <2>4, NumTypes DEF ReadyTokens, Bit
  <2>7. WorkerTokens'
    BY <1>0, <2>1, <2>2, <2>3, <2>4, NumTypes, NumWorkersType DEF WorkerTokens, Bit
  <2> QED BY <2>5, <2>6, <2>7
<1>15. CASE DispatcherExit
  <2>1. /\ pc[Dispatcher] = "move" /\ pc'[Dispatcher] = "exited"
        /\ pc'[Owner] = pc[Owner] /\ \A v \in Workers : pc'[v] = pc[v]
    BY <1>0, <1>15 DEF DispatcherExit, Threads, TypeOK
  <2>2. /\ NumTaking' = NumTaking /\ NumExited' = NumExited
        /\ NumSignalling' = NumSignalling /\ NumEngaged' = NumEngaged
    BY <2>1, WorkersStay
  <2>3. /\ hasJob' = hasJob /\ jobReady' = jobReady
        /\ hasWorker' = hasWorker /\ Len(jobQueue') = Len(jobQueue)
        /\ Len(readyQueue') = Len(readyQueue) /\ sent' = sent
    BY <1>0, <1>15 DEF DispatcherExit, TypeOK
  <2> QED BY <1>0, <2>1, <2>2, <2>3, NumTypes, NumWorkersType
          DEF TypeOK, JobTokens, ReadyTokens, WorkerTokens, Bit
<1>16. CASE DispatcherSignal
  <2>1. /\ pc[Dispatcher] = "signalJob" /\ pc'[Dispatcher] = "waitReady"
        /\ pc'[Owner] = pc[Owner] /\ \A v \in Workers : pc'[v] = pc[v]
    BY <1>0, <1>16 DEF DispatcherSignal, Threads, TypeOK
  <2>2. /\ NumTaking' = NumTaking /\ NumExited' = NumExited
        /\ NumSignalling' = NumSignalling /\ NumEngaged' = NumEngaged
    BY <2>1, WorkersStay
  <2>3. /\ hasJob' = hasJob + 1 /\ jobReady' = jobReady
        /\ hasWorker' = hasWorker /\ Len(jobQueue') = Len(jobQueue)
        /\ Len(readyQueue') = Len(readyQueue) /\ sent' = sent
    BY <1>0, <1>16 DEF DispatcherSignal, TypeOK
  <2> QED BY <1>0, <2>1, <2>2, <2>3, NumTypes, NumWorkersType
          DEF TypeOK, JobTokens, ReadyTokens, WorkerTokens, Bit
<1>17. CASE SchedulePush(Owner)
  <2>1. /\ pc[Owner] = "push" /\ pc'[Owner] = "signal"
        /\ pc'[Dispatcher] = pc[Dispatcher] /\ \A v \in Workers : pc'[v] = pc[v]
    BY <1>0, <1>17 DEF SchedulePush, Threads, TypeOK
  <2>2. /\ NumTaking' = NumTaking /\ NumExited' = NumExited
        /\ NumSignalling' = NumSignalling /\ NumEngaged' = NumEngaged
    BY <2>1, WorkersStay
  <2>3. /\ hasJob' = hasJob /\ jobReady' = jobReady
        /\ hasWorker' = hasWorker /\ Len(jobQueue') = Len(jobQueue)
        /\ Len(readyQueue') = Len(readyQueue) + 1 /\ sent' = sent
    BY <1>0, <1>17 DEF SchedulePush, TypeOK
  <2> QED BY <1>0, <2>1, <2>2, <2>3, NumTypes, NumWorkersType
          DEF TypeOK, JobTokens, ReadyTokens, WorkerTokens, Bit
<1>18. CASE ScheduleSignal(Owner)
  <2>1. /\ pc[Owner] = "signal" /\ pc'[Owner] = "client"
        /\ pc'[Dispatcher] = pc[Dispatcher] /\ \A v \in Workers : pc'[v] = pc[v]
    BY <1>0, <1>18 DEF ScheduleSignal, Threads, TypeOK, Outside
  <2>2. /\ NumTaking' = NumTaking /\ NumExited' = NumExited
        /\ NumSignalling' = NumSignalling /\ NumEngaged' = NumEngaged
    BY <2>1, WorkersStay
  <2>3. /\ hasJob' = hasJob /\ jobReady' = jobReady + 1
        /\ hasWorker' = hasWorker /\ Len(jobQueue') = Len(jobQueue)
        /\ Len(readyQueue') = Len(readyQueue) /\ sent' = sent
    BY <1>0, <1>18 DEF ScheduleSignal, TypeOK
  <2> QED BY <1>0, <2>1, <2>2, <2>3, NumTypes, NumWorkersType
          DEF TypeOK, JobTokens, ReadyTokens, WorkerTokens, Bit
<1>19. CASE CallWait
  <2>1. /\ pc[Owner] = "client" /\ pc'[Owner] = "test"
        /\ pc'[Dispatcher] = pc[Dispatcher] /\ \A v \in Workers : pc'[v] = pc[v]
    BY <1>0, <1>19 DEF CallWait, Threads, TypeOK
  <2>2. /\ NumTaking' = NumTaking /\ NumExited' = NumExited
        /\ NumSignalling' = NumSignalling /\ NumEngaged' = NumEngaged
    BY <2>1, WorkersStay
  <2>3. /\ hasJob' = hasJob /\ jobReady' = jobReady
        /\ hasWorker' = hasWorker /\ Len(jobQueue') = Len(jobQueue)
        /\ Len(readyQueue') = Len(readyQueue) /\ sent' = sent
    BY <1>0, <1>19 DEF CallWait, TypeOK
  <2> QED BY <1>0, <2>1, <2>2, <2>3, NumTypes, NumWorkersType
          DEF TypeOK, JobTokens, ReadyTokens, WorkerTokens, Bit
<1>20. CASE WaitTest
  <2>1. /\ pc[Owner] = "test" /\ pc'[Owner] \in {"block", "endJobs", "client"}
        /\ pc'[Dispatcher] = pc[Dispatcher] /\ \A v \in Workers : pc'[v] = pc[v]
    BY <1>0, <1>20 DEF WaitTest, Threads, TypeOK, AfterWait
  <2>2. /\ NumTaking' = NumTaking /\ NumExited' = NumExited
        /\ NumSignalling' = NumSignalling /\ NumEngaged' = NumEngaged
    BY <2>1, WorkersStay
  <2>3. /\ hasJob' = hasJob /\ jobReady' = jobReady
        /\ hasWorker' = hasWorker /\ Len(jobQueue') = Len(jobQueue)
        /\ Len(readyQueue') = Len(readyQueue) /\ sent' = sent
    BY <1>0, <1>20 DEF WaitTest, TypeOK
  <2> QED BY <1>0, <2>1, <2>2, <2>3, NumTypes, NumWorkersType
          DEF TypeOK, JobTokens, ReadyTokens, WorkerTokens, Bit
<1>21. CASE WaitBlock
  <2>1. /\ pc[Owner] = "block" /\ pc'[Owner] = "asleep"
        /\ pc'[Dispatcher] = pc[Dispatcher] /\ \A v \in Workers : pc'[v] = pc[v]
    BY <1>0, <1>21 DEF WaitBlock, Threads, TypeOK
  <2>2. /\ NumTaking' = NumTaking /\ NumExited' = NumExited
        /\ NumSignalling' = NumSignalling /\ NumEngaged' = NumEngaged
    BY <2>1, WorkersStay
  <2>3. /\ hasJob' = hasJob /\ jobReady' = jobReady
        /\ hasWorker' = hasWorker /\ Len(jobQueue') = Len(jobQueue)
        /\ Len(readyQueue') = Len(readyQueue) /\ sent' = sent
    BY <1>0, <1>21 DEF WaitBlock, TypeOK
  <2> QED BY <1>0, <2>1, <2>2, <2>3, NumTypes, NumWorkersType
          DEF TypeOK, JobTokens, ReadyTokens, WorkerTokens, Bit
<1>22. CASE SpuriousWakeup
  <2>1. /\ pc[Owner] = "asleep" /\ pc'[Owner] = "test"
        /\ pc'[Dispatcher] = pc[Dispatcher] /\ \A v \in Workers : pc'[v] = pc[v]
    BY <1>0, <1>22 DEF SpuriousWakeup, Threads, TypeOK
  <2>2. /\ NumTaking' = NumTaking /\ NumExited' = NumExited
        /\ NumSignalling' = NumSignalling /\ NumEngaged' = NumEngaged
    BY <2>1, WorkersStay
  <2>3. /\ hasJob' = hasJob /\ jobReady' = jobReady
        /\ hasWorker' = hasWorker /\ Len(jobQueue') = Len(jobQueue)
        /\ Len(readyQueue') = Len(readyQueue) /\ sent' = sent
    BY <1>0, <1>22 DEF SpuriousWakeup, TypeOK
  <2> QED BY <1>0, <2>1, <2>2, <2>3, NumTypes, NumWorkersType
          DEF TypeOK, JobTokens, ReadyTokens, WorkerTokens, Bit
<1>23. CASE CallDestructor
  <2>1. /\ pc[Owner] = "client" /\ pc'[Owner] = "test"
        /\ pc'[Dispatcher] = pc[Dispatcher] /\ \A v \in Workers : pc'[v] = pc[v]
    BY <1>0, <1>23 DEF CallDestructor, Threads, TypeOK
  <2>2. /\ NumTaking' = NumTaking /\ NumExited' = NumExited
        /\ NumSignalling' = NumSignalling /\ NumEngaged' = NumEngaged
    BY <2>1, WorkersStay
  <2>3. /\ hasJob' = hasJob /\ jobReady' = jobReady
        /\ hasWorker' = hasWorker /\ Len(jobQueue') = Len(jobQueue)
        /\ Len(readyQueue') = Len(readyQueue) /\ sent' = sent
    BY <1>0, <1>23 DEF CallDestructor, TypeOK
  <2> QED BY <1>0, <2>1, <2>2, <2>3, NumTypes, NumWorkersType
          DEF TypeOK, JobTokens, ReadyTokens, WorkerTokens, Bit
<1>24. CASE EndSignalWorker
  <2>1. /\ pc[Owner] = "endJobs" /\ pc'[Owner] \in {"endJobs", "endReady"}
        /\ pc'[Dispatcher] = pc[Dispatcher] /\ \A v \in Workers : pc'[v] = pc[v]
    BY <1>0, <1>24 DEF EndSignalWorker, Threads, TypeOK
  <2>2. /\ NumTaking' = NumTaking /\ NumExited' = NumExited
        /\ NumSignalling' = NumSignalling /\ NumEngaged' = NumEngaged
    BY <2>1, WorkersStay
  <2>3. /\ hasJob' = hasJob + 1 /\ jobReady' = jobReady
        /\ hasWorker' = hasWorker /\ Len(jobQueue') = Len(jobQueue)
        /\ Len(readyQueue') = Len(readyQueue) /\ sent' = sent + 1
    BY <1>0, <1>24 DEF EndSignalWorker, TypeOK
  <2>4. /\ Len(jobQueue) \in Nat /\ Len(readyQueue) \in Nat /\ sent \in Nat
        /\ hasJob \in Nat /\ jobReady \in Nat /\ hasWorker \in Nat
    BY <1>0, NumWorkersType DEF TypeOK
  <2>5. JobTokens'
    BY <1>0, <2>1, <2>2, <2>3, <2>4, NumTypes DEF JobTokens, Bit
  <2>6. ReadyTokens'
    BY <1>0, <2>1, <2>2, <2>3, <2>4, NumTypes DEF ReadyTokens, Bit
  <2>7. WorkerTokens'
    BY <1>0, <2>1, <2>2, <2>3, <2>4, NumTypes, NumWorkersType DEF WorkerTokens, Bit
  <2> QED BY <2>5, <2>6, <2>7
<1>25. CASE EndSignalDispatcher
  <2>1. /\ pc[Owner] = "endReady" /\ pc'[Owner] = "joinDispatcher"
        /\ pc'[Dispatcher] = pc[Dispatcher] /\ \A v \in Workers : pc'[v] = pc[v]
    BY <1>0, <1>25 DEF EndSignalDispatcher, Threads, TypeOK
  <2>2. /\ NumTaking' = NumTaking /\ NumExited' = NumExited
        /\ NumSignalling' = NumSignalling /\ NumEngaged' = NumEngaged
    BY <2>1, WorkersStay
  <2>3. /\ hasJob' = hasJob /\ jobReady' = jobReady + 1
        /\ hasWorker' = hasWorker /\ Len(jobQueue') = Len(jobQueue)
        /\ Len(readyQueue') = Len(readyQueue) /\ sent' = sent
    BY <1>0, <1>25 DEF EndSignalDispatcher, TypeOK
  <2> QED BY <1>0, <2>1, <2>2, <2>3, NumTypes, NumWorkersType
          DEF TypeOK, JobTokens, ReadyTokens, WorkerTokens, Bit
<1>26. CASE JoinDispatcher
  <2>1. /\ pc[Owner] = "joinDispatcher" /\ pc'[Owner] = "joinWorkers"
        /\ pc'[Dispatcher] = pc[Dispatcher] /\ \A v \in Workers : pc'[v] = pc[v]
    BY <1>0, <1>26 DEF JoinDispatcher, Threads, TypeOK
  <2>2. /\ NumTaking' = NumTaking /\ NumExited' = NumExited
        /\ NumSignalling' = NumSignalling /\ NumEngaged' = NumEngaged
    BY <2>1, WorkersStay
  <2>3. /\ hasJob' = hasJob /\ jobReady' = jobReady
        /\ hasWorker' = hasWorker /\ Len(jobQueue') = Len(jobQueue)
        /\ Len(readyQueue') = Len(readyQueue) /\ sent' = sent
    BY <1>0, <1>26 DEF JoinDispatcher, TypeOK
  <2> QED BY <1>0, <2>1, <2>2, <2>3, NumTypes, NumWorkersType
          DEF TypeOK, JobTokens, ReadyTokens, WorkerTokens, Bit
<1>27. CASE JoinWorkers
  <2>1. /\ pc[Owner] = "joinWorkers" /\ pc'[Owner] = "gone"
        /\ pc'[Dispatcher] = pc[Dispatcher] /\ \A v \in Workers : pc'[v] = pc[v]
    BY <1>0, <1>27 DEF JoinWorkers, Threads, TypeOK
  <2>2. /\ NumTaking' = NumTaking /\ NumExited' = NumExited
        /\ NumSignalling' = NumSignalling /\ NumEngaged' = NumEngaged
    BY <2>1, WorkersStay
  <2>3. /\ hasJob' = hasJob /\ jobReady' = jobReady
        /\ hasWorker' = hasWorker /\ Len(jobQueue') = Len(jobQueue)
        /\ Len(readyQueue') = Len(readyQueue) /\ sent' = sent
    BY <1>0, <1>27 DEF JoinWorkers, TypeOK
  <2> QED BY <1>0, <2>1, <2>2, <2>3, NumTypes, NumWorkersType
          DEF TypeOK, JobTokens, ReadyTokens, WorkerTokens, Bit
<1>28. ASSUME NEW j \in Jobs, ScheduleCount(Owner, j) PROVE Balanced'
  <2>1. /\ pc[Owner] = "client" /\ pc'[Owner] = "push"
        /\ pc'[Dispatcher] = pc[Dispatcher] /\ \A v \in Workers : pc'[v] = pc[v]
    BY <1>0, <1>28 DEF ScheduleCount, Threads, TypeOK, Outside
  <2>2. /\ NumTaking' = NumTaking /\ NumExited' = NumExited
        /\ NumSignalling' = NumSignalling /\ NumEngaged' = NumEngaged
    BY <2>1, WorkersStay
  <2>3. /\ hasJob' = hasJob /\ jobReady' = jobReady
        /\ hasWorker' = hasWorker /\ Len(jobQueue') = Len(jobQueue)
        /\ Len(readyQueue') = Len(readyQueue) /\ sent' = sent
    BY <1>0, <1>28 DEF ScheduleCount, TypeOK
  <2> QED BY <1>0, <2>1, <2>2, <2>3, NumTypes, NumWorkersType
          DEF TypeOK, JobTokens, ReadyTokens, WorkerTokens, Bit
<1> QED
  BY <1>1, <1>2, <1>3, <1>4, <1>5, <1>6, <1>7, <1>8, <1>9, <1>10, <1>11,
     <1>12, <1>13, <1>14, <1>15, <1>16, <1>17, <1>18, <1>19, <1>20,
     <1>21, <1>22, <1>23, <1>24, <1>25, <1>26, <1>27, <1>28
  DEF Next, Choice, DispatcherStep, WorkerStep, OwnerStep, Schedule, Callers

\* The owner enters the tear-down phase only from wait() with jobNum zero, and
\* never leaves it.
LEMMA TearingDownStep ==
    ASSUME IInv, Next
    PROVE  /\ TearingDown => TearingDown'
           /\ TearingDown' => TearingDown \/ (jobNum = 0 /\ UNCHANGED stage)
<1> USE ThreadsAssumption
<1> USE DEF IInv, TypeOK, TearingDown, At, Goto, Threads, Callers
<1>1. CASE WaitTest
  BY <1>1 DEF WaitTest
<1>2. CASE OwnerStep /\ ~WaitTest
  BY <1>2 DEF OwnerStep, Schedule, SchedulePush, ScheduleSignal, Outside, WaitBlock,
        EndSignalWorker, EndSignalDispatcher, JoinDispatcher, JoinWorkers
<1>3. CASE Choice
  BY <1>3 DEF Choice, ScheduleCount, Outside, CallWait, CallDestructor, SpuriousWakeup
<1>4. CASE DispatcherStep
  BY <1>4 DEF DispatcherStep, DispatcherAwaitJob, DispatcherAwaitWorker,
        DispatcherMove, DispatcherExit, DispatcherSignal
<1>5. ASSUME NEW w \in Workers, WorkerStep(w) PROVE TearingDown' = TearingDown
  BY <1>5 DEF WorkerStep, WorkerAwaitJob, WorkerTake, WorkerExit, WorkerReturn,
        WorkerRelease, WorkerDiscount, WorkerCheck, WorkerNotify,
        Schedule, SchedulePush, ScheduleSignal, Outside
<1> QED BY <1>1, <1>2, <1>3, <1>4, <1>5 DEF Next

\* Once the destructor is past its wait() no thunk appears any more.
LEMMA CalmStep ==
    ASSUME IInv, Calm, Next
    PROVE  Calm'
<1>1. CASE ~TearingDown'
  BY <1>1 DEF Calm
<1>2. CASE TearingDown' /\ ~TearingDown
  <2>1. jobNum = 0 /\ UNCHANGED stage
    BY <1>2, TearingDownStep
  <2> QED BY <2>1, ZeroMeansQuiet DEF Calm, Outstanding
<1>3. CASE TearingDown
  <2>1. Outstanding = {} /\ jobNum = 0
    BY <1>3, OutstandingFinite, FS_EmptySet DEF Calm, IInv, JobNumCounts
  <2>2. /\ readyQueue = <<>> /\ jobQueue = <<>>
        /\ \A w \in Workers : pc[w] \notin Busy
    BY <2>1, ZeroMeansQuiet
  <2>3. pc[Owner] \notin {"client", "push"}
    BY <1>3 DEF TearingDown
  <2>4. UNCHANGED stage
    BY <2>2, <2>3
    DEF Next, Choice, DispatcherStep, WorkerStep, OwnerStep, Schedule, Callers,
        At, Busy, Outside, ScheduleCount, SchedulePush, ScheduleSignal, CallWait,
        WaitTest, WaitBlock, SpuriousWakeup, DispatcherAwaitJob,
        DispatcherAwaitWorker, DispatcherMove, DispatcherExit, DispatcherSignal,
        WorkerAwaitJob, WorkerTake, WorkerExit, WorkerReturn, WorkerRelease,
        WorkerDiscount, WorkerCheck, WorkerNotify, CallDestructor,
        EndSignalWorker, EndSignalDispatcher, JoinDispatcher, JoinWorkers
  <2> QED BY <2>1, <2>4 DEF Calm, Outstanding
<1> QED BY <1>1, <1>2, <1>3

\* A thread that is about to leave its loop holds a token for which there is
\* no thunk: one of the destructor's.
LEMMA ExitStep ==
    ASSUME IInv, TokenInv, Next
    PROVE  NoEarlyExit'
<1> USE ThreadsAssumption
<1>1. ASSUME DispatcherExit PROVE TearingDown
  <2>1. /\ Len(readyQueue) = 0 /\ jobReady \in Nat /\ NumSignalling \in Nat
        /\ pc[Dispatcher] = "move"
    BY <1>1, NumTypes DEF DispatcherExit, At, IInv, TypeOK
  <2>2. pc[Owner] \in {"joinDispatcher", "joinWorkers", "gone"}
    BY <2>1 DEF TokenInv, ReadyTokens, Bit
  <2> QED BY <2>2 DEF TearingDown
<1>2. ASSUME NEW w \in Workers, WorkerExit(w) PROVE TearingDown
  <2>1. Len(jobQueue) = 0 /\ pc[w] = "take" /\ hasJob \in Nat /\ sent \in Nat
    BY <1>2, NumWorkersType DEF WorkerExit, At, IInv, TypeOK
  <2>2. NumTaking # 0
    <3>1. w \in In({"take"}) /\ In({"take"}) \subseteq Workers
      BY <2>1 DEF In
    <3>2. IsFiniteSet(In({"take"}))
      BY <3>1, WorkersAssumption, FS_Subset
    <3> QED BY <3>1, <3>2, FS_EmptySet DEF NumTaking
  <2>3. sent # 0
    BY <2>1, <2>2, NumTypes DEF TokenInv, JobTokens, Bit
  <2> QED BY <2>3 DEF IInv, SentBound, At, TearingDown
<1>3. ASSUME NEW t \in Workers \cup {Dispatcher}, pc'[t] = "exited"
      PROVE  TearingDown
  <2>1. CASE pc[t] = "exited"
    BY <2>1 DEF TokenInv, NoEarlyExit, At
  <2>2. CASE pc[t] # "exited"
    <3>1. DispatcherExit \/ \E w \in Workers : WorkerExit(w)
      BY <1>3, <2>2
      DEF IInv, TypeOK, Next, Choice, DispatcherStep, WorkerStep, OwnerStep,
        Schedule, Callers, Threads, At, Goto, Outside, AfterWait, ScheduleCount,
        SchedulePush, ScheduleSignal, CallWait, WaitTest, WaitBlock,
        SpuriousWakeup, DispatcherAwaitJob, DispatcherAwaitWorker,
        DispatcherMove, DispatcherSignal, WorkerAwaitJob, WorkerTake,
        WorkerReturn, WorkerRelease, WorkerDiscount, WorkerCheck, WorkerNotify,
        CallDestructor, EndSignalWorker, EndSignalDispatcher, JoinDispatcher,
        JoinWorkers
    <3> QED BY <3>1, <1>1, <1>2
  <2> QED BY <2>1, <2>2
<1>4. Calm'
  BY CalmStep DEF TokenInv
<1> QED BY <1>3, <1>4, TearingDownStep DEF NoEarlyExit, Calm, At

\* Together with IInv the token invariant is inductive.
LEMMA TokenInvStep == IInv /\ TokenInv /\ [Next]_vars => TokenInv'
<1>1. ASSUME IInv, TokenInv, Next PROVE TokenInv'
  BY <1>1, TokensStep, CalmStep, ExitStep DEF TokenInv
<1>2. ASSUME TokenInv, UNCHANGED vars PROVE TokenInv'
  BY <1>2 DEF vars, TokenInv, JobTokens, ReadyTokens, WorkerTokens, Calm,
       NoEarlyExit, NumTaking, NumExited, NumSignalling, NumEngaged, In,
       Engaged, Bit, At, TearingDown, Outstanding
<1> QED BY <1>1, <1>2

\* The token invariant holds in every state the pool can reach.
THEOREM TokenInvHolds == Spec => []TokenInv
BY InitTokenInv, IInvHolds, IInvStep, TokenInvStep, PTL DEF Spec

\* No thread of the pool leaves its loop before the destructor has nothing
\* left to wait for.
THEOREM NoEarlyExitCorrect == Spec => []NoEarlyExit
BY TokenInvHolds, PTL DEF TokenInv

\* Dispatched and executing thunks never outnumber the workers.
THEOREM DispatchCorrect == Spec => []DispatchedHaveWorkers
<1>1. IInv /\ TokenInv => DispatchedHaveWorkers
  <2> SUFFICES ASSUME IInv, TokenInv PROVE DispatchedHaveWorkers
    OBVIOUS
  <2>1. hasWorker \in Nat /\ Len(jobQueue) \in Nat
    BY DEF IInv, TypeOK
  <2>2. Len(jobQueue) + NumEngaged <= NumWorkers
    BY <2>1, NumTypes, NumWorkersType DEF TokenInv, WorkerTokens, Bit
  <2> QED BY <2>2 DEF DispatchedHaveWorkers, NumEngaged, In, Engaged
<1> QED BY <1>1, IInvHolds, TokenInvHolds, PTL

-----------------------------------------------------------------------------
(* The pool implements the abstract executor.                              *)

\* The destructor is entered once, and no other call is made after it.
ClosingInv == pc[Owner] \in {"client", "push", "signal"} => ~closing

\* Every step keeps ClosingInv.
LEMMA ClosingStep == IInv /\ ClosingInv /\ [Next]_vars => ClosingInv'
<1> SUFFICES ASSUME IInv, ClosingInv, [Next]_vars PROVE ClosingInv'
  OBVIOUS
<1> USE ThreadsAssumption
<1> USE DEF IInv, TypeOK, ClosingInv, At, Goto, Threads, Callers, teardown
<1>1. CASE DispatcherStep
  BY <1>1 DEF DispatcherStep, DispatcherAwaitJob, DispatcherAwaitWorker, DispatcherMove,
         DispatcherExit, DispatcherSignal
<1>2. ASSUME NEW c \in Callers, Schedule(c) PROVE ClosingInv'
  BY <1>2 DEF Schedule, SchedulePush, ScheduleSignal, Outside
<1>3. ASSUME NEW w \in Workers, WorkerStep(w), ~Schedule(w) PROVE ClosingInv'
  BY <1>3 DEF WorkerStep, WorkerAwaitJob, WorkerTake, WorkerExit, WorkerReturn, WorkerRelease,
         WorkerDiscount, WorkerCheck, WorkerNotify
<1>4. CASE OwnerStep
  BY <1>2, <1>4 DEF OwnerStep, WaitTest, AfterWait, WaitBlock, EndSignalWorker,
         EndSignalDispatcher, JoinDispatcher, JoinWorkers
<1>5. CASE Choice
  BY <1>5 DEF Choice, ScheduleCount, Outside, CallWait, CallDestructor, SpuriousWakeup
<1>6. CASE UNCHANGED vars
  BY <1>6 DEF vars
<1> QED
  BY <1>1, <1>2, <1>3, <1>4, <1>5, <1>6 DEF Next, Callers

\* The thunks in execution are fewer than the workers while one is free.
LEMMA RunningFewer ==
    ASSUME IInv, NEW w \in Workers, job[w] = NoJob
    PROVE  Cardinality(Running) < NumWorkers
<1> DEFINE Others == Workers \ {w}
           Image == {job[v] : v \in Others}
<1>1. IsFiniteSet(Others) /\ Cardinality(Others) = NumWorkers - 1
  BY WorkersAssumption, FS_RemoveElement DEF NumWorkers
<1>2. IsFiniteSet(Image) /\ Cardinality(Image) <= Cardinality(Others)
  <2> DEFINE f == [v \in Others |-> job[v]]
  <2>1. f \in Surjection(Others, Image)
    BY DEF Surjection
  <2> HIDE DEF f, Image, Others
  <2> QED
    BY <1>1, <2>1, FS_Surjection
<1>3. Running \subseteq Image
  BY DEF Running
<1> HIDE DEF Image, Others
<1>4. Cardinality(Running) <= Cardinality(Image)
  BY <1>2, <1>3, FS_Subset
<1>5. /\ Cardinality(Running) \in Nat /\ Cardinality(Image) \in Nat /\ NumWorkers \in Nat
  BY <1>2, <1>3, FS_Subset, FS_CardinalityType, NumWorkersType
<1> QED
  BY <1>1, <1>2, <1>4, <1>5

\* What the pool looks like does not change when a thread only moves on.
LEMMA OnlyMoves ==
    ASSUME UNCHANGED <<Queued, Running, Finished, Client>>
    PROVE  [Executor!Next]_(Executor!vars)
BY DEF Executor!vars

\* The first of one queue moves to the end of the queue before it.
LEMMA HeadMoves ==
    ASSUME NEW S, NEW p \in Seq(S), NEW q \in Seq(S), q # <<>>
    PROVE  Append(p, Head(q)) \o Tail(q) = p \o q
<1> DEFINE a == Append(p, Head(q)) \o Tail(q)
           b == p \o q
<1>1. /\ Len(p) \in Nat /\ Len(q) \in Nat \ {0} /\ Head(q) = q[1] /\ Head(q) \in S
      /\ Tail(q) \in Seq(S) /\ Len(Tail(q)) = Len(q) - 1
      /\ \A i \in 1..Len(q) - 1 : Tail(q)[i] = q[i + 1]
  OBVIOUS
<1>2. /\ Append(p, Head(q)) \in Seq(S) /\ Len(Append(p, Head(q))) = Len(p) + 1
      /\ Append(p, Head(q))[Len(p) + 1] = q[1]
      /\ \A i \in 1..Len(p) : Append(p, Head(q))[i] = p[i]
  BY <1>1
<1>3. a \in Seq(S) /\ b \in Seq(S) /\ Len(a) = Len(p) + Len(q) /\ Len(b) = Len(p) + Len(q)
  BY <1>1, <1>2
<1>4. ASSUME NEW i \in 1..Len(p) + Len(q) PROVE a[i] = b[i]
  <2>1. CASE i <= Len(p)
    BY <1>1, <1>2, <2>1
  <2>2. CASE i = Len(p) + 1
    BY <1>1, <1>2, <2>2
  <2>3. CASE i > Len(p) + 1
    BY <1>1, <1>2, <2>3
  <2> QED
    BY <1>1, <2>1, <2>2, <2>3
<1> QED
  BY <1>3, <1>4

\* A thunk enters the executor when schedule() queues it.
LEMMA PushSubmits ==
    ASSUME IInv, ClosingInv, NEW c \in Callers, SchedulePush(c)
    PROVE  \E j \in Jobs : Executor!Submit(j)
<1> DEFINE j == arg[c]
<1> USE ThreadsAssumption, JobsAssumption
<1>1. /\ pc[c] = "push" /\ j \in Jobs /\ stage[j] = "counted"
      /\ readyQueue \in Seq(Jobs) /\ jobQueue \in Seq(Jobs)
  BY DEF SchedulePush, At, IInv, TypeOK, Located, ArgsLocated
<1>2. /\ readyQueue' = Append(readyQueue, j) /\ jobQueue' = jobQueue /\ job' = job
      /\ stage' = [stage EXCEPT ![j] = "ready"] /\ closing' = closing
      /\ pc' = [pc EXCEPT ![c] = "signal"]
  BY DEF SchedulePush, Goto, Reaches, teardown
<1>3. j \notin Running /\ j \notin Finished
  BY <1>1 DEF Running, Finished, IInv, Located, JobsLocated
<1>4. \A i \in DOMAIN Queued : Queued[i] # j
  <2>1. /\ \A i \in 1..Len(readyQueue) : readyQueue[i] # j
        /\ \A i \in 1..Len(jobQueue) : jobQueue[i] # j
    BY <1>1 DEF IInv, Located, ReadyLocated, DispatchedLocated
  <2> QED
    BY <1>1, <2>1 DEF Queued
<1>5. j \in Executor!Unseen
  BY <1>1, <1>3, <1>4 DEF Executor!Unseen
<1>6. Client = "open" \/ Running # {}
  <2>1. CASE c = Owner
    BY <1>1, <2>1 DEF Client
  <2>2. CASE c # Owner
    <3>1. c \in Workers /\ job[c] \in Jobs
      BY <1>1, <2>2 DEF Callers, IInv, Located, JobsLocated, Busy
    <3> QED
      BY <3>1 DEF Running
  <2> QED
    BY <2>1, <2>2
<1>7. Queued' = Append(Queued, j)
  BY <1>1, <1>2 DEF Queued
<1>8. Running' = Running /\ Finished' = Finished
  BY <1>1, <1>2 DEF Running, Finished, IInv, TypeOK
<1>9. Client' = Client
  BY <1>1, <1>2 DEF Client, IInv, TypeOK, Threads
<1> QED
  BY <1>1, <1>5, <1>6, <1>7, <1>8, <1>9 DEF Executor!Submit

\* A thunk starts when a worker takes it, and it is the oldest.
LEMMA TakeStarts ==
    ASSUME IInv, NEW w \in Workers, WorkerTake(w)
    PROVE  Executor!Start
<1> DEFINE j == Head(jobQueue)
<1> USE ThreadsAssumption, JobsAssumption
<1>1. /\ pc[w] = "take" /\ jobQueue # <<>> /\ job[w] = NoJob
      /\ readyQueue \in Seq(Jobs) /\ jobQueue \in Seq(Jobs)
      /\ job \in [Workers -> Jobs \cup {NoJob}]
  BY DEF WorkerTake, At, IInv, TypeOK, Located, JobsLocated, Busy
<1>2. /\ readyQueue' = readyQueue /\ jobQueue' = Tail(jobQueue)
      /\ job' = [job EXCEPT ![w] = j]
      /\ stage' = [stage EXCEPT ![j] = "running"] /\ closing' = closing
      /\ pc' = [pc EXCEPT ![w] = "run"]
  BY DEF WorkerTake, Goto, Reaches, teardown
<1>3. j \in Jobs /\ stage[j] = "dispatched"
  <2>1. j = jobQueue[1] /\ 1 \in DOMAIN jobQueue /\ j \in Jobs
    BY <1>1
  <2> QED
    BY <2>1 DEF IInv, Located, DispatchedLocated
<1>4. Queued # <<>> /\ Head(Queued) = j /\ Queued' = Tail(Queued)
  <2>1. Len(jobQueue) > 0 /\ Len(jobQueue) \in Nat /\ Len(readyQueue) \in Nat
    BY <1>1
  <2>2. Queued \in Seq(Jobs) /\ Len(Queued) = Len(jobQueue) + Len(readyQueue)
    BY <1>1 DEF Queued
  <2>3. Queued # <<>> /\ Head(Queued) = j
    BY <1>1, <2>1, <2>2 DEF Queued
  <2>4. Tail(jobQueue) \o readyQueue = Tail(jobQueue \o readyQueue)
    BY <1>1, <2>1
  <2> QED
    BY <1>2, <2>3, <2>4 DEF Queued
<1>5. Cardinality(Running) < NumWorkers
  BY <1>1, RunningFewer
<1>6. Running' = Running \cup {j}
  BY <1>1, <1>2, <1>3 DEF Running
<1>7. Finished' = Finished
  BY <1>2, <1>3 DEF Finished, IInv, TypeOK
<1>8. Client' = Client
  BY <1>2 DEF Client, IInv, TypeOK, Threads
<1> HIDE DEF j
<1>9. Running' = Running \cup {Head(Queued)}
  BY <1>4, <1>6
<1>10. UNCHANGED <<Finished, Client>>
  BY <1>7, <1>8
<1>11. Queued # <<>> /\ Queued' = Tail(Queued)
  BY <1>4
<1>12. Executor!Cardinality(Running) = Cardinality(Running)
  BY DEF Executor!Cardinality, Cardinality
<1> QED
  BY <1>5, <1>9, <1>10, <1>11, <1>12 DEF Executor!Start

\* A thunk is over when jobNum has been taken down for it.
LEMMA DiscountFinishes ==
    ASSUME IInv, NEW w \in Workers, WorkerDiscount(w)
    PROVE  \E j \in Jobs : Executor!Finish(j)
<1> DEFINE j == job[w]
<1> USE ThreadsAssumption, JobsAssumption
<1>1. /\ j \in Jobs /\ stage[j] = "running" /\ job \in [Workers -> Jobs \cup {NoJob}]
      /\ \A v \in Workers : job[v] = j => v = w
  BY DEF WorkerDiscount, At, IInv, TypeOK, Located, JobsLocated, Busy
<1>2. /\ readyQueue' = readyQueue /\ jobQueue' = jobQueue
      /\ job' = [job EXCEPT ![w] = NoJob]
      /\ stage' = [stage EXCEPT ![j] = "done"] /\ closing' = closing
      /\ pc' = [pc EXCEPT ![w] = "check"]
  BY DEF WorkerDiscount, Goto, Reaches, teardown, queues
<1>3. j \in Running /\ Running' = Running \ {j}
  BY <1>1, <1>2 DEF Running
<1>4. Finished' = Finished \cup {j}
  BY <1>1, <1>2 DEF Finished, IInv, TypeOK
<1>5. Queued' = Queued /\ Client' = Client
  BY <1>2 DEF Queued, Client, IInv, TypeOK, Threads
<1> QED
  BY <1>1, <1>3, <1>4, <1>5 DEF Executor!Finish

\* wait() and the destructor's wait() end when nothing is left.
LEMMA WaitEnds ==
    ASSUME IInv, WaitTest
    PROVE  [Executor!Next]_(Executor!vars)
<1> USE ThreadsAssumption, JobsAssumption
<1>1. /\ pc[Owner] = "test" /\ pc \in [Threads -> WorkerPc \cup DispatcherPc \cup OwnerPc]
      /\ pc' = [pc EXCEPT ![Owner] = IF jobNum = 0 THEN AfterWait ELSE "block"]
      /\ UNCHANGED <<readyQueue, jobQueue, job, stage, closing>>
  BY DEF WaitTest, At, Goto, locals, queues, teardown, IInv, TypeOK
<1>2. Queued' = Queued /\ Running' = Running /\ Finished' = Finished
  BY <1>1 DEF Queued, Running, Finished
<1>3. pc'[Owner] = IF jobNum = 0 THEN AfterWait ELSE "block"
  BY <1>1 DEF Threads
<1>4. CASE jobNum # 0
  BY <1>1, <1>2, <1>3, <1>4, OnlyMoves DEF Client
<1>5. CASE jobNum = 0
  <2>1. readyQueue = <<>> /\ jobQueue = <<>> /\ \A w \in Workers : job[w] = NoJob
    BY <1>5, ZeroMeansQuiet DEF IInv, Located, JobsLocated
  <2>2. Queued = <<>> /\ Running = {}
    BY <2>1 DEF Queued, Running
  <2>3. Executor!Quiet
    BY <2>2 DEF Executor!Quiet
  <2>4. CASE closing
    <3>1. Client = "closing" /\ Client' = "closed"
      BY <1>1, <1>3, <1>5, <2>4 DEF Client, AfterWait
    <3>2. Executor!Close
      BY <1>2, <2>3, <3>1 DEF Executor!Close
    <3> QED
      BY <3>2 DEF Executor!Next
  <2>5. CASE ~closing
    <3>1. Client = "waiting" /\ Client' = "open"
      BY <1>1, <1>3, <1>5, <2>5 DEF Client, AfterWait
    <3>2. Executor!WaitReturns
      BY <1>2, <2>3, <3>1 DEF Executor!WaitReturns
    <3> QED
      BY <3>2 DEF Executor!Next
  <2> QED
    BY <2>4, <2>5
<1> QED
  BY <1>4, <1>5

\* Every step of a thread is a step of the executor or changes nothing in it.
LEMMA ExecutorStep ==
    ASSUME IInv, ClosingInv, [Next]_vars
    PROVE  [Executor!Next]_(Executor!vars)
<1> DEFINE Goal == [Executor!Next]_(Executor!vars)
<1> USE ThreadsAssumption, JobsAssumption
<1>1. ASSUME NEW c \in Callers, Schedule(c) PROVE Goal
  <2>1. CASE SchedulePush(c)
    BY <2>1, PushSubmits DEF Executor!Next
  <2>2. CASE ScheduleSignal(c)
    <3>1. UNCHANGED <<Queued, Running, Finished, Client>>
      BY <2>2 DEF ScheduleSignal, At, Goto, Outside, locals, queues, teardown, Queued, Running,
             Finished, Client, IInv, TypeOK, Threads, Callers
    <3> QED
      BY <3>1, OnlyMoves
  <2> QED
    BY <1>1, <2>1, <2>2 DEF Schedule
<1>2. CASE DispatcherStep
  <2>1. CASE DispatcherMove
    <3>1. /\ readyQueue \in Seq(Jobs) /\ jobQueue \in Seq(Jobs) /\ readyQueue # <<>>
          /\ readyQueue' = Tail(readyQueue) /\ jobQueue' = Append(jobQueue, Head(readyQueue))
      BY <2>1 DEF DispatcherMove, IInv, TypeOK
    <3>2. Append(jobQueue, Head(readyQueue)) \o Tail(readyQueue) = jobQueue \o readyQueue
      BY <3>1, HeadMoves
    <3>3. stage[Head(readyQueue)] = "ready" /\ Head(readyQueue) \in Jobs
      <4>1. Head(readyQueue) = readyQueue[1] /\ 1 \in DOMAIN readyQueue
        BY <3>1
      <4> QED
        BY <3>1, <4>1 DEF IInv, Located, ReadyLocated
    <3>4. Finished' = Finished /\ Running' = Running /\ Client' = Client
      BY <2>1, <3>3 DEF DispatcherMove, Goto, Reaches, locals, teardown, Finished, Running,
             Client, IInv, TypeOK, Threads
    <3>5. Queued' = Queued
      BY <3>1, <3>2 DEF Queued
    <3> QED
      BY <3>4, <3>5, OnlyMoves
  <2>2. CASE DispatcherAwaitJob \/ DispatcherAwaitWorker \/ DispatcherExit \/ DispatcherSignal
    <3>1. UNCHANGED <<Queued, Running, Finished>>
      BY <2>2 DEF DispatcherAwaitJob, DispatcherAwaitWorker, DispatcherExit, DispatcherSignal,
             locals, queues, Queued, Running, Finished
    <3>2. Client' = Client
      BY <2>2 DEF DispatcherAwaitJob, DispatcherAwaitWorker, DispatcherExit, DispatcherSignal,
             Goto, teardown, Client, IInv, TypeOK, Threads
    <3> QED
      BY <3>1, <3>2, OnlyMoves
  <2> QED
    BY <1>2, <2>1, <2>2 DEF DispatcherStep
<1>3. ASSUME NEW w \in Workers, WorkerStep(w) PROVE Goal
  <2>1. CASE WorkerTake(w)
    BY <2>1, TakeStarts DEF Executor!Next
  <2>2. CASE WorkerDiscount(w)
    BY <2>2, DiscountFinishes DEF Executor!Next
  <2>3. CASE WorkerAwaitJob(w) \/ WorkerExit(w) \/ WorkerReturn(w) \/ WorkerRelease(w)
             \/ WorkerCheck(w) \/ WorkerNotify(w)
    <3>1. UNCHANGED <<Queued, Running, Finished>>
      BY <2>3 DEF WorkerAwaitJob, WorkerExit, WorkerReturn, WorkerRelease, WorkerCheck,
             WorkerNotify, locals, queues, Queued, Running, Finished
    <3>2. Client' = Client
      BY <2>3 DEF WorkerAwaitJob, WorkerExit, WorkerReturn, WorkerRelease, WorkerCheck,
             WorkerNotify, Goto, teardown, Client, IInv, TypeOK, Threads
    <3> QED
      BY <3>1, <3>2, OnlyMoves
  <2> QED
    BY <1>1, <1>3, <2>1, <2>2, <2>3 DEF WorkerStep, Callers
<1>4. CASE OwnerStep
  <2>1. CASE WaitBlock \/ EndSignalWorker \/ EndSignalDispatcher \/ JoinDispatcher \/ JoinWorkers
    <3>1. UNCHANGED <<Queued, Running, Finished>>
      BY <2>1 DEF WaitBlock, EndSignalWorker, EndSignalDispatcher, JoinDispatcher, JoinWorkers,
             locals, queues, Queued, Running, Finished
    <3>2. Client' = Client
      BY <2>1 DEF WaitBlock, EndSignalWorker, EndSignalDispatcher, JoinDispatcher, JoinWorkers,
             At, Goto, teardown, Client, IInv, TypeOK, Threads
    <3> QED
      BY <3>1, <3>2, OnlyMoves
  <2> QED
    BY <1>1, <1>4, <2>1, WaitEnds DEF OwnerStep, Callers
<1>5. CASE Choice
  <2>1. ASSUME NEW c \in Callers, NEW j \in Jobs, ScheduleCount(c, j) PROVE Goal
    <3>1. UNCHANGED <<Queued, Running, Finished, Client>>
      BY <2>1 DEF ScheduleCount, At, Goto, Reaches, Outside, queues, teardown, Queued, Running,
             Finished, Client, IInv, TypeOK, Threads, Callers
    <3> QED
      BY <3>1, OnlyMoves
  <2>2. CASE SpuriousWakeup
    <3>1. UNCHANGED <<Queued, Running, Finished, Client>>
      BY <2>2 DEF SpuriousWakeup, At, Goto, locals, queues, teardown, Queued, Running,
             Finished, Client, IInv, TypeOK, Threads
    <3> QED
      BY <3>1, OnlyMoves
  <2>3. CASE CallWait \/ CallDestructor
    <3>1. UNCHANGED <<Queued, Running, Finished>>
      BY <2>3 DEF CallWait, CallDestructor, locals, queues, Queued, Running, Finished
    <3>2. pc[Owner] = "client" /\ pc'[Owner] = "test"
      BY <2>3 DEF CallWait, CallDestructor, At, Goto, IInv, TypeOK, Threads
    <3>3. Client = "open" /\ Client' \in {"waiting", "closing"}
      BY <3>2 DEF Client
    <3>4. \E k \in {"waiting", "closing"} : Executor!Call(k)
      BY <3>1, <3>3 DEF Executor!Call
    <3> QED
      BY <3>4 DEF Executor!Next
  <2> QED
    BY <1>5, <2>1, <2>2, <2>3 DEF Choice
<1>6. CASE UNCHANGED vars
  <2>1. UNCHANGED <<Queued, Running, Finished, Client>>
    BY <1>6 DEF vars, Queued, Running, Finished, Client
  <2> QED
    BY <2>1, OnlyMoves
<1> QED
  BY <1>1, <1>2, <1>3, <1>4, <1>5, <1>6 DEF Next

\* The pool is a FIFO executor: thunks start in the order in which schedule()
\* queued them, each once, no more at a time than there are workers, and wait()
\* and the destructor return only when all is done.
THEOREM ImplementsExecutorCorrect == Spec => ImplementsExecutor
<1>1. Init => ClosingInv
  BY DEF Init, ClosingInv
<1>2. Init => Executor!Init
  <2> SUFFICES ASSUME Init PROVE Executor!Init
    OBVIOUS
  <2>1. Queued = <<>> /\ Running = {} /\ Finished = {} /\ Client = "open"
    BY ThreadsAssumption DEF Init, Queued, Running, Finished, Client, Threads
  <2> QED
    BY <2>1 DEF Executor!Init
<1>3. IInv /\ ClosingInv /\ [Next]_vars => [Executor!Next]_(Executor!vars)
  BY ExecutorStep
<1> QED
  BY <1>1, <1>2, <1>3, ClosingStep, IInvHolds, PTL DEF Spec, ImplementsExecutor, Executor!Spec
==============================================================================
