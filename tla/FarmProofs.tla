------------------------------ MODULE FarmProofs ------------------------------
(***************************************************************************)
(* Proofs about Farm for any number of workers and of input lines.         *)
(*                                                                         *)
(* The argument.  The mask is a function of where the parent is, so the    *)
(* handler never runs while a worker is being forked and assigned, nor     *)
(* while one is being searched for (MaskInv).  Hence the handler knows     *)
(* every worker it is told of (SpawnInv), the flags say which workers have *)
(* halted (HaltInv), and the worker the parent has picked is one of them   *)
(* until it is continued (FeedInv), whatever the handler does between.     *)
(***************************************************************************)
EXTENDS Farm, FiniteSetTheorems, TLAPS

\* The labels at which SIGCHLD is blocked.
Masked == pc \in {"fork", "assign", "spawnUnblock", "getTest", "pick", "getUnblock",
                  "count", "countUnblock", "waitTest", "waitUnblock"}

MaskInv == /\ blocked <=> Masked
           /\ handling => ~blocked /\ Installed

\* Up to which worker the loop of spawnAllWorkers has come.
Spawning == pc \in {"spawnBlock", "fork", "assign", "spawnUnblock"}

SpawnInv ==
    \A w \in Workers :
        /\ state[w] = "absent" <=>
              Spawning /\ (w > cur \/ (w = cur /\ pc \in {"spawnBlock", "fork"}))
        /\ assigned[w] <=>
              ~(Spawning /\ (w > cur \/ (w = cur /\ pc # "spawnUnblock")))

\* While the handler is installed a flag stands for a reported halt, and a
\* reported halt for a flag, but for the worker that is being fed.
HaltInv ==
    \A w \in Workers :
        /\ available[w] => assigned[w]
        /\ unreported[w] => state[w] = "stopped"
        /\ Installed /\ available[w] => state[w] = "stopped" /\ ~unreported[w]

FeedInv ==
    /\ pc = "pick" => \E w \in Workers : available[w]
    /\ Feeding => /\ state[cur] = "stopped" /\ ~unreported[cur]
                  /\ available[cur] <=> pc \in {"getUnblock", "write", "mark"}

\* A line waits in a pipe only from its being written to its being read.
PipeInv ==
    \A w \in Workers : pipe[w] # 0 =>
        /\ pipe[w] = 1
        /\ \/ state[w] = "reading"
           \/ w = cur /\ pc \in {"mark", "countBlock", "count", "countUnblock", "continue"}

SentInv == pc \in {"getBlock", "getTest", "getSuspended", "pick", "getUnblock", "write"}
              => sent < MaxInputs

IInv == /\ TypeOK /\ MaskInv /\ SpawnInv /\ HaltInv /\ FeedInv /\ PipeInv /\ SentInv
        /\ AvailableCounts /\ NoHaltMissed

\* A flag that is set is counted: the search that follows a counter other than
\* zero finds a worker.
LEMMA CounterFindsWorker ==
    ASSUME TypeOK, AvailableCounts, ~Uncounted, numWorkersAvailable # 0
    PROVE  \E w \in Workers : available[w]
<1>1. CASE \A w \in Workers : ~available[w]
  <2>1. {w \in Workers : available[w]} = {}
    BY <1>1
  <2>2. Cardinality({w \in Workers : available[w]}) = 0
    BY <2>1, FS_EmptySet
  <2> QED
    BY <2>2 DEF AvailableCounts
<1> QED
  BY <1>1

\* The flags that are set, and their number.
LEMMA Flags ==
    ASSUME NEW a \in [Workers -> BOOLEAN]
    PROVE  /\ IsFiniteSet({w \in Workers : a[w]})
           /\ Cardinality({w \in Workers : a[w]}) \in 0..NumCPUs
<1>1. IsFiniteSet(Workers) /\ Cardinality(Workers) = NumCPUs
  BY FS_Interval, NumCPUsAssumption DEF Workers
<1>2. {w \in Workers : a[w]} \subseteq Workers
  OBVIOUS
<1>3. /\ IsFiniteSet({w \in Workers : a[w]})
      /\ Cardinality({w \in Workers : a[w]}) <= Cardinality(Workers)
  BY <1>1, <1>2, FS_Subset
<1>4. Cardinality({w \in Workers : a[w]}) \in Nat
  BY <1>3, FS_CardinalityType
<1> QED
  BY <1>1, <1>3, <1>4, NumCPUsAssumption

\* Setting a flag that is clear adds one to their number.
LEMMA SetFlag ==
    ASSUME NEW a \in [Workers -> BOOLEAN], NEW w \in Workers, ~a[w]
    PROVE  Cardinality({v \in Workers : [a EXCEPT ![w] = TRUE][v]})
               = Cardinality({v \in Workers : a[v]}) + 1
<1> DEFINE S == {v \in Workers : a[v]}
<1>1. {v \in Workers : [a EXCEPT ![w] = TRUE][v]} = S \cup {w}
  OBVIOUS
<1>2. IsFiniteSet(S) /\ w \notin S
  BY Flags
<1> HIDE DEF S
<1>3. Cardinality(S \cup {w}) = Cardinality(S) + 1
  BY <1>2, FS_AddElement
<1> QED
  BY <1>1, <1>3 DEF S

\* Clearing a flag that is set takes one from it.
LEMMA ClearFlag ==
    ASSUME NEW a \in [Workers -> BOOLEAN], NEW w \in Workers, a[w]
    PROVE  Cardinality({v \in Workers : [a EXCEPT ![w] = FALSE][v]})
               = Cardinality({v \in Workers : a[v]}) - 1
<1> DEFINE S == {v \in Workers : a[v]}
<1>1. {v \in Workers : [a EXCEPT ![w] = FALSE][v]} = S \ {w}
  OBVIOUS
<1>2. IsFiniteSet(S) /\ w \in S
  BY Flags
<1> HIDE DEF S
<1>3. Cardinality(S \ {w}) = Cardinality(S) - 1
  BY <1>2, FS_RemoveElement
<1> QED
  BY <1>1, <1>3 DEF S

\* Initially there is no child, no flag and no count.
LEMMA InitIInv == Init => IInv
<1> SUFFICES ASSUME Init PROVE IInv
  OBVIOUS
<1> USE NumCPUsAssumption, MaxInputsAssumption DEF Init
<1>1. TypeOK
  <2>1. 1 \in Workers /\ 0 \in 0..NumCPUs /\ 0 \in 0..MaxInputs
    BY DEF Workers
  <2> QED
    BY <2>1 DEF TypeOK, States, Labels
<1>2. MaskInv /\ SentInv
  BY DEF MaskInv, Masked, Installed, SentInv
<1>3. SpawnInv /\ HaltInv /\ FeedInv /\ PipeInv /\ NoHaltMissed
  BY DEF SpawnInv, Spawning, HaltInv, FeedInv, Feeding, PipeInv, NoHaltMissed, Workers
<1>4. AvailableCounts
  <2>1. {w \in Workers : available[w]} = {}
    OBVIOUS
  <2> QED
    BY <2>1, FS_EmptySet DEF AvailableCounts, Uncounted
<1> QED
  BY <1>1, <1>2, <1>3, <1>4 DEF IInv

\* The mask follows the program: sigsuspend opens it while it sleeps and closes it
\* when it returns.
LEMMA MaskInvStep ==
    ASSUME IInv, Next
    PROVE  MaskInv'
<1> USE NumCPUsAssumption, MaxInputsAssumption
<1> USE DEF IInv, TypeOK, Step, Workers, main, signals, children,
            MaskInv, Masked, Installed
<1>1. CASE Spawn
  BY <1>1 DEF Spawn, SpawnBlock, SpawnFork, SpawnAssign, SpawnUnblock, Mask
<1>2. CASE GetAvailable
  BY <1>2 DEF GetAvailable, GetBlock, GetTest, GetUnblock, Pick, Mask
<1>3. CASE Broadcast
  BY <1>3 DEF Broadcast, ReadNumber, ReadEnd, Abort, Write, MarkBusy, CountBlock, CountDown,
         CountUnblock, Continue, Resume, Mask
<1>4. CASE WaitForAll
  BY <1>4 DEF WaitForAll, WaitBlock, WaitTest, WaitUnblock, Mask
<1>5. CASE CloseAll
  BY <1>5 DEF CloseAll, IgnoreChildren, CloseSupply, CloseContinue, Reap, ReapEnd, Resume
<1>6. CASE Handler
  BY <1>6 DEF Handler, HandlerEnter, HandlerLeave, HandlerReport
<1>7. ASSUME NEW w \in Workers, Child(w) PROVE MaskInv'
  BY <1>7 DEF Child, ChildStarts, ChildHalts, ChildReads, ChildFactors, ChildExits
<1> QED
  BY <1>1, <1>2, <1>3, <1>4, <1>5, <1>6, <1>7 DEF Next, Parent

\* Workers are spawned in turn, and one that halts is already assigned when the
\* handler hears of it.
LEMMA SpawnInvStep ==
    ASSUME IInv, Next
    PROVE  SpawnInv'
<1> USE NumCPUsAssumption, MaxInputsAssumption
<1> USE DEF IInv, TypeOK, Step, Workers, main, signals, children,
            SpawnInv, Spawning, MaskInv, Masked, Installed
<1>1. CASE Spawn
  <2>1. CASE SpawnBlock
    BY <2>1 DEF SpawnBlock, Mask
  <2>2. CASE SpawnFork
    BY <2>2 DEF SpawnFork
  <2>3. CASE SpawnAssign
    BY <2>3 DEF SpawnAssign
  <2>4. CASE SpawnUnblock
    BY <2>4 DEF SpawnUnblock
  <2> QED
    BY <1>1, <2>1, <2>2, <2>3, <2>4 DEF Spawn
<1>2. CASE GetAvailable
  BY <1>2 DEF GetAvailable, GetBlock, GetTest, GetUnblock, Pick, Mask
<1>3. CASE Broadcast
  <2>1. CASE Abort
    BY <2>1 DEF Abort
  <2>2. CASE Continue
    BY <2>2 DEF Continue, Resume
  <2>3. CASE \/ ReadNumber \/ ReadEnd \/ Write \/ MarkBusy
             \/ CountBlock \/ CountDown \/ CountUnblock
    BY <2>3 DEF ReadNumber, ReadEnd, Write, MarkBusy, CountBlock, CountDown, CountUnblock,
           Mask
  <2> QED
    BY <1>3, <2>1, <2>2, <2>3 DEF Broadcast
<1>4. CASE WaitForAll
  BY <1>4 DEF WaitForAll, WaitBlock, WaitTest, WaitUnblock, Mask
<1>5. CASE CloseAll
  BY <1>5 DEF CloseAll, IgnoreChildren, CloseSupply, CloseContinue, Reap, ReapEnd, Resume
<1>6. CASE Handler
  <2>1. CASE HandlerEnter
    BY <2>1 DEF HandlerEnter
  <2>2. CASE HandlerLeave
    BY <2>2 DEF HandlerLeave
  <2>3. ASSUME NEW w \in Workers, HandlerReport(w) PROVE SpawnInv'
    BY <2>3 DEF HandlerReport
  <2> QED
    BY <1>6, <2>1, <2>2, <2>3 DEF Handler
<1>7. ASSUME NEW w \in Workers, Child(w) PROVE SpawnInv'
  <2>1. CASE ChildHalts(w)
    BY <2>1 DEF ChildHalts
  <2>2. CASE ChildReads(w)
    BY <2>2 DEF ChildReads
  <2>3. CASE ChildFactors(w)
    BY <2>3 DEF ChildFactors
  <2>4. CASE ChildExits(w)
    BY <2>4 DEF ChildExits
  <2>5. CASE ChildStarts(w)
    BY <2>5 DEF ChildStarts
  <2> QED
    BY <1>7, <2>1, <2>2, <2>3, <2>4, <2>5 DEF Child
<1> QED
  BY <1>1, <1>2, <1>3, <1>4, <1>5, <1>6, <1>7 DEF Next, Parent

\* A flag is cleared before its worker is continued.
LEMMA HaltInvStep ==
    ASSUME IInv, Next
    PROVE  HaltInv'
<1> USE NumCPUsAssumption, MaxInputsAssumption
<1> USE DEF IInv, TypeOK, Step, Workers, main, signals, children,
            HaltInv, SpawnInv, FeedInv, Spawning, Feeding, Installed
<1>1. CASE Spawn
  <2>1. CASE SpawnBlock
    BY <2>1 DEF SpawnBlock, Mask
  <2>2. CASE SpawnFork
    BY <2>2 DEF SpawnFork
  <2>3. CASE SpawnAssign
    BY <2>3 DEF SpawnAssign
  <2>4. CASE SpawnUnblock
    BY <2>4 DEF SpawnUnblock
  <2> QED
    BY <1>1, <2>1, <2>2, <2>3, <2>4 DEF Spawn
<1>2. CASE GetAvailable
  <2>1. CASE GetBlock
    BY <2>1 DEF GetBlock, Mask
  <2>2. CASE GetTest
    BY <2>2 DEF GetTest
  <2>3. CASE GetUnblock
    BY <2>3 DEF GetUnblock, Mask
  <2>4. ASSUME NEW w \in Workers, Pick(w) PROVE HaltInv'
    BY <2>4 DEF Pick
  <2> QED
    BY <1>2, <2>1, <2>2, <2>3, <2>4 DEF GetAvailable
<1>3. CASE Broadcast
  <2>1. CASE ReadNumber
    BY <2>1 DEF ReadNumber
  <2>2. CASE ReadEnd
    BY <2>2 DEF ReadEnd
  <2>3. CASE Write
    BY <2>3 DEF Write
  <2>4. CASE MarkBusy
    BY <2>4 DEF MarkBusy
  <2>5. CASE CountBlock
    BY <2>5 DEF CountBlock, Mask
  <2>6. CASE CountDown
    BY <2>6 DEF CountDown
  <2>7. CASE CountUnblock
    BY <2>7 DEF CountUnblock, Mask
  <2>8. CASE Continue
    BY <2>8, SMTT(30) DEF Continue, Resume
  <2>9. CASE Abort
    BY <2>9 DEF Abort
  <2> QED
    BY <1>3, <2>1, <2>2, <2>3, <2>4, <2>5, <2>6, <2>7, <2>8, <2>9 DEF Broadcast
<1>4. CASE WaitForAll
  <2>1. CASE WaitBlock
    BY <2>1 DEF WaitBlock, Mask
  <2>2. CASE WaitTest
    BY <2>2 DEF WaitTest
  <2>3. CASE WaitUnblock
    BY <2>3 DEF WaitUnblock, Mask
  <2> QED
    BY <1>4, <2>1, <2>2, <2>3 DEF WaitForAll
<1>5. CASE CloseAll
  <2>1. CASE IgnoreChildren
    BY <2>1 DEF IgnoreChildren
  <2>2. CASE CloseSupply
    BY <2>2 DEF CloseSupply
  <2>3. CASE CloseContinue
    BY <2>3 DEF CloseContinue, Resume
  <2>4. CASE ReapEnd
    BY <2>4 DEF ReapEnd
  <2>5. ASSUME NEW w \in Workers, Reap(w) PROVE HaltInv'
    BY <2>5 DEF Reap
  <2> QED
    BY <1>5, <2>1, <2>2, <2>3, <2>4, <2>5 DEF CloseAll
<1>6. CASE Handler
  <2>1. CASE HandlerEnter
    BY <2>1 DEF HandlerEnter
  <2>2. CASE HandlerLeave
    BY <2>2 DEF HandlerLeave
  <2>3. ASSUME NEW w \in Workers, HandlerReport(w) PROVE HaltInv'
    BY <2>3 DEF HandlerReport
  <2> QED
    BY <1>6, <2>1, <2>2, <2>3 DEF Handler
<1>7. ASSUME NEW w \in Workers, Child(w) PROVE HaltInv'
  <2>1. CASE ChildHalts(w)
    BY <2>1 DEF ChildHalts
  <2>2. CASE ChildReads(w)
    BY <2>2 DEF ChildReads
  <2>3. CASE ChildFactors(w)
    BY <2>3 DEF ChildFactors
  <2>4. CASE ChildExits(w)
    BY <2>4 DEF ChildExits
  <2>5. CASE ChildStarts(w)
    BY <2>5 DEF ChildStarts
  <2> QED
    BY <1>7, <2>1, <2>2, <2>3, <2>4, <2>5 DEF Child
<1> QED
  BY <1>1, <1>2, <1>3, <1>4, <1>5, <1>6, <1>7 DEF Next, Parent

\* The worker that has been picked stays halted: only its own SIGCONT resumes it.
LEMMA FeedInvStep ==
    ASSUME IInv, Next
    PROVE  FeedInv'
<1> USE NumCPUsAssumption, MaxInputsAssumption
<1> USE DEF IInv, TypeOK, Step, Workers, main, signals, children,
            FeedInv, HaltInv, MaskInv, Masked, Feeding, Installed
<1>1. CASE Spawn
  BY <1>1 DEF Spawn, SpawnBlock, SpawnFork, SpawnAssign, SpawnUnblock, Mask
<1>2. CASE GetAvailable
  <2>1. CASE GetTest
    <3>1. numWorkersAvailable # 0 => \E w \in Workers : available[w]
      BY <2>1, CounterFindsWorker DEF GetTest, Uncounted
    <3> QED
      BY <2>1, <3>1 DEF GetTest
  <2>2. ASSUME NEW w \in Workers, Pick(w) PROVE FeedInv'
    BY <2>2 DEF Pick
  <2>3. CASE GetBlock \/ GetUnblock
    BY <2>3 DEF GetBlock, GetUnblock, Mask
  <2> QED
    BY <1>2, <2>1, <2>2, <2>3 DEF GetAvailable
<1>3. CASE Broadcast
  BY <1>3 DEF Broadcast, ReadNumber, ReadEnd, Abort, Write, MarkBusy, CountBlock, CountDown,
         CountUnblock, Continue, Resume, Mask
<1>4. CASE WaitForAll
  BY <1>4 DEF WaitForAll, WaitBlock, WaitTest, WaitUnblock, Mask
<1>5. CASE CloseAll
  BY <1>5 DEF CloseAll, IgnoreChildren, CloseSupply, CloseContinue, Reap, ReapEnd, Resume
<1>6. CASE Handler
  <2>1. CASE HandlerEnter
    BY <2>1 DEF HandlerEnter
  <2>2. CASE HandlerLeave
    BY <2>2 DEF HandlerLeave
  <2>3. ASSUME NEW w \in Workers, HandlerReport(w) PROVE FeedInv'
    BY <2>3 DEF HandlerReport
  <2> QED
    BY <1>6, <2>1, <2>2, <2>3 DEF Handler
<1>7. ASSUME NEW w \in Workers, Child(w) PROVE FeedInv'
  <2>1. CASE ChildHalts(w)
    BY <2>1 DEF ChildHalts
  <2>2. CASE ChildReads(w)
    BY <2>2 DEF ChildReads
  <2>3. CASE ChildFactors(w)
    BY <2>3 DEF ChildFactors
  <2>4. CASE ChildExits(w)
    BY <2>4 DEF ChildExits
  <2>5. CASE ChildStarts(w)
    BY <2>5 DEF ChildStarts
  <2> QED
    BY <1>7, <2>1, <2>2, <2>3, <2>4, <2>5 DEF Child
<1> QED
  BY <1>1, <1>2, <1>3, <1>4, <1>5, <1>6, <1>7 DEF Next, Parent

\* A line is written to an empty pipe, and the child that is continued reads it
\* before it can halt again.
LEMMA PipeInvStep ==
    ASSUME IInv, Next
    PROVE  PipeInv'
<1> USE NumCPUsAssumption, MaxInputsAssumption
<1> USE DEF IInv, TypeOK, Step, Workers, main, signals, children,
            PipeInv, FeedInv, HaltInv, SpawnInv, Spawning, Feeding, Installed
<1>1. CASE Spawn
  BY <1>1 DEF Spawn, SpawnBlock, SpawnFork, SpawnAssign, SpawnUnblock, Mask
<1>2. CASE GetAvailable
  BY <1>2 DEF GetAvailable, GetBlock, GetTest, GetUnblock, Pick, Mask
<1>3. CASE Broadcast
  <2>1. CASE ReadNumber
    BY <2>1 DEF ReadNumber
  <2>2. CASE ReadEnd
    BY <2>2 DEF ReadEnd
  <2>3. CASE Write
    BY <2>3 DEF Write
  <2>4. CASE MarkBusy
    BY <2>4 DEF MarkBusy
  <2>5. CASE CountBlock
    BY <2>5 DEF CountBlock, Mask
  <2>6. CASE CountDown
    BY <2>6 DEF CountDown
  <2>7. CASE CountUnblock
    BY <2>7 DEF CountUnblock, Mask
  <2>8. CASE Continue
    BY <2>8 DEF Continue, Resume
  <2>9. CASE Abort
    BY <2>9 DEF Abort
  <2> QED
    BY <1>3, <2>1, <2>2, <2>3, <2>4, <2>5, <2>6, <2>7, <2>8, <2>9 DEF Broadcast
<1>4. CASE WaitForAll
  BY <1>4 DEF WaitForAll, WaitBlock, WaitTest, WaitUnblock, Mask
<1>5. CASE CloseAll
  <2>1. CASE IgnoreChildren
    BY <2>1 DEF IgnoreChildren
  <2>2. CASE CloseSupply
    BY <2>2 DEF CloseSupply
  <2>3. CASE CloseContinue
    BY <2>3 DEF CloseContinue, Resume
  <2>4. CASE ReapEnd
    BY <2>4 DEF ReapEnd
  <2>5. ASSUME NEW w \in Workers, Reap(w) PROVE PipeInv'
    BY <2>5 DEF Reap
  <2> QED
    BY <1>5, <2>1, <2>2, <2>3, <2>4, <2>5 DEF CloseAll
<1>6. CASE Handler
  BY <1>6 DEF Handler, HandlerEnter, HandlerLeave, HandlerReport
<1>7. ASSUME NEW w \in Workers, Child(w) PROVE PipeInv'
  <2>1. CASE ChildHalts(w)
    BY <2>1 DEF ChildHalts
  <2>2. CASE ChildReads(w)
    BY <2>2 DEF ChildReads
  <2>3. CASE ChildFactors(w)
    BY <2>3 DEF ChildFactors
  <2>4. CASE ChildExits(w)
    BY <2>4 DEF ChildExits
  <2>5. CASE ChildStarts(w)
    BY <2>5 DEF ChildStarts
  <2> QED
    BY <1>7, <2>1, <2>2, <2>3, <2>4, <2>5 DEF Child
<1> QED
  BY <1>1, <1>2, <1>3, <1>4, <1>5, <1>6, <1>7 DEF Next, Parent

\* A number is written once for every line read.
LEMMA SentInvStep ==
    ASSUME IInv, Next
    PROVE  SentInv'
<1> USE NumCPUsAssumption, MaxInputsAssumption
<1> USE DEF IInv, TypeOK, Step, Workers, main, signals, children,
            SentInv
<1>1. CASE Spawn
  BY <1>1 DEF Spawn, SpawnBlock, SpawnFork, SpawnAssign, SpawnUnblock, Mask
<1>2. CASE GetAvailable
  BY <1>2 DEF GetAvailable, GetBlock, GetTest, GetUnblock, Pick, Mask
<1>3. CASE Broadcast
  BY <1>3 DEF Broadcast, ReadNumber, ReadEnd, Abort, Write, MarkBusy, CountBlock, CountDown,
         CountUnblock, Continue, Resume, Mask
<1>4. CASE WaitForAll
  BY <1>4 DEF WaitForAll, WaitBlock, WaitTest, WaitUnblock, Mask
<1>5. CASE CloseAll
  BY <1>5 DEF CloseAll, IgnoreChildren, CloseSupply, CloseContinue, Reap, ReapEnd, Resume
<1>6. CASE Handler
  BY <1>6 DEF Handler, HandlerEnter, HandlerLeave, HandlerReport
<1>7. ASSUME NEW w \in Workers, Child(w) PROVE SentInv'
  BY <1>7 DEF Child, ChildStarts, ChildHalts, ChildReads, ChildFactors, ChildExits
<1> QED
  BY <1>1, <1>2, <1>3, <1>4, <1>5, <1>6, <1>7 DEF Next, Parent

\* Every reported halt sets a flag, and a flag is cleared only by feeding.
LEMMA NoHaltMissedStep ==
    ASSUME IInv, Next
    PROVE  NoHaltMissed'
<1> USE NumCPUsAssumption, MaxInputsAssumption
<1> USE DEF IInv, TypeOK, Step, Workers, main, signals, children,
            NoHaltMissed, HaltInv, FeedInv, SpawnInv, MaskInv, Masked, Spawning, Feeding,
            Installed
<1>1. CASE Spawn
  <2>1. CASE SpawnBlock
    BY <2>1 DEF SpawnBlock, Mask
  <2>2. CASE SpawnFork
    BY <2>2 DEF SpawnFork
  <2>3. CASE SpawnAssign
    BY <2>3 DEF SpawnAssign
  <2>4. CASE SpawnUnblock
    BY <2>4 DEF SpawnUnblock
  <2> QED
    BY <1>1, <2>1, <2>2, <2>3, <2>4 DEF Spawn
<1>2. CASE GetAvailable
  BY <1>2 DEF GetAvailable, GetBlock, GetTest, GetUnblock, Pick, Mask
<1>3. CASE Broadcast
  BY <1>3 DEF Broadcast, ReadNumber, ReadEnd, Abort, Write, MarkBusy, CountBlock, CountDown,
         CountUnblock, Continue, Resume, Mask
<1>4. CASE WaitForAll
  BY <1>4 DEF WaitForAll, WaitBlock, WaitTest, WaitUnblock, Mask
<1>5. CASE CloseAll
  BY <1>5 DEF CloseAll, IgnoreChildren, CloseSupply, CloseContinue, Reap, ReapEnd, Resume
<1>6. CASE Handler
  <2>1. CASE HandlerEnter
    BY <2>1 DEF HandlerEnter
  <2>2. CASE HandlerLeave
    BY <2>2 DEF HandlerLeave
  <2>3. ASSUME NEW w \in Workers, HandlerReport(w) PROVE NoHaltMissed'
    BY <2>3 DEF HandlerReport
  <2> QED
    BY <1>6, <2>1, <2>2, <2>3 DEF Handler
<1>7. ASSUME NEW w \in Workers, Child(w) PROVE NoHaltMissed'
  <2>1. CASE ChildHalts(w)
    BY <2>1 DEF ChildHalts
  <2>2. CASE ChildReads(w)
    BY <2>2 DEF ChildReads
  <2>3. CASE ChildFactors(w)
    BY <2>3 DEF ChildFactors
  <2>4. CASE ChildExits(w)
    BY <2>4 DEF ChildExits
  <2>5. CASE ChildStarts(w)
    BY <2>5 DEF ChildStarts
  <2> QED
    BY <1>7, <2>1, <2>2, <2>3, <2>4, <2>5 DEF Child
<1> QED
  BY <1>1, <1>2, <1>3, <1>4, <1>5, <1>6, <1>7 DEF Next, Parent

\* The counter moves with the flags: up with each halt that is reported, down
\* one line after the flag of the worker that is fed.
LEMMA AvailableCountsStep ==
    ASSUME IInv, Next
    PROVE  AvailableCounts'
<1>0. /\ cur \in Workers /\ available \in [Workers -> BOOLEAN]
      /\ assigned \in [Workers -> BOOLEAN] /\ numWorkersAvailable \in 0..NumCPUs
  BY DEF IInv, TypeOK
<1> DEFINE Number(a) == Cardinality({w \in Workers : a[w]})
           Same == available' = available /\ numWorkersAvailable' = numWorkersAvailable
                       /\ Uncounted' = Uncounted
<1>a. ASSUME Same PROVE AvailableCounts'
  BY <1>a DEF IInv, AvailableCounts
<1>b. Number(available) \in Nat
  BY <1>0, Flags, NumCPUsAssumption
<1>1. CASE Spawn
  <2>1. CASE SpawnAssign
    <3>1. ~available[cur]
      BY <2>1, <1>0 DEF IInv, HaltInv, SpawnInv, Spawning, SpawnAssign, Step
    <3>2. available' = available
      BY <2>1, <3>1, <1>0 DEF SpawnAssign
    <3> QED
      BY <2>1, <3>2, <1>a DEF SpawnAssign, Step, Uncounted
  <2>2. CASE SpawnBlock \/ SpawnFork \/ SpawnUnblock
    BY <2>2, <1>a DEF SpawnBlock, SpawnFork, SpawnUnblock, Mask, Step, Uncounted
  <2> QED
    BY <1>1, <2>1, <2>2 DEF Spawn
<1>2. CASE GetAvailable
  BY <1>2, <1>a DEF GetAvailable, GetBlock, GetTest, GetUnblock, Pick, Mask, Step, Uncounted
<1>3. CASE Broadcast
  <2>1. CASE MarkBusy
    <3>1. available[cur]
      BY <2>1 DEF IInv, FeedInv, Feeding, MarkBusy, Step
    <3>2. Number(available') = Number(available) - 1
      BY <2>1, <3>1, <1>0, ClearFlag DEF MarkBusy
    <3>3. ~Uncounted /\ Uncounted' /\ numWorkersAvailable' = numWorkersAvailable
      BY <2>1 DEF MarkBusy, Step, Uncounted
    <3> QED
      BY <3>2, <3>3, <1>b DEF IInv, AvailableCounts
  <2>2. CASE CountDown
    BY <2>2, <1>b DEF IInv, AvailableCounts, CountDown, Step, Uncounted
  <2>3. CASE \/ ReadNumber \/ ReadEnd \/ Abort \/ Write \/ CountBlock \/ CountUnblock \/ Continue
    BY <2>3, <1>a DEF ReadNumber, ReadEnd, Abort, Write, CountBlock, CountUnblock, Continue, Mask,
           Step, Uncounted
  <2> QED
    BY <1>3, <2>1, <2>2, <2>3 DEF Broadcast
<1>4. CASE WaitForAll
  BY <1>4, <1>a DEF WaitForAll, WaitBlock, WaitTest, WaitUnblock, Mask, Step, Uncounted
<1>5. CASE CloseAll
  BY <1>5, <1>a DEF CloseAll, IgnoreChildren, CloseSupply, CloseContinue, Reap, ReapEnd, Step,
         Uncounted
<1>6. CASE Handler
  <2>1. ASSUME NEW w \in Workers, HandlerReport(w), assigned[w] PROVE AvailableCounts'
    <3>1. ~available[w]
      BY <2>1 DEF HandlerReport, IInv, HaltInv, MaskInv
    <3>2. Number(available') = Number(available) + 1
      BY <2>1, <3>1, <1>0, SetFlag DEF HandlerReport
    <3>3. Uncounted' = Uncounted /\ numWorkersAvailable' = numWorkersAvailable + 1
      BY <2>1 DEF HandlerReport, Uncounted
    <3> QED
      BY <3>2, <3>3, <1>b DEF IInv, AvailableCounts
  <2>2. ASSUME NEW w \in Workers, HandlerReport(w), ~assigned[w] PROVE AvailableCounts'
    BY <2>2, <1>a DEF HandlerReport, Uncounted
  <2>3. CASE HandlerEnter \/ HandlerLeave
    BY <2>3, <1>a DEF HandlerEnter, HandlerLeave, main, Uncounted
  <2> QED
    BY <1>6, <2>1, <2>2, <2>3 DEF Handler
<1>7. ASSUME NEW w \in Workers, Child(w) PROVE AvailableCounts'
  BY <1>7, <1>a DEF Child, ChildStarts, ChildHalts, ChildReads, ChildFactors, ChildExits, main,
         Uncounted
<1> QED
  BY <1>1, <1>2, <1>3, <1>4, <1>5, <1>6, <1>7 DEF Next, Parent

\* The counter is the number of flags, or one more while the parent is between
\* the two updates; the worker it is feeding then has no flag.
LEMMA CounterRange ==
    ASSUME NEW a \in [Workers -> BOOLEAN], NEW w \in Workers, NEW between \in BOOLEAN,
           between => ~a[w]
    PROVE  Cardinality({v \in Workers : a[v]}) + (IF between THEN 1 ELSE 0) \in 0..NumCPUs
<1> DEFINE Number(b) == Cardinality({v \in Workers : b[v]})
<1>1. Number(a) \in 0..NumCPUs
  BY Flags
<1>2. CASE between
  <2>1. Number([a EXCEPT ![w] = TRUE]) = Number(a) + 1
    BY <1>2, SetFlag
  <2>2. Number([a EXCEPT ![w] = TRUE]) \in 0..NumCPUs
    <3>1. [a EXCEPT ![w] = TRUE] \in [Workers -> BOOLEAN]
      OBVIOUS
    <3> QED
      BY <3>1, Flags
  <2> QED
    BY <1>1, <1>2, <2>1, <2>2, NumCPUsAssumption
<1>3. CASE ~between
  BY <1>1, <1>3
<1> QED
  BY <1>2, <1>3

\* TypeOK without the counter.
OtherTypes ==
    /\ pc \in Labels /\ cur \in Workers
    /\ available \in [Workers -> BOOLEAN] /\ assigned \in [Workers -> BOOLEAN]
    /\ supplyOpen \in [Workers -> BOOLEAN] /\ sent \in 0..MaxInputs
    /\ blocked \in BOOLEAN /\ pending \in BOOLEAN /\ handling \in BOOLEAN
    /\ state \in [Workers -> States] /\ unreported \in [Workers -> BOOLEAN]
    /\ pipe \in [Workers -> Nat] /\ factored \in Nat

\* Every other variable stays in its type.
LEMMA OtherTypesStep ==
    ASSUME IInv, Next
    PROVE  OtherTypes'
<1> USE NumCPUsAssumption, MaxInputsAssumption
<1>0. 1 \in Workers /\ (cur < NumCPUs => cur + 1 \in Workers)
  BY DEF IInv, TypeOK, Workers
<1> USE DEF IInv, TypeOK, Step, main, signals, children,
            OtherTypes, SentInv, States, Labels, Installed
<1>1. CASE Spawn
  <2>1. CASE SpawnBlock
    BY <2>1 DEF SpawnBlock, Mask
  <2>2. CASE SpawnFork
    BY <2>2 DEF SpawnFork
  <2>3. CASE SpawnAssign
    BY <2>3 DEF SpawnAssign
  <2>4. CASE SpawnUnblock
    BY <1>0, <2>4 DEF SpawnUnblock
  <2> QED
    BY <1>1, <2>1, <2>2, <2>3, <2>4 DEF Spawn
<1>2. CASE GetAvailable
  BY <1>2 DEF GetAvailable, GetBlock, GetTest, GetUnblock, Pick, Mask
<1>3. CASE Broadcast
  <2>1. CASE ReadNumber
    BY <2>1 DEF ReadNumber
  <2>2. CASE ReadEnd
    BY <2>2 DEF ReadEnd
  <2>3. CASE Write
    BY <2>3 DEF Write
  <2>4. CASE MarkBusy
    BY <2>4 DEF MarkBusy
  <2>5. CASE CountBlock
    BY <2>5 DEF CountBlock, Mask
  <2>6. CASE CountDown
    BY <2>6 DEF CountDown
  <2>7. CASE CountUnblock
    BY <2>7 DEF CountUnblock, Mask
  <2>8. CASE Continue
    BY <2>8 DEF Continue, Resume
  <2>9. CASE Abort
    BY <2>9 DEF Abort
  <2> QED
    BY <1>3, <2>1, <2>2, <2>3, <2>4, <2>5, <2>6, <2>7, <2>8, <2>9 DEF Broadcast
<1>4. CASE WaitForAll
  BY <1>4 DEF WaitForAll, WaitBlock, WaitTest, WaitUnblock, Mask
<1>5. CASE CloseAll
  <2>1. CASE IgnoreChildren
    BY <1>0, <2>1 DEF IgnoreChildren
  <2>2. CASE CloseSupply
    BY <2>2 DEF CloseSupply
  <2>3. CASE CloseContinue
    BY <1>0, <2>3 DEF CloseContinue, Resume
  <2>4. CASE ReapEnd
    BY <2>4 DEF ReapEnd
  <2>5. ASSUME NEW w \in Workers, Reap(w) PROVE OtherTypes'
    BY <2>5 DEF Reap
  <2> QED
    BY <1>5, <2>1, <2>2, <2>3, <2>4, <2>5 DEF CloseAll
<1>6. CASE Handler
  <2>1. CASE HandlerEnter
    BY <2>1 DEF HandlerEnter
  <2>2. CASE HandlerLeave
    BY <2>2 DEF HandlerLeave
  <2>3. ASSUME NEW w \in Workers, HandlerReport(w) PROVE OtherTypes'
    BY <2>3 DEF HandlerReport
  <2> QED
    BY <1>6, <2>1, <2>2, <2>3 DEF Handler
<1>7. ASSUME NEW w \in Workers, Child(w) PROVE OtherTypes'
  <2>1. CASE ChildHalts(w)
    BY <2>1 DEF ChildHalts
  <2>2. CASE ChildReads(w)
    BY <2>2 DEF ChildReads
  <2>3. CASE ChildFactors(w)
    BY <2>3 DEF ChildFactors
  <2>4. CASE ChildExits(w)
    BY <2>4 DEF ChildExits
  <2>5. CASE ChildStarts(w)
    BY <2>5 DEF ChildStarts
  <2> QED
    BY <1>7, <2>1, <2>2, <2>3, <2>4, <2>5 DEF Child
<1> QED
  BY <1>1, <1>2, <1>3, <1>4, <1>5, <1>6, <1>7 DEF Next, Parent

\* The inductive invariant is preserved by every step.
LEMMA IInvStep == IInv /\ [Next]_vars => IInv'
<1> SUFFICES ASSUME IInv, [Next]_vars PROVE IInv'
  OBVIOUS
<1>1. CASE Next
  <2>1. /\ MaskInv' /\ SpawnInv' /\ HaltInv' /\ FeedInv' /\ PipeInv' /\ SentInv'
        /\ AvailableCounts' /\ NoHaltMissed' /\ OtherTypes'
    BY <1>1, MaskInvStep, SpawnInvStep, HaltInvStep, FeedInvStep, PipeInvStep, SentInvStep,
       AvailableCountsStep, NoHaltMissedStep, OtherTypesStep
  <2>2. (Uncounted => ~available[cur])'
    BY <2>1 DEF FeedInv, Feeding, Uncounted, OtherTypes
  <2>3. (numWorkersAvailable \in 0..NumCPUs)'
    <3>1. Uncounted' \in BOOLEAN /\ cur' \in Workers /\ available' \in [Workers -> BOOLEAN]
      BY <2>1 DEF OtherTypes, Uncounted
    <3> QED
      BY <2>1, <2>2, <3>1, CounterRange DEF AvailableCounts
  <2> QED
    BY <2>1, <2>3 DEF IInv, TypeOK, OtherTypes
<1>2. CASE UNCHANGED vars
  BY <1>2 DEF IInv, TypeOK, MaskInv, Masked, Installed, SpawnInv, Spawning, HaltInv, FeedInv,
         Feeding, PipeInv, SentInv, AvailableCounts, Uncounted, NoHaltMissed, vars, main,
         signals, children
<1> QED
  BY <1>1, <1>2

\* IInv is an invariant.
LEMMA IInvHolds == Spec => []IInv
<1> QED
  BY InitIInv, IInvStep, PTL DEF Spec

\* Every variable keeps its type: the counter never leaves 0..kNumCPUs.
THEOREM TypeCorrect == Spec => []TypeOK
<1>1. IInv => TypeOK
  BY DEF IInv
<1> QED
  BY <1>1, IInvHolds, PTL

\* numWorkersAvailable is the number of available workers, whenever the handler
\* interrupts, but between available = false and the decrement.
THEOREM AvailableCountsCorrect == Spec => []AvailableCounts
<1>1. IInv => AvailableCounts
  BY DEF IInv
<1> QED
  BY <1>1, IInvHolds, PTL

\* A number goes to a worker that has halted, has been reported, and has an
\* empty pipe, and that worker stays so until it is continued.
THEOREM FeedsHaltedWorkerCorrect == Spec => []FeedsHaltedWorker
<1>1. IInv => FeedsHaltedWorker
  BY DEF IInv, TypeOK, FeedInv, PipeInv, Feeding, FeedsHaltedWorker
<1> QED
  BY <1>1, IInvHolds, PTL

\* A worker whose halt has been reported is available or being fed, wherever in
\* the parent's program the SIGCHLD arrives.
THEOREM NoHaltMissedCorrect == Spec => []NoHaltMissed
<1>1. IInv => NoHaltMissed
  BY DEF IInv
<1> QED
  BY <1>1, IInvHolds, PTL
==============================================================================
