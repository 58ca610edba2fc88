--------------------------- MODULE MapReduceProofs ---------------------------
(***************************************************************************)
(* Proofs about MapReduce for any chunks, number of workers, ways to start *)
(* the server, and failures and losses in any order.                       *)
(*                                                                         *)
(* The argument.  A pattern in flight is with one worker, or in one report *)
(* on its way (AccountInv), unless a worker was lost with it, or before it *)
(* got the answer with it; each of the two costs a worker (LostInv).  The  *)
(* messages of a worker are handled in their order, so a worker that is    *)
(* told to exit has had all its reports handled (ReportInv).  Hence, if no *)
(* worker is lost, nothing of the first phase is left in flight, or in the *)
(* backlog, when the second one is staged (PhaseInv).                      *)
(***************************************************************************)
EXTENDS MapReduce, FiniteSetTheorems, TLAPS

Waiting == {"waitMap", "waitReduce"}
Resting == {"none", "exited"}
Idle == {"none", "request", "await", "exited"}     \* without a pattern
MapLabels == {"request", "await", "process", "open", "spread", "report", "remove", "exited"}
ReduceLabels == {"request", "await", "sort", "reduce", "report", "exited"}

\* The types of what counts here: not the files, nor the bounds of failures.
Types ==
    /\ pc \in MainPc /\ splitValue \in SplitValues \cup {0}
    /\ unprocessed \in Seq(Patterns) /\ inflight \subseteq Patterns
    /\ confirmed \subseteq Patterns /\ backlog \in Seq(Message)
    /\ worker \in [Workers -> WorkerPc]
    /\ pattern \in [Workers -> Patterns \cup {NoPattern}]
    /\ leaving \in [Workers -> BOOLEAN] /\ crashes \in Nat

\* Where the workers may be is a matter of the phase.
LabelInv ==
    /\ pc \notin Waiting => \A w \in Workers : worker[w] \in Resting
    /\ pc = "waitMap" => \A w \in Workers : worker[w] \in MapLabels
    /\ pc = "waitReduce" => \A w \in Workers : worker[w] \in ReduceLabels
    /\ \A w \in Workers : /\ worker[w] \in Idle <=> pattern[w] = NoPattern
                          /\ leaving[w] => worker[w] = "report" /\ pc = "waitReduce"

\* Until the buckets are staged there are only chunks.
Staged == {"spawnReduce", "waitReduce", "bringDown", "join", "ended"}
ChunkInv ==
    /\ pc \notin Staged => /\ \A i \in DOMAIN unprocessed : unprocessed[i] \in Chunks
                           /\ inflight \subseteq Chunks
    /\ pc = "waitMap" => \A w \in Workers : worker[w] \notin Idle => pattern[w] \in Chunks
    /\ pc \notin {"start", "failed"} => splitValue \in SplitValues

\* A worker that has asked, and one only, waits for an answer.
MessageInv ==
    /\ \A i \in DOMAIN backlog : backlog[i].from # Nobody => worker[backlog[i].from] = "await"
    /\ \A i, j \in DOMAIN backlog :
          backlog[i].from # Nobody /\ backlog[i].from = backlog[j].from => i = j

\* The worker is going to report its pattern.
Holds(w) == pattern[w] # NoPattern /\ worker[w] # "remove"

\* A report is of a pattern in flight, and of one that nobody else will report.
AccountInv ==
    /\ \A i \in DOMAIN backlog :
          backlog[i].pattern # NoPattern =>
              /\ backlog[i].pattern \in inflight
              /\ \A j \in DOMAIN backlog : backlog[j].pattern = backlog[i].pattern => i = j
              /\ \A w \in Workers : Holds(w) => pattern[w] # backlog[i].pattern
    /\ \A w \in Workers :
          Holds(w) => /\ pattern[w] \in inflight
                      /\ \A v \in Workers : Holds(v) /\ pattern[v] = pattern[w] => v = w

\* What is queued is queued once, and not in flight.
QueueInv ==
    /\ \A i \in DOMAIN unprocessed : unprocessed[i] \notin inflight
    /\ \A i, j \in DOMAIN unprocessed : unprocessed[i] = unprocessed[j] => i = j

\* Patterns that nobody will report, and questions whose answer nobody will get.
Lost == {p \in inflight : /\ \A i \in DOMAIN backlog : backlog[i].pattern # p
                          /\ \A w \in Workers : Holds(w) => pattern[w] # p}
Orphaned == {i \in DOMAIN backlog : backlog[i].type = "ready" /\ backlog[i].from = Nobody}

LostInv == /\ IsFiniteSet(inflight)
           /\ Cardinality(Lost) + Cardinality(Orphaned) <= crashes
           /\ crashes = 0 => \A i \in DOMAIN backlog : backlog[i].type # "unknown"

\* The worker that sent the report at i has not been told to exit since.
Behind(i) == \/ \E w \in Workers : worker[w] \in {"remove", "request"}
             \/ \E j \in DOMAIN backlog : j > i /\ backlog[j].from # Nobody
ReportInv ==
    pc = "waitMap" /\ crashes = 0 =>
        \A i \in DOMAIN backlog : backlog[i].pattern # NoPattern => Behind(i)

\* What the phase has to do is queued, in flight, or confirmed.
Divided(S) == /\ Queued \cup inflight \cup confirmed = S
              /\ Queued \cap confirmed = {} /\ inflight \cap confirmed = {}
PhaseInv ==
    /\ pc \in {"start", "failed", "stageMap", "spawnMap"} =>
          backlog = <<>> /\ inflight = {} /\ confirmed = {}
    /\ pc \in {"start", "failed", "stageMap"} => unprocessed = <<>>
    /\ crashes = 0 =>
          /\ pc \in {"spawnMap", "waitMap"} => Divided(Chunks)
          /\ pc \in {"clear", "stageReduce", "spawnReduce"} => backlog = <<>> /\ inflight = {}
          /\ pc = "stageReduce" => unprocessed = <<>> /\ confirmed = {}
          /\ pc \in {"spawnReduce", "waitReduce"} => Divided(Buckets)

IInv == /\ Types /\ LabelInv /\ ChunkInv /\ MessageInv /\ AccountInv /\ QueueInv
        /\ LostInv /\ ReportInv /\ PhaseInv

-----------------------------------------------------------------------------
(* Numbers, messages, and sequences.                                       *)

\* The split value of a server that has started is a positive number.
LEMMA SplitValueType == SplitValues \subseteq Nat \ {0}
<1> SUFFICES ASSUME NEW inv \in Invocations, Starts(inv)
             PROVE  SplitValue(inv) \in Nat \ {0}
  BY DEF SplitValues
<1> DEFINE config == inv.files[Option(inv.options, "config")]
           maps == Entry(config, "num-mappers")
           reduces == Entry(config, "num-reducers")
<1>1. ConfigAccepted(config)
  BY DEF Starts
<1>2. \A key \in {"num-mappers", "num-reducers"} :
         InRange(Entry(config, key), 1, kNumWorkerThreads)
  BY <1>1 DEF ConfigAccepted
<1>3. InRange(maps, 1, 32) /\ InRange(reduces, 1, 32)
  BY <1>2 DEF kNumWorkerThreads
<1>4. SplitValue(inv) = maps * reduces
  BY DEF SplitValue
<1> HIDE DEF config, maps, reduces
<1>5. maps \in 1..32 /\ reduces \in 1..32
  BY <1>3 DEF InRange
<1> QED
  BY <1>4, <1>5

\* The patterns of the reducers are among all patterns, and none is a chunk.
LEMMA BucketsType ==
    ASSUME splitValue \in SplitValues
    PROVE  /\ splitValue \in Nat \ {0} /\ Buckets \subseteq BucketPatterns
           /\ Buckets \subseteq Patterns /\ Buckets \cap Chunks = {}
BY SplitValueType, ChunksAssumption DEF Buckets, BucketPatterns, Patterns

\* What the fields of a message say of each other.
LEMMA MessageKinds ==
    ASSUME NEW m \in Message
    PROVE  /\ m.type \in {"ready", "unknown", "succeeded", "failed"}
           /\ m.type \in {"ready", "unknown"} => m.pattern = NoPattern
           /\ m.type \in {"succeeded", "failed"} =>
                 m.pattern \in Patterns /\ m.pattern # NoPattern /\ m.from = Nobody
           /\ m.from \in Workers \cup {Nobody}
           /\ m.type = "unknown" => m.from = Nobody
           /\ Nobody \notin Workers
BY BoundsAssumption DEF Message

\* The messages there may be.
LEMMA Messages ==
    /\ \A w \in Workers \cup {Nobody} :
          [type |-> "ready", from |-> w, pattern |-> NoPattern] \in Message
    /\ [type |-> "unknown", from |-> Nobody, pattern |-> NoPattern] \in Message
    /\ \A t \in {"succeeded", "failed"}, p \in Patterns :
          [type |-> t, from |-> Nobody, pattern |-> p] \in Message
BY DEF Message

\* A sequence without its first element.
LEMMA Popping ==
    ASSUME NEW S, NEW s \in Seq(S), NEW t, s # <<>>, t = Tail(s)
    PROVE  /\ t \in Seq(S) /\ Head(s) = s[1] /\ s[1] \in S /\ 1 \in DOMAIN s
           /\ DOMAIN s \subseteq Nat \ {0} /\ DOMAIN t \subseteq Nat \ {0}
           /\ \A i \in DOMAIN t : i + 1 \in DOMAIN s /\ t[i] = s[i + 1]
           /\ \A i \in DOMAIN s : i # 1 => i - 1 \in DOMAIN t /\ t[i - 1] = s[i]
OBVIOUS

\* A sequence with one more element.
LEMMA Pushing ==
    ASSUME NEW S, NEW s \in Seq(S), NEW m \in S, NEW t, t = Append(s, m)
    PROVE  /\ t \in Seq(S) /\ Len(s) \in Nat
           /\ DOMAIN s \subseteq Nat \ {0} /\ DOMAIN t = DOMAIN s \cup {Len(s) + 1}
           /\ t[Len(s) + 1] = m
           /\ \A i \in DOMAIN s : i < Len(s) + 1 /\ t[i] = s[i]
OBVIOUS

\* What is one step behind is not more.
LEMMA Shifted ==
    ASSUME NEW S, IsFiniteSet(S), NEW T \in SUBSET Int, \A i \in T : i + 1 \in S
    PROVE  IsFiniteSet(T) /\ Cardinality(T) <= Cardinality(S)
<1> DEFINE f == [i \in T |-> i + 1]
<1>1. f \in [T -> S]
  OBVIOUS
<1>2. \A i, j \in T : f[i] = f[j] => i = j
  OBVIOUS
<1>3. f \in Injection(T, S)
  BY <1>1, <1>2 DEF Injection, IsInjective
<1> QED
  BY <1>3, FS_Injection

\* One element makes a set larger by one at most.
LEMMA OneMore ==
    ASSUME NEW S, IsFiniteSet(S), NEW x
    PROVE  /\ IsFiniteSet(S \cup {x}) /\ Cardinality(S \cup {x}) \in Nat
           /\ Cardinality(S) \in Nat /\ Cardinality(S \cup {x}) <= Cardinality(S) + 1
<1> DEFINE n == Cardinality(S)  k == Cardinality(S \cup {x})
<1>1. n \in Nat
  BY FS_CardinalityType
<1>2. IsFiniteSet(S \cup {x}) /\ k = IF x \in S THEN n ELSE n + 1
  BY FS_AddElement
<1> HIDE DEF n, k
<1>3. k \in Nat /\ k <= n + 1
  BY <1>1, <1>2
<1> QED
  BY <1>1, <1>2, <1>3 DEF n, k

-----------------------------------------------------------------------------
(* Steps.                                                                  *)

\* The worker of a step that touches no pattern and no message is where it was,
\* or goes from one thing it does with its pattern to the next.
Internal ==
    /\ UNCHANGED <<pc, splitValue, queues, backlog, pattern, confirmed, crashes>>
    /\ \A v \in Workers : worker'[v] = worker[v]
                          \/ {worker[v], worker'[v]} \cap (Idle \cup {"remove"}) = {}
WorksOn(w) == \/ ProcessOK(w) \/ ProcessFails(w) \/ OpenOutput(w) \/ Spread(w)
              \/ Sort(w) \/ SortFails(w) \/ ReduceOK(w) \/ ReduceFails(w)

\* The server thread starts and stops, and workers do their work, without that.
LEMMA InternalSteps ==
    ASSUME Types, ServerStarts \/ ServerStops \/ \E w \in Workers : WorksOn(w)
    PROVE  Internal
<1> USE DEF Types, Internal, Idle, queues, workers, files, results, settings, bounds
<1>1. ASSUME ServerStarts \/ ServerStops PROVE Internal
  BY <1>1 DEF ServerStarts, ServerStops
<1>2. ASSUME NEW w \in Workers, NEW ok, NEW kept, Processed(w, ok, kept) PROVE Internal
  BY <1>2 DEF Processed, server
<1>3. ASSUME NEW w \in Workers, OpenOutput(w) PROVE Internal
  BY <1>3 DEF OpenOutput, server
<1>4. ASSUME NEW w \in Workers, Spread(w) PROVE Internal
  <2>1. PICK i \in PairsBehind(pattern[w], spread[w]) :
          worker' = [worker EXCEPT ![w] =
             IF PairsBehind(pattern[w], spread[w]) = {i} THEN "report" ELSE "spread"]
    BY <1>4 DEF Spread
  <2> DEFINE label == IF PairsBehind(pattern[w], spread[w]) = {i} THEN "report" ELSE "spread"
  <2>2. /\ worker[w] = "spread" /\ worker' = [worker EXCEPT ![w] = label]
        /\ UNCHANGED <<pc, server, queues, backlog, pattern, confirmed, bounds>>
    BY <1>4, <2>1 DEF Spread
  <2>3. label \in {"report", "spread"}
    OBVIOUS
  <2> HIDE DEF label
  <2> QED
    BY <2>2, <2>3 DEF server
<1>5. ASSUME NEW w \in Workers, Sort(w) PROVE Internal
  BY <1>5 DEF Sort, server
<1>6. ASSUME NEW w \in Workers, SortFails(w) PROVE Internal
  BY <1>6 DEF SortFails, server
<1>7. ASSUME NEW w \in Workers, NEW ok, Reduced(w, ok) PROVE Internal
  BY <1>7 DEF Reduced, server
<1> QED
  BY <1>1, <1>2, <1>3, <1>4, <1>5, <1>6, <1>7
  DEF WorksOn, ProcessOK, ProcessFails, ReduceOK, ReduceFails

\* What handling a message does to the backlog.
Pops(type) ==
    /\ backlog' \in Seq(Message) /\ backlog[1] \in Message /\ 1 \in DOMAIN backlog
    /\ backlog[1].type = type /\ Head(backlog) = backlog[1]
    /\ DOMAIN backlog \subseteq Nat \ {0} /\ DOMAIN backlog' \subseteq Nat \ {0}
    /\ \A i \in DOMAIN backlog' : i + 1 \in DOMAIN backlog /\ backlog'[i] = backlog[i + 1]
    /\ \A i \in DOMAIN backlog :
          i # 1 => i - 1 \in DOMAIN backlog' /\ backlog'[i - 1] = backlog[i]

\* Receives does that.
LEMMA Popped ==
    ASSUME Types, NEW type, Receives(type)
    PROVE  Pops(type)
<1>1. backlog \in Seq(Message) /\ backlog # <<>> /\ backlog' = Tail(backlog)
      /\ Head(backlog).type = type
  BY DEF Receives, Types
<1> QED
  BY <1>1, Popping DEF Pops

\* What sending a message does to it.
Last == Len(backlog) + 1
Pushes(m) ==
    /\ backlog' \in Seq(Message) /\ m \in Message /\ Last \in Nat
    /\ DOMAIN backlog \subseteq Nat \ {0} /\ DOMAIN backlog' = DOMAIN backlog \cup {Last}
    /\ backlog'[Last] = m
    /\ \A i \in DOMAIN backlog : i < Last /\ backlog'[i] = backlog[i]

\* Sends does that.
LEMMA Pushed ==
    ASSUME Types, NEW m \in Message, backlog' = Append(backlog, m)
    PROVE  Pushes(m)
<1>1. backlog \in Seq(Message)
  BY DEF Types
<1> QED
  BY <1>1, Pushing DEF Pushes, Last

\* What the answer does to its worker.
Answers(label, p) ==
    LET w == backlog[1].from
    IN IF w # Nobody
       THEN /\ w \in Workers /\ worker' = [worker EXCEPT ![w] = label]
            /\ pattern' = [pattern EXCEPT ![w] = p]
       ELSE UNCHANGED <<worker, pattern>>

\* Reply does that.
LEMMA Answered ==
    ASSUME Types, NEW type, Receives(type), NEW label, NEW p, Reply(Head(backlog).from, label, p)
    PROVE  Answers(label, p)
<1>1. backlog[1] \in Message /\ Head(backlog) = backlog[1]
  BY Popped DEF Pops
<1>2. backlog[1].from \in Workers \cup {Nobody}
  BY <1>1, MessageKinds
<1> QED
  BY <1>1, <1>2 DEF Reply, Answers

\* The first of the queued patterns becomes one in flight.
Takes ==
    /\ unprocessed' \in Seq(Patterns) /\ 1 \in DOMAIN unprocessed
    /\ Head(unprocessed) = unprocessed[1] /\ unprocessed[1] \in Patterns
    /\ unprocessed[1] # NoPattern /\ inflight' = inflight \cup {unprocessed[1]}
    /\ DOMAIN unprocessed \subseteq Nat \ {0} /\ DOMAIN unprocessed' \subseteq Nat \ {0}
    /\ \A i \in DOMAIN unprocessed' :
          i + 1 \in DOMAIN unprocessed /\ unprocessed'[i] = unprocessed[i + 1]
    /\ \A i \in DOMAIN unprocessed :
          i # 1 => i - 1 \in DOMAIN unprocessed' /\ unprocessed'[i - 1] = unprocessed[i]

\* surfaceNextFilePattern() does that.
LEMMA Taken ==
    ASSUME Types, HandleReadyStart
    PROVE  Takes
<1>1. /\ unprocessed \in Seq(Patterns) /\ unprocessed # <<>> /\ unprocessed' = Tail(unprocessed)
      /\ inflight' = inflight \cup {Head(unprocessed)}
  BY DEF HandleReadyStart, Types
<1>2. NoPattern \notin Patterns
  BY BoundsAssumption
<1> QED
  BY <1>1, <1>2, Popping DEF Takes

\* A pattern is queued behind the others.
Requeues(p) ==
    /\ unprocessed' \in Seq(Patterns) /\ Len(unprocessed) + 1 \in Nat
    /\ p \in Patterns /\ p # NoPattern
    /\ DOMAIN unprocessed \subseteq Nat \ {0}
    /\ DOMAIN unprocessed' = DOMAIN unprocessed \cup {Len(unprocessed) + 1}
    /\ unprocessed'[Len(unprocessed) + 1] = p
    /\ \A i \in DOMAIN unprocessed :
          i < Len(unprocessed) + 1 /\ unprocessed'[i] = unprocessed[i]

\* rescheduleFilePattern() does that.
LEMMA Requeued ==
    ASSUME Types, HandleFailed
    PROVE  Requeues(backlog[1].pattern) /\ inflight' = inflight \ {backlog[1].pattern}
<1>1. Pops("failed")
  BY Popped DEF HandleFailed
<1>2. backlog[1].pattern \in Patterns /\ backlog[1].pattern # NoPattern
  BY <1>1, MessageKinds DEF Pops
<1>3. /\ unprocessed' = Append(unprocessed, backlog[1].pattern)
      /\ inflight' = inflight \ {backlog[1].pattern}
  BY <1>1 DEF HandleFailed, Pops
<1>4. unprocessed \in Seq(Patterns)
  BY DEF Types
<1> QED
  BY <1>2, <1>3, <1>4, Pushing DEF Requeues

-----------------------------------------------------------------------------
(* The invariant, part by part.                                            *)

\* The server before the program has read its arguments satisfies it.
LEMMA InitIInv == Init => IInv
<1> SUFFICES ASSUME Init PROVE IInv
  OBVIOUS
<1>1. Types
  BY DEF Init, Types, MainPc, WorkerPc
<1>2. LabelInv /\ ChunkInv /\ MessageInv /\ AccountInv /\ QueueInv /\ ReportInv
  BY DEF Init, LabelInv, ChunkInv, MessageInv, AccountInv, QueueInv, ReportInv, Waiting,
         Resting, Idle, Holds, Staged
<1>3. Lost = {} /\ Orphaned = {}
  BY DEF Init, Lost, Orphaned
<1>4. LostInv
  BY <1>3, FS_EmptySet DEF Init, LostInv
<1>5. PhaseInv
  BY DEF Init, PhaseInv
<1> QED
  BY <1>1, <1>2, <1>4, <1>5 DEF IInv

\* Internal steps keep the types, and lead to a label of the phase.
LEMMA InternalLabels ==
    ASSUME Types, LabelInv, ServerStarts \/ ServerStops \/ \E w \in Workers : WorksOn(w)
    PROVE  Types' /\ LabelInv'
<1> USE DEF Types, LabelInv, Idle, Waiting, Resting, MapLabels, ReduceLabels, WorkerPc,
            queues, workers, files, results, settings, bounds
<1>1. ASSUME ServerStarts \/ ServerStops PROVE Types' /\ LabelInv'
  BY <1>1 DEF ServerStarts, ServerStops
<1>2. ASSUME NEW w \in Workers, NEW ok, NEW kept, Processed(w, ok, kept)
      PROVE  Types' /\ LabelInv'
  BY <1>2 DEF Processed, server
<1>3. ASSUME NEW w \in Workers, OpenOutput(w) PROVE Types' /\ LabelInv'
  BY <1>3 DEF OpenOutput, server
<1>4. ASSUME NEW w \in Workers, Spread(w) PROVE Types' /\ LabelInv'
  <2>1. PICK i \in PairsBehind(pattern[w], spread[w]) :
          worker' = [worker EXCEPT ![w] =
             IF PairsBehind(pattern[w], spread[w]) = {i} THEN "report" ELSE "spread"]
    BY <1>4 DEF Spread
  <2> DEFINE label == IF PairsBehind(pattern[w], spread[w]) = {i} THEN "report" ELSE "spread"
  <2>2. /\ worker[w] = "spread" /\ worker' = [worker EXCEPT ![w] = label]
        /\ UNCHANGED <<pc, server, queues, backlog, pattern, leaving, confirmed, bounds>>
    BY <1>4, <2>1 DEF Spread
  <2>3. label \in {"report", "spread"}
    OBVIOUS
  <2> HIDE DEF label
  <2> QED
    BY <2>2, <2>3 DEF server
<1>5. ASSUME NEW w \in Workers, Sort(w) PROVE Types' /\ LabelInv'
  BY <1>5 DEF Sort, server
<1>6. ASSUME NEW w \in Workers, SortFails(w) PROVE Types' /\ LabelInv'
  BY <1>6 DEF SortFails, server
<1>7. ASSUME NEW w \in Workers, NEW ok, Reduced(w, ok) PROVE Types' /\ LabelInv'
  BY <1>7 DEF Reduced, server
<1> QED
  BY <1>1, <1>2, <1>3, <1>4, <1>5, <1>6, <1>7
  DEF WorksOn, ProcessOK, ProcessFails, ReduceOK, ReduceFails

\* The steps of the main thread keep the types and the labels.
LEMMA MainLabels ==
    ASSUME Types, LabelInv, ChunkInv, Main
    PROVE  Types' /\ LabelInv'
<1> USE DEF Types, LabelInv, Waiting, Resting, MainPc, Step, workers, server, settings, bounds,
            files, results
<1>1. ASSUME Start PROVE Types' /\ LabelInv'
  BY <1>1 DEF Start, queues, SplitValues
<1>2. ASSUME StageMap PROVE Types' /\ LabelInv'
  <2>1. Cardinality(Chunks) \in Nat
    BY ChunksAssumption, FS_CardinalityType
  <2>2. unprocessed' \in Seq(Patterns)
    BY <1>2, <2>1 DEF StageMap, Listings, Patterns
  <2> QED
    BY <1>2, <2>2 DEF StageMap
<1>3. ASSUME NEW from, NEW to \in Waiting, SpawnWorkers(from, to), from \notin Waiting
      PROVE  Types' /\ LabelInv'
  <2>1. worker' = [w \in Workers |-> "request"] /\ pc = from /\ pc' = to
        /\ UNCHANGED <<splitValue, unprocessed, inflight, backlog, pattern, leaving, confirmed,
                       crashes>>
    BY <1>3 DEF SpawnWorkers, queues
  <2>2. Types'
    BY <2>1 DEF WorkerPc
  <2> QED
    BY <1>3, <2>1, <2>2 DEF Idle, MapLabels, ReduceLabels
<1>4. ASSUME NEW from, NEW to \in MainPc \ Waiting, PoolWait(from, to) PROVE Types' /\ LabelInv'
  BY <1>4 DEF PoolWait, queues
<1>5. ASSUME ClearUnprocessed PROVE Types' /\ LabelInv'
  BY <1>5 DEF ClearUnprocessed
<1>6. ASSUME StageReduce PROVE Types' /\ LabelInv'
  <2> DEFINE more == [i \in 1..splitValue |-> i - 1]
  <2>1. splitValue \in Nat /\ Buckets \subseteq Patterns
    BY <1>6, BucketsType DEF StageReduce, ChunkInv
  <2>2. more \in Seq(Patterns)
    BY <2>1 DEF Buckets
  <2>3. unprocessed' = unprocessed \o more
    BY <1>6 DEF StageReduce
  <2> HIDE DEF more
  <2>4. unprocessed' \in Seq(Patterns)
    BY <2>2, <2>3
  <2> QED
    BY <1>6, <2>4 DEF StageReduce
<1>7. ASSUME BringDownServer \/ JoinServer PROVE Types' /\ LabelInv'
  BY <1>7 DEF BringDownServer, JoinServer, queues
<1> QED
  BY <1>1, <1>2, <1>3, <1>4, <1>5, <1>6, <1>7
  DEF Main, SpawnMappers, SpawnReducers, WaitMappers, WaitReducers

\* An answer is for a worker that waits, and leads to the labels of the phase.
LEMMA AnswerLabels ==
    ASSUME Types, LabelInv, MessageInv, NEW type, Pops(type),
           NEW label, NEW p, Answers(label, p), UNCHANGED <<pc, leaving>>,
           \/ label = "exited" /\ p = NoPattern
           \/ label = (IF Mapping THEN "process" ELSE "sort") /\ p \in Patterns /\ p # NoPattern
    PROVE  /\ LabelInv' /\ worker' \in [Workers -> WorkerPc]
           /\ pattern' \in [Workers -> Patterns \cup {NoPattern}]
<1> USE DEF Types, LabelInv, Waiting, Resting, Idle, MapLabels, ReduceLabels, WorkerPc, Mapping
<1>1. CASE backlog[1].from = Nobody
  <2>1. UNCHANGED <<worker, pattern>>
    BY <1>1 DEF Answers
  <2> QED
    BY <2>1
<1>2. CASE backlog[1].from # Nobody
  <2> DEFINE w == backlog[1].from
  <2>1. /\ w \in Workers /\ worker' = [worker EXCEPT ![w] = label]
        /\ pattern' = [pattern EXCEPT ![w] = p]
    BY <1>2 DEF Answers
  <2>2. worker[w] = "await"
    BY <1>2 DEF Pops, MessageInv
  <2> HIDE DEF w
  <2>3. pc \in Waiting
    BY <2>1, <2>2
  <2> QED
    BY <2>1, <2>2, <2>3
<1> QED
  BY <1>1, <1>2

\* The steps of the server thread keep the types and the labels.
LEMMA ServerLabels ==
    ASSUME Types, LabelInv, MessageInv, HandleRequest
    PROVE  Types' /\ LabelInv'
<1> USE DEF server, settings, queues, workers, files, results, bounds
<1>1. ASSUME HandleReadyStart PROVE Types' /\ LabelInv'
  <2> DEFINE label == IF Mapping THEN "process" ELSE "sort"
             p == unprocessed[1]
  <2>1. Takes /\ Pops("ready")
    BY <1>1, Taken, Popped DEF HandleReadyStart
  <2>2. Reply(Head(backlog).from, label, p) /\ UNCHANGED <<pc, server, leaving, confirmed, bounds>>
    BY <1>1, <2>1 DEF HandleReadyStart, Takes
  <2>3. Receives("ready")
    BY <1>1 DEF HandleReadyStart
  <2> HIDE DEF label, p
  <2>4. Answers(label, p)
    BY <2>2, <2>3, Answered
  <2>5. /\ LabelInv' /\ worker' \in [Workers -> WorkerPc]
        /\ pattern' \in [Workers -> Patterns \cup {NoPattern}]
    BY <2>1, <2>2, <2>4, AnswerLabels DEF label, p, Takes
  <2> QED
    BY <2>1, <2>2, <2>5 DEF Types, Takes, Pops
<1>2. ASSUME HandleReadyDone PROVE Types' /\ LabelInv'
  <2>1. Pops("ready") /\ Answers("exited", NoPattern)
        /\ UNCHANGED <<pc, server, queues, leaving, confirmed, bounds>>
    BY <1>2, Popped, Answered DEF HandleReadyDone
  <2>2. /\ LabelInv' /\ worker' \in [Workers -> WorkerPc]
        /\ pattern' \in [Workers -> Patterns \cup {NoPattern}]
    BY <2>1, AnswerLabels
  <2> QED
    BY <2>1, <2>2 DEF Types, Pops
<1>3. ASSUME HandleSucceeded PROVE Types' /\ LabelInv'
  <2>1. Pops("succeeded")
    BY <1>3, Popped DEF HandleSucceeded
  <2>2. backlog[1].pattern \in Patterns
    BY <2>1, MessageKinds DEF Pops
  <2>3. /\ inflight' = inflight \ {backlog[1].pattern}
        /\ confirmed' = confirmed \cup {backlog[1].pattern}
        /\ UNCHANGED <<pc, server, unprocessed, workers, bounds>>
    BY <1>3, <2>1 DEF HandleSucceeded, Pops
  <2> QED
    BY <2>1, <2>2, <2>3 DEF Types, Pops, LabelInv
<1>4. ASSUME HandleFailed PROVE Types' /\ LabelInv'
  <2>1. Pops("failed") /\ Requeues(backlog[1].pattern)
        /\ inflight' = inflight \ {backlog[1].pattern}
    BY <1>4, Popped, Requeued DEF HandleFailed
  <2>2. UNCHANGED <<pc, server, workers, confirmed, bounds>>
    BY <1>4 DEF HandleFailed
  <2> QED
    BY <2>1, <2>2 DEF Types, Pops, Requeues, LabelInv
<1>5. ASSUME HandleUnknown PROVE Types' /\ LabelInv'
  <2>1. Pops("unknown") /\ UNCHANGED <<pc, server, queues, workers, confirmed, bounds>>
    BY <1>5, Popped DEF HandleUnknown
  <2> QED
    BY <2>1 DEF Types, Pops, LabelInv
<1> QED
  BY <1>1, <1>2, <1>3, <1>4, <1>5 DEF HandleRequest

\* A worker that reports its pattern: the message, and where it is then.
Reports(w, m) ==
    /\ worker[w] = "report" /\ Pushes(m)
    /\ m.from = Nobody /\ m.type \in {"succeeded", "failed"} /\ m.pattern = pattern[w]
    /\ pattern[w] \in Patterns /\ pattern[w] # NoPattern
    /\ UNCHANGED <<pc, splitValue, queues, confirmed, crashes>>
    /\ leaving' = [leaving EXCEPT ![w] = FALSE]
    /\ \/ /\ pc = "waitMap" /\ worker' = [worker EXCEPT ![w] = "remove"] /\ pattern' = pattern
       \/ /\ pc = "waitReduce" /\ pattern' = [pattern EXCEPT ![w] = NoPattern]
          /\ \E label \in {"request", "exited"} : worker' = [worker EXCEPT ![w] = label]

\* notifyServer() and what follows it are that.
LEMMA ReportSteps ==
    ASSUME Types, LabelInv, NEW w \in Workers, Report(w)
    PROVE  Reports(w, [type |-> Verdict(w), from |-> Nobody, pattern |-> pattern[w]])
<1> DEFINE m == [type |-> Verdict(w), from |-> Nobody, pattern |-> pattern[w]]
<1>1. worker[w] = "report" /\ pattern[w] \in Patterns /\ pattern[w] # NoPattern /\ pc \in Waiting
  BY DEF Report, Types, LabelInv, Idle, Resting
<1>2. Verdict(w) \in {"succeeded", "failed"}
  BY DEF Verdict
<1>3. m \in Message /\ backlog' = Append(backlog, m)
  BY <1>1, <1>2, Messages DEF Report, Sends
<1>4. Pushes(m)
  BY <1>3, Pushed
<1>5. m.from = Nobody /\ m.type \in {"succeeded", "failed"} /\ m.pattern = pattern[w]
  BY <1>2
<1>6. UNCHANGED <<pc, splitValue, queues, confirmed, crashes>>
  BY DEF Report, server, settings, bounds
<1>7. /\ leaving' = [leaving EXCEPT ![w] = FALSE]
      /\ pattern' = IF Mapping THEN pattern ELSE [pattern EXCEPT ![w] = NoPattern]
  BY DEF Report, Notified
<1>8. CASE pc = "waitMap"
  <2>1. ~leaving[w] /\ Mapping
    BY <1>8 DEF LabelInv, Mapping
  <2>2. worker' = [worker EXCEPT ![w] = "remove"]
    BY <2>1 DEF Report, Notified
  <2> QED
    BY <1>1, <1>4, <1>5, <1>6, <1>7, <1>8, <2>1, <2>2 DEF Reports
<1>9. CASE pc = "waitReduce"
  <2>1. ~Mapping
    BY <1>9 DEF Mapping
  <2>2. \/ worker' = [worker EXCEPT ![w] = "exited"]
        \/ worker' = [worker EXCEPT ![w] = "request"]
    BY <2>1 DEF Report, Notified
  <2> QED
    BY <1>1, <1>4, <1>5, <1>6, <1>7, <1>9, <2>1, <2>2 DEF Reports
<1> QED
  BY <1>1, <1>8, <1>9 DEF Waiting

\* A worker that is lost: its questions are nobody's, and its pattern is gone.
Widows(w) ==
    /\ backlog' \in Seq(Message) /\ DOMAIN backlog' = DOMAIN backlog
    /\ \A i \in DOMAIN backlog :
          /\ backlog'[i].type = backlog[i].type /\ backlog'[i].pattern = backlog[i].pattern
          /\ backlog'[i].from = IF backlog[i].from = w THEN Nobody ELSE backlog[i].from
Loses(w) ==
    /\ worker[w] \notin Resting /\ worker' = [worker EXCEPT ![w] = "exited"]
    /\ pattern' = [pattern EXCEPT ![w] = NoPattern]
    /\ leaving' = [leaving EXCEPT ![w] = FALSE]
    /\ crashes' = crashes + 1 /\ UNCHANGED <<pc, splitValue, queues, confirmed>>
    /\ \/ Widows(w)
       \/ /\ worker[w] # "await"
          /\ Pushes([type |-> "unknown", from |-> Nobody, pattern |-> NoPattern])

\* Crash is that.
LEMMA CrashSteps ==
    ASSUME Types, NEW w \in Workers, Crash(w)
    PROVE  Loses(w)
<1>1. /\ worker[w] \notin Resting /\ worker' = [worker EXCEPT ![w] = "exited"]
      /\ pattern' = [pattern EXCEPT ![w] = NoPattern]
      /\ leaving' = [leaving EXCEPT ![w] = FALSE]
      /\ crashes' = crashes + 1 /\ UNCHANGED <<pc, splitValue, queues, confirmed>>
  BY DEF Crash, Resting, server, settings
<1>2. ASSUME worker[w] # "await", backlog' = Sends(Nobody, "unknown", NoPattern)
      PROVE  Pushes([type |-> "unknown", from |-> Nobody, pattern |-> NoPattern])
  BY <1>2, Messages, Pushed DEF Sends
<1>3. ASSUME backlog' = [i \in DOMAIN backlog |->
                            IF backlog[i].from = w THEN [backlog[i] EXCEPT !.from = Nobody]
                            ELSE backlog[i]]
      PROVE  Widows(w)
  <2>1. backlog \in Seq(Message)
    BY DEF Types
  <2>2. ASSUME NEW i \in DOMAIN backlog
        PROVE  /\ backlog'[i] \in Message
               /\ backlog'[i].type = backlog[i].type /\ backlog'[i].pattern = backlog[i].pattern
               /\ backlog'[i].from = IF backlog[i].from = w THEN Nobody ELSE backlog[i].from
    <3> DEFINE m == backlog[i]
    <3>1. m \in Message
      BY <2>1
    <3>2. backlog'[i] = IF m.from = w THEN [m EXCEPT !.from = Nobody] ELSE m
      BY <1>3
    <3> HIDE DEF m
    <3>3. CASE m.from = w
      <4>1. m.type = "ready" /\ m.pattern = NoPattern
        BY <3>1, <3>3, MessageKinds
      <4>2. [m EXCEPT !.from = Nobody] = [type |-> "ready", from |-> Nobody, pattern |-> NoPattern]
        BY <3>1, <4>1 DEF Message
      <4>3. [m EXCEPT !.from = Nobody] \in Message
        BY <4>2, Messages
      <4> QED
        BY <3>2, <3>3, <4>1, <4>2, <4>3 DEF m
    <3>4. CASE m.from # w
      BY <3>1, <3>2, <3>4 DEF m
    <3> QED
      BY <3>3, <3>4
  <2>3. DOMAIN backlog' = DOMAIN backlog
    BY <1>3
  <2>4. backlog' \in Seq(Message)
    <3>1. DOMAIN backlog = 1..Len(backlog) /\ Len(backlog) \in Nat
      BY <2>1
    <3>2. backlog' \in [1..Len(backlog) -> Message]
      BY <1>3, <2>2, <3>1
    <3> QED
      BY <3>1, <3>2
  <2> QED
    BY <2>2, <2>3, <2>4 DEF Widows
<1> QED
  BY <1>1, <1>2, <1>3 DEF Crash, Loses

\* The other steps of the workers keep the types and the labels.
LEMMA WorkerLabels ==
    ASSUME Types, LabelInv, NEW w \in Workers,
           Request(w) \/ Report(w) \/ RemoveOutput(w) \/ Crash(w)
    PROVE  Types' /\ LabelInv'
<1> USE DEF server, settings, queues, files, results, bounds, Types, LabelInv, Waiting, Resting,
            Idle, MapLabels, ReduceLabels, WorkerPc
<1>1. ASSUME Request(w) PROVE Types' /\ LabelInv'
  <2>1. Pushes([type |-> "ready", from |-> w, pattern |-> NoPattern])
    BY <1>1, Messages, Pushed DEF Request, Sends
  <2> QED
    BY <1>1, <2>1 DEF Request, Pushes
<1>2. ASSUME Report(w) PROVE Types' /\ LabelInv'
  <2>1. PICK m : Reports(w, m)
    BY <1>2, ReportSteps
  <2>2. backlog' \in Seq(Message)
    BY <2>1 DEF Reports, Pushes
  <2>3. CASE pc = "waitMap" /\ worker' = [worker EXCEPT ![w] = "remove"] /\ pattern' = pattern
    BY <2>1, <2>2, <2>3 DEF Reports
  <2>4. ASSUME NEW label \in {"request", "exited"}, worker' = [worker EXCEPT ![w] = label],
               pc = "waitReduce", pattern' = [pattern EXCEPT ![w] = NoPattern]
        PROVE  Types' /\ LabelInv'
    BY <2>1, <2>2, <2>4 DEF Reports
  <2> QED
    BY <2>1, <2>3, <2>4 DEF Reports
<1>3. ASSUME RemoveOutput(w) PROVE Types' /\ LabelInv'
  BY <1>3 DEF RemoveOutput
<1>4. ASSUME Crash(w) PROVE Types' /\ LabelInv'
  <2>1. Loses(w)
    BY <1>4, CrashSteps
  <2> QED
    BY <2>1 DEF Loses, Widows, Pushes
<1> QED
  BY <1>1, <1>2, <1>3, <1>4

\* Steps which leave patterns in flight, messages, and who holds what.
HoldersKept == \A w \in Workers : /\ Holds(w)' <=> Holds(w)
                                  /\ Holds(w) => pattern'[w] = pattern[w]
Steady == HoldersKept /\ UNCHANGED <<inflight, backlog, crashes>>

\* Internal steps, the main thread's, and the end of a mapper's work are such.
LEMMA SteadySteps ==
    ASSUME Types, LabelInv,
           Internal \/ Main \/ \E w \in Workers : RemoveOutput(w)
    PROVE  Steady
<1> USE DEF Steady, HoldersKept, Holds, Types, server, settings, queues, workers, files, results,
            bounds
<1>1. ASSUME Internal PROVE Steady
  BY <1>1 DEF Internal
<1>2. ASSUME Main PROVE Steady
  <2>1. ASSUME NEW from, NEW to, SpawnWorkers(from, to), from \notin Waiting PROVE Steady
    <3>1. worker' = [w \in Workers |-> "request"] /\ pc = from
          /\ UNCHANGED <<inflight, backlog, crashes, pattern>>
      BY <2>1 DEF SpawnWorkers, Step
    <3>2. \A w \in Workers : pattern[w] = NoPattern
      BY <2>1, <3>1 DEF LabelInv, Resting, Idle
    <3> QED
      BY <3>1, <3>2
  <2>2. ASSUME NEW from, NEW to, PoolWait(from, to) PROVE Steady
    BY <2>2 DEF PoolWait
  <2>3. ASSUME Start \/ StageMap \/ ClearUnprocessed \/ StageReduce \/ BringDownServer
               \/ JoinServer
        PROVE  Steady
    BY <2>3 DEF Start, StageMap, ClearUnprocessed, StageReduce, BringDownServer, JoinServer
  <2> QED
    BY <1>2, <2>1, <2>2, <2>3
    DEF Main, SpawnMappers, SpawnReducers, WaitMappers, WaitReducers, Waiting
<1>3. ASSUME NEW w \in Workers, RemoveOutput(w) PROVE Steady
  BY <1>3 DEF RemoveOutput
<1> QED
  BY <1>1, <1>2, <1>3

\* An answer that says good-bye changes nobody's pattern.
LEMMA DoneKeeps ==
    ASSUME Types, LabelInv, MessageInv, HandleReadyDone
    PROVE  HoldersKept /\ Pops("ready") /\ UNCHANGED <<inflight, crashes>>
<1>1. Pops("ready") /\ Answers("exited", NoPattern) /\ UNCHANGED <<queues, bounds>>
  BY Popped, Answered DEF HandleReadyDone
<1>2. CASE backlog[1].from = Nobody
  BY <1>1, <1>2 DEF Answers, HoldersKept, Holds, queues, bounds
<1>3. CASE backlog[1].from # Nobody
  <2> DEFINE w == backlog[1].from
  <2>1. /\ w \in Workers /\ worker' = [worker EXCEPT ![w] = "exited"]
        /\ pattern' = [pattern EXCEPT ![w] = NoPattern]
    BY <1>1, <1>3 DEF Answers
  <2>2. worker[w] = "await"
    BY <1>1, <1>3 DEF Pops, MessageInv
  <2> HIDE DEF w
  <2>3. pattern[w] = NoPattern
    BY <2>1, <2>2 DEF LabelInv, Idle
  <2> QED
    BY <1>1, <2>1, <2>2, <2>3 DEF HoldersKept, Holds, queues, bounds, Types
<1> QED
  BY <1>2, <1>3

\* The worker that is given a pattern, if it is there to get it.
Gives(p) ==
    IF backlog[1].from = Nobody THEN UNCHANGED <<worker, pattern>>
    ELSE \E w \in Workers : /\ w = backlog[1].from /\ ~Holds(w) /\ pattern[w] = NoPattern
                            /\ worker[w] = "await" /\ worker'[w] \in {"process", "sort"}
                            /\ Holds(w)' /\ pattern'[w] = p
                            /\ \A v \in Workers \ {w} : worker'[v] = worker[v]
                                                        /\ pattern'[v] = pattern[v]

\* The answer with a pattern does that.
LEMMA StartGives ==
    ASSUME Types, LabelInv, MessageInv, HandleReadyStart
    PROVE  /\ Gives(unprocessed[1]) /\ Pops("ready") /\ Takes
           /\ UNCHANGED <<pc, splitValue, confirmed, crashes>>
<1> DEFINE label == IF Mapping THEN "process" ELSE "sort"
           p == unprocessed[1]
<1>1. Takes /\ Pops("ready") /\ UNCHANGED <<pc, server, confirmed, bounds>>
  BY Taken, Popped DEF HandleReadyStart
<1>2. Reply(Head(backlog).from, label, p) /\ Receives("ready")
  BY <1>1 DEF HandleReadyStart, Takes
<1>3. label \in {"process", "sort"} /\ p # NoPattern
  BY <1>1 DEF Takes
<1> HIDE DEF label, p
<1>4. Answers(label, p)
  BY <1>2, Answered
<1>5. CASE backlog[1].from = Nobody
  BY <1>1, <1>4, <1>5 DEF Answers, Gives, server, settings, bounds, p
<1>6. CASE backlog[1].from # Nobody
  <2>1. backlog[1].from \in Workers
    BY <1>4, <1>6 DEF Answers
  <2>2. PICK w \in Workers : w = backlog[1].from
    BY <2>1
  <2>3. /\ w \in Workers /\ worker' = [worker EXCEPT ![w] = label]
        /\ pattern' = [pattern EXCEPT ![w] = p]
    BY <1>4, <1>6, <2>2 DEF Answers
  <2>4. worker[w] = "await"
    BY <1>1, <1>6, <2>2 DEF Pops, MessageInv
  <2>5. pattern[w] = NoPattern
    BY <2>3, <2>4 DEF LabelInv, Idle
  <2>6. /\ ~Holds(w) /\ pattern[w] = NoPattern /\ worker[w] = "await"
        /\ worker'[w] \in {"process", "sort"} /\ Holds(w)' /\ pattern'[w] = p
        /\ \A v \in Workers \ {w} : worker'[v] = worker[v] /\ pattern'[v] = pattern[v]
    <3>1. worker'[w] = label /\ pattern'[w] = p
      BY <2>3 DEF Types
    <3>2. \A v \in Workers \ {w} : worker'[v] = worker[v] /\ pattern'[v] = pattern[v]
      BY <2>3 DEF Types
    <3> QED
      BY <1>3, <2>4, <2>5, <3>1, <3>2 DEF Holds
  <2>7. Gives(p)
    BY <1>6, <2>6, <2>2 DEF Gives
  <2> QED
    BY <1>1, <2>7 DEF server, settings, bounds, p
<1> QED
  BY <1>5, <1>6

\* The part of the invariant about chunks.
LEMMA ChunkStep ==
    ASSUME IInv, Next
    PROVE  ChunkInv'
<1> USE DEF IInv, ChunkInv, Types, server, settings, queues, workers, files, results, bounds
<1>1. ASSUME Internal PROVE ChunkInv'
  BY <1>1 DEF Internal, Idle
<1>2. ASSUME Main PROVE ChunkInv'
  <2> USE DEF Step, Staged
  <2>1. ASSUME Start PROVE ChunkInv'
    BY <2>1 DEF Start, PhaseInv, SplitValues
  <2>2. ASSUME StageMap PROVE ChunkInv'
    <3>1. Cardinality(Chunks) \in Nat
      BY ChunksAssumption, FS_CardinalityType
    <3>2. \A i \in DOMAIN unprocessed' : unprocessed'[i] \in Chunks
      BY <2>2, <3>1 DEF StageMap, Listings
    <3> QED
      BY <2>2, <3>2 DEF StageMap
  <2>3. ASSUME SpawnMappers PROVE ChunkInv'
    BY <2>3 DEF SpawnMappers, SpawnWorkers, Idle
  <2>4. ASSUME WaitMappers \/ WaitReducers PROVE ChunkInv'
    BY <2>4 DEF WaitMappers, WaitReducers, PoolWait
  <2>5. ASSUME ClearUnprocessed PROVE ChunkInv'
    BY <2>5 DEF ClearUnprocessed
  <2>6. ASSUME StageReduce \/ BringDownServer \/ JoinServer PROVE ChunkInv'
    BY <2>6 DEF StageReduce, BringDownServer, JoinServer
  <2>7. ASSUME SpawnReducers PROVE ChunkInv'
    BY <2>7 DEF SpawnReducers, SpawnWorkers
  <2> QED
    BY <1>2, <2>1, <2>2, <2>3, <2>4, <2>5, <2>6, <2>7
    DEF Main
<1>3. ASSUME HandleReadyStart PROVE ChunkInv'
  <2>1. Gives(unprocessed[1]) /\ Takes /\ UNCHANGED <<pc, splitValue>>
    BY <1>3, StartGives
  <2>2. pc \notin Staged => unprocessed[1] \in Chunks
    BY <2>1 DEF Takes
  <2>3. pc = "waitMap" => \A w \in Workers : worker'[w] \notin Idle => pattern'[w] \in Chunks
    BY <2>1, <2>2 DEF Gives, Staged
  <2> QED
    BY <2>1, <2>2, <2>3 DEF Takes
<1>4. ASSUME HandleReadyDone PROVE ChunkInv'
  <2>1. Answers("exited", NoPattern) /\ UNCHANGED <<pc, server, queues>>
    BY <1>4, Answered DEF HandleReadyDone
  <2> QED
    BY <2>1 DEF Answers, Idle
<1>5. ASSUME HandleSucceeded PROVE ChunkInv'
  BY <1>5 DEF HandleSucceeded
<1>6. ASSUME HandleFailed PROVE ChunkInv'
  <2>1. /\ Pops("failed") /\ Requeues(backlog[1].pattern)
        /\ inflight' = inflight \ {backlog[1].pattern}
        /\ UNCHANGED <<pc, splitValue, worker, pattern>>
    BY <1>6, Popped, Requeued DEF HandleFailed
  <2>2. backlog[1].pattern \in inflight
    BY <2>1 DEF AccountInv, Pops, Requeues
  <2> QED
    BY <2>1, <2>2 DEF Requeues
<1>7. ASSUME HandleUnknown PROVE ChunkInv'
  BY <1>7 DEF HandleUnknown
<1>8. ASSUME NEW w \in Workers, Request(w) PROVE ChunkInv'
  BY <1>8 DEF Request, Idle
<1>9. ASSUME NEW w \in Workers, Report(w) PROVE ChunkInv'
  <2>1. PICK m : Reports(w, m)
    BY <1>9, ReportSteps
  <2> QED
    BY <2>1 DEF Reports, Idle
<1>10. ASSUME NEW w \in Workers, RemoveOutput(w) PROVE ChunkInv'
  BY <1>10 DEF RemoveOutput, Idle
<1>11. ASSUME NEW w \in Workers, Crash(w) PROVE ChunkInv'
  <2>1. Loses(w)
    BY <1>11, CrashSteps
  <2> QED
    BY <2>1 DEF Loses, Idle
<1> QED
  BY <1>1, <1>2, <1>3, <1>4, <1>5, <1>6, <1>7, <1>8, <1>9, <1>10, <1>11, InternalSteps
  DEF Next, Server, HandleRequest, Work, Fails, WorksOn

\* When a message is handled the others keep their senders.
LEMMA OthersWait ==
    ASSUME Types, MessageInv, NEW type, Pops(type)
    PROVE  /\ \A i \in DOMAIN backlog' :
                 /\ backlog'[i].from \in Workers \cup {Nobody}
                 /\ backlog'[i].from # Nobody =>
                       worker[backlog'[i].from] = "await" /\ backlog'[i].from # backlog[1].from
           /\ \A i, j \in DOMAIN backlog' :
                 backlog'[i].from # Nobody /\ backlog'[i].from = backlog'[j].from => i = j
<1>1. ASSUME NEW i \in DOMAIN backlog'
      PROVE  /\ i + 1 \in DOMAIN backlog /\ backlog'[i] = backlog[i + 1] /\ i \in Nat
             /\ i + 1 # 1 /\ 1 \in DOMAIN backlog /\ backlog[i + 1] \in Message
  BY DEF Pops, Types
<1>2. ASSUME NEW i \in DOMAIN backlog'
      PROVE  /\ backlog'[i].from \in Workers \cup {Nobody}
             /\ backlog'[i].from # Nobody =>
                   worker[backlog'[i].from] = "await" /\ backlog'[i].from # backlog[1].from
  BY <1>1, MessageKinds DEF MessageInv
<1>3. ASSUME NEW i \in DOMAIN backlog', NEW j \in DOMAIN backlog',
             backlog'[i].from # Nobody, backlog'[i].from = backlog'[j].from
      PROVE  i = j
  <2>1. i + 1 = j + 1
    BY <1>1, <1>3 DEF MessageInv
  <2> QED
    BY <1>1, <2>1
<1> QED
  BY <1>2, <1>3

\* The part about questions and answers.
LEMMA MessageStep ==
    ASSUME IInv, Next
    PROVE  MessageInv'
<1> USE DEF IInv, MessageInv, Types, server, settings, queues, workers, files, results, bounds
<1>1. ASSUME Internal PROVE MessageInv'
  <2>1. \A i \in DOMAIN backlog : backlog[i].from \in Workers \cup {Nobody}
    BY MessageKinds
  <2> QED
    BY <1>1, <2>1 DEF Internal, Idle
<1>2. ASSUME Main PROVE MessageInv'
  <2>1. ASSUME NEW from, NEW to, SpawnWorkers(from, to), from \notin Waiting PROVE MessageInv'
    <3>1. backlog' = backlog /\ pc = from
      BY <2>1 DEF SpawnWorkers, Step
    <3>2. \A w \in Workers : worker[w] # "await"
      BY <2>1, <3>1 DEF LabelInv, Resting
    <3>3. \A i \in DOMAIN backlog : backlog[i].from \in Workers \cup {Nobody}
      BY MessageKinds
    <3> QED
      BY <3>1, <3>2, <3>3
  <2>2. ASSUME Start \/ StageMap \/ ClearUnprocessed \/ StageReduce \/ BringDownServer
               \/ JoinServer \/ WaitMappers \/ WaitReducers
        PROVE  UNCHANGED <<backlog, worker>>
    BY <2>2 DEF Start, StageMap, ClearUnprocessed, StageReduce, BringDownServer, JoinServer,
            WaitMappers, WaitReducers, PoolWait
  <2> QED
    BY <1>2, <2>1, <2>2 DEF Main, SpawnMappers, SpawnReducers, Waiting
<1>3. ASSUME HandleReadyStart PROVE MessageInv'
  <2>1. Gives(unprocessed[1]) /\ Pops("ready")
    BY <1>3, StartGives
  <2>2. \A w \in Workers : w # backlog[1].from => worker'[w] = worker[w]
    BY <2>1 DEF Gives
  <2> QED
    BY <2>1, <2>2, OthersWait
<1>4. ASSUME HandleReadyDone PROVE MessageInv'
  <2>1. Answers("exited", NoPattern) /\ Pops("ready")
    BY <1>4, Answered, Popped DEF HandleReadyDone
  <2>2. \A w \in Workers : w # backlog[1].from => worker'[w] = worker[w]
    BY <2>1 DEF Answers
  <2> QED
    BY <2>1, <2>2, OthersWait
<1>5. ASSUME HandleSucceeded \/ HandleFailed \/ HandleUnknown PROVE MessageInv'
  <2>1. UNCHANGED worker /\ (Pops("succeeded") \/ Pops("failed") \/ Pops("unknown"))
    BY <1>5, Popped DEF HandleSucceeded, HandleFailed, HandleUnknown
  <2> QED
    BY <2>1, OthersWait
<1>6. ASSUME NEW w \in Workers, Request(w) PROVE MessageInv'
  <2> DEFINE m == [type |-> "ready", from |-> w, pattern |-> NoPattern]
  <2>1. Pushes(m) /\ m.from = w
    BY <1>6, Messages, Pushed DEF Request, Sends
  <2> HIDE DEF m
  <2>2. worker[w] = "request" /\ worker' = [worker EXCEPT ![w] = "await"]
    BY <1>6 DEF Request
  <2>3. \A i \in DOMAIN backlog : backlog[i].from # w
    BY <2>2, MessageKinds
  <2> QED
    BY <2>1, <2>2, <2>3 DEF Pushes
<1>7. ASSUME NEW w \in Workers, Report(w) PROVE MessageInv'
  <2>1. PICK m : Reports(w, m)
    BY <1>7, ReportSteps
  <2>2. \A i \in DOMAIN backlog : backlog[i].from # Nobody => backlog[i].from # w
    BY <2>1 DEF Reports
  <2>3. \A v \in Workers : v # w => worker'[v] = worker[v]
    BY <2>1 DEF Reports
  <2>4. \A i \in DOMAIN backlog : backlog[i].from \in Workers \cup {Nobody}
    BY MessageKinds
  <2> QED
    BY <2>1, <2>2, <2>3, <2>4 DEF Reports, Pushes
<1>8. ASSUME NEW w \in Workers, RemoveOutput(w) PROVE MessageInv'
  BY <1>8 DEF RemoveOutput
<1>9. ASSUME NEW w \in Workers, Crash(w) PROVE MessageInv'
  <2>1. Loses(w)
    BY <1>9, CrashSteps
  <2>2. \A v \in Workers : v # w => worker'[v] = worker[v]
    BY <2>1 DEF Loses
  <2>3. \A i \in DOMAIN backlog : backlog[i].from \in Workers \cup {Nobody}
    BY MessageKinds
  <2>4. CASE Widows(w)
    BY <2>2, <2>3, <2>4 DEF Widows
  <2>5. CASE worker[w] # "await"
             /\ Pushes([type |-> "unknown", from |-> Nobody, pattern |-> NoPattern])
    BY <2>2, <2>3, <2>5 DEF Pushes
  <2> QED
    BY <2>1, <2>4, <2>5 DEF Loses
<1> QED
  BY <1>1, <1>2, <1>3, <1>4, <1>5, <1>6, <1>7, <1>8, <1>9, InternalSteps
  DEF Next, Server, HandleRequest, Work, Fails, WorksOn

\* Every step keeps to one of these, as far as patterns in flight are concerned.
Handles == /\ HoldersKept /\ UNCHANGED crashes
           /\ \E type \in {"ready", "succeeded", "failed", "unknown"} : Pops(type)
           /\ inflight' = inflight \ {backlog[1].pattern}
Asks == /\ HoldersKept /\ UNCHANGED <<inflight, crashes>>
        /\ \E m \in Message : Pushes(m) /\ m.from # Nobody /\ m.pattern = NoPattern
Starts1 == /\ Takes /\ Gives(unprocessed[1]) /\ Pops("ready") /\ UNCHANGED crashes
Changes == \/ Steady \/ Handles \/ Asks \/ Starts1
           \/ \E w \in Workers : (\E m \in Message : Reports(w, m)) \/ Loses(w)

\* Handling a report forgets its pattern, handling another message nothing.
LEMMA HandleSteps ==
    ASSUME Types, LabelInv, MessageInv, AccountInv,
           HandleReadyDone \/ HandleSucceeded \/ HandleFailed \/ HandleUnknown
    PROVE  Handles
<1>1. NoPattern \notin inflight
  BY BoundsAssumption DEF Types
<1>2. CASE HandleReadyDone
  <2>1. HoldersKept /\ Pops("ready") /\ UNCHANGED <<inflight, crashes>>
    BY <1>2, DoneKeeps
  <2>2. backlog[1].pattern = NoPattern
    BY <2>1, MessageKinds DEF Pops
  <2> QED
    BY <1>1, <2>1, <2>2 DEF Handles
<1>3. CASE HandleSucceeded
  <2>1. Pops("succeeded") /\ inflight' = inflight \ {Head(backlog).pattern}
        /\ UNCHANGED <<worker, pattern, crashes>>
    BY <1>3, Popped DEF HandleSucceeded, workers, bounds
  <2> QED
    BY <2>1 DEF Handles, HoldersKept, Holds, Pops
<1>4. CASE HandleFailed
  <2>1. Pops("failed") /\ inflight' = inflight \ {backlog[1].pattern}
        /\ UNCHANGED <<worker, pattern, crashes>>
    BY <1>4, Popped, Requeued DEF HandleFailed, workers, bounds
  <2> QED
    BY <2>1 DEF Handles, HoldersKept, Holds
<1>5. CASE HandleUnknown
  <2>1. Pops("unknown") /\ UNCHANGED <<worker, pattern, inflight, crashes>>
    BY <1>5, Popped DEF HandleUnknown, workers, bounds, queues
  <2>2. backlog[1].pattern = NoPattern
    BY <2>1, MessageKinds DEF Pops
  <2> QED
    BY <1>1, <2>1, <2>2 DEF Handles, HoldersKept, Holds
<1> QED
  BY <1>2, <1>3, <1>4, <1>5

\* A request for input is a question.
LEMMA AskSteps ==
    ASSUME Types, LabelInv, NEW w \in Workers, Request(w)
    PROVE  Asks
<1> DEFINE m == [type |-> "ready", from |-> w, pattern |-> NoPattern]
<1>1. Pushes(m) /\ m \in Message /\ m.from # Nobody /\ m.pattern = NoPattern
  BY Messages, Pushed, WorkersAssumption, BoundsAssumption DEF Request, Sends
<1> HIDE DEF m
<1>2. /\ worker[w] = "request" /\ worker' = [worker EXCEPT ![w] = "await"]
      /\ UNCHANGED <<pattern, inflight, crashes>>
  BY DEF Request, queues, bounds
<1>3. HoldersKept
  BY <1>2 DEF HoldersKept, Holds, Types
<1> QED
  BY <1>1, <1>2, <1>3 DEF Asks

\* Every step is one of them.
LEMMA ChangeSteps ==
    ASSUME IInv, Next
    PROVE  Changes
<1> USE DEF IInv, Changes
<1>1. ASSUME NEW w \in Workers, RemoveOutput(w) PROVE Changes
  BY <1>1, SteadySteps
<1>2. ASSUME Internal \/ Main PROVE Changes
  BY <1>2, SteadySteps
<1>3. ASSUME HandleReadyStart PROVE Changes
  BY <1>3, StartGives DEF Starts1
<1>4. ASSUME HandleReadyDone \/ HandleSucceeded \/ HandleFailed \/ HandleUnknown PROVE Changes
  BY <1>4, HandleSteps
<1>5. ASSUME NEW w \in Workers, Request(w) PROVE Changes
  BY <1>5, AskSteps
<1>6. ASSUME NEW w \in Workers, Report(w) PROVE Changes
  <2>1. PICK m : Reports(w, m)
    BY <1>6, ReportSteps
  <2> QED
    BY <2>1 DEF Reports, Pushes
<1>7. ASSUME NEW w \in Workers, Crash(w) PROVE Changes
  BY <1>7, CrashSteps
<1> QED
  BY <1>1, <1>2, <1>3, <1>4, <1>5, <1>6, <1>7, InternalSteps
  DEF Next, Server, HandleRequest, Work, Fails, WorksOn

\* What has been popped was there, behind the first.
LEMMA PoppedMessage ==
    ASSUME Types, NEW type, Pops(type), NEW i \in DOMAIN backlog'
    PROVE  /\ i + 1 \in DOMAIN backlog /\ backlog'[i] = backlog[i + 1] /\ i \in Nat
           /\ i + 1 # 1 /\ 1 \in DOMAIN backlog /\ backlog[i + 1] \in Message
BY DEF Pops, Types

\* The part about reports and holders.
LEMMA AccountStep ==
    ASSUME IInv, Next
    PROVE  AccountInv'
<1> USE DEF IInv, AccountInv
<1>1. ASSUME Steady PROVE AccountInv'
  BY <1>1 DEF Steady, HoldersKept
<1>2. ASSUME Handles PROVE AccountInv'
  <2>1. PICK type : Pops(type)
    BY <1>2 DEF Handles
  <2>2. HoldersKept /\ inflight' = inflight \ {backlog[1].pattern}
    BY <1>2 DEF Handles
  <2>3. ASSUME NEW i \in DOMAIN backlog', backlog'[i].pattern # NoPattern
        PROVE  /\ backlog'[i].pattern \in inflight'
               /\ \A j \in DOMAIN backlog' : backlog'[j].pattern = backlog'[i].pattern => i = j
               /\ \A w \in Workers : Holds(w)' => pattern'[w] # backlog'[i].pattern
    <3>1. /\ i + 1 \in DOMAIN backlog /\ backlog'[i] = backlog[i + 1] /\ i + 1 # 1
          /\ 1 \in DOMAIN backlog /\ i \in Nat
      BY <2>1, PoppedMessage
    <3>2. backlog[i + 1].pattern \in inflight /\ backlog[i + 1].pattern # backlog[1].pattern
      BY <2>3, <3>1
    <3>3. ASSUME NEW j \in DOMAIN backlog', backlog'[j].pattern = backlog'[i].pattern
          PROVE  i = j
      <4>1. j + 1 \in DOMAIN backlog /\ backlog'[j] = backlog[j + 1] /\ j \in Nat
        BY <2>1, PoppedMessage
      <4>2. i + 1 = j + 1
        BY <2>3, <3>1, <3>3, <4>1
      <4> QED
        BY <3>1, <4>1, <4>2
    <3>4. \A w \in Workers : Holds(w)' => pattern'[w] # backlog'[i].pattern
      BY <2>2, <2>3, <3>1 DEF HoldersKept
    <3> QED
      BY <2>2, <3>1, <3>2, <3>3, <3>4
  <2>4. ASSUME NEW w \in Workers, Holds(w)
        PROVE  /\ pattern[w] \in inflight'
               /\ \A v \in Workers : Holds(v) /\ pattern[v] = pattern[w] => v = w
    <3>1. 1 \in DOMAIN backlog
      BY <2>1 DEF Pops
    <3> QED
      BY <2>2, <2>4, <3>1 DEF Holds
  <2> QED
    BY <2>2, <2>3, <2>4 DEF HoldersKept
<1>3. ASSUME Asks PROVE AccountInv'
  <2>1. PICK m \in Message : Pushes(m) /\ m.pattern = NoPattern
    BY <1>3 DEF Asks
  <2>2. HoldersKept /\ inflight' = inflight
    BY <1>3 DEF Asks
  <2> QED
    BY <2>1, <2>2 DEF Pushes, HoldersKept
<1>4. ASSUME Starts1 PROVE AccountInv'
  <2> DEFINE p == unprocessed[1]
  <2>1. /\ p \notin inflight /\ p # NoPattern /\ inflight' = inflight \cup {p}
        /\ Pops("ready") /\ Gives(p)
    BY <1>4 DEF Starts1, Takes, QueueInv
  <2> HIDE DEF p
  <2>2. ASSUME NEW i \in DOMAIN backlog', backlog'[i].pattern # NoPattern
        PROVE  /\ backlog'[i].pattern \in inflight' /\ backlog'[i].pattern # p
               /\ \A j \in DOMAIN backlog' : backlog'[j].pattern = backlog'[i].pattern => i = j
               /\ \A w \in Workers : Holds(w) => pattern[w] # backlog'[i].pattern
    <3>1. i + 1 \in DOMAIN backlog /\ backlog'[i] = backlog[i + 1] /\ i \in Nat
      BY <2>1, PoppedMessage
    <3>2. ASSUME NEW j \in DOMAIN backlog', backlog'[j].pattern = backlog'[i].pattern
          PROVE  i = j
      <4>1. j + 1 \in DOMAIN backlog /\ backlog'[j] = backlog[j + 1] /\ j \in Nat
        BY <2>1, PoppedMessage
      <4>2. i + 1 = j + 1
        BY <2>2, <3>1, <3>2, <4>1
      <4> QED
        BY <3>1, <4>1, <4>2
    <3> QED
      BY <2>1, <2>2, <3>1, <3>2
  <2>3. \A w \in Workers : Holds(w) => pattern[w] \in inflight' /\ pattern[w] # p
    BY <2>1
  <2>4. CASE backlog[1].from = Nobody
    BY <2>1, <2>2, <2>3, <2>4 DEF Gives, Holds
  <2>5. CASE backlog[1].from # Nobody
    <3>1. PICK w \in Workers : /\ ~Holds(w) /\ Holds(w)' /\ pattern'[w] = p
                               /\ \A v \in Workers \ {w} : worker'[v] = worker[v]
                                                           /\ pattern'[v] = pattern[v]
      BY <2>1, <2>5 DEF Gives
    <3>2. \A v \in Workers \ {w} : (Holds(v)' <=> Holds(v)) /\ pattern'[v] = pattern[v]
      BY <3>1 DEF Holds
    <3> QED
      BY <2>1, <2>2, <2>3, <3>1, <3>2
  <2> QED
    BY <2>4, <2>5
<1>5. ASSUME NEW w \in Workers, NEW m \in Message, Reports(w, m) PROVE AccountInv'
  <2>1. /\ Pushes(m) /\ m.pattern = pattern[w] /\ pattern[w] # NoPattern /\ inflight' = inflight
        /\ Holds(w)
    BY <1>5 DEF Reports, queues, Holds
  <2>2. ~Holds(w)'
    BY <1>5 DEF Reports, Holds, Types
  <2>3. \A v \in Workers \ {w} : (Holds(v)' <=> Holds(v)) /\ pattern'[v] = pattern[v]
    BY <1>5 DEF Reports, Holds, Types
  <2>4. pattern[w] \in inflight /\ \A v \in Workers \ {w} : Holds(v) => pattern[v] # pattern[w]
    BY <2>1
  <2>5. \A i \in DOMAIN backlog : backlog[i].pattern # pattern[w]
    BY <2>1
  <2> QED
    BY <2>1, <2>2, <2>3, <2>4, <2>5 DEF Pushes
<1>6. ASSUME NEW w \in Workers, Loses(w) PROVE AccountInv'
  <2>1. inflight' = inflight /\ ~Holds(w)'
    BY <1>6 DEF Loses, Holds, Types, queues
  <2>2. \A v \in Workers \ {w} : (Holds(v)' <=> Holds(v)) /\ pattern'[v] = pattern[v]
    BY <1>6 DEF Loses, Holds, Types
  <2>3. CASE Widows(w)
    BY <2>1, <2>2, <2>3 DEF Widows
  <2>4. CASE Pushes([type |-> "unknown", from |-> Nobody, pattern |-> NoPattern])
    BY <2>1, <2>2, <2>4 DEF Pushes
  <2> QED
    BY <1>6, <2>3, <2>4 DEF Loses
<1> QED
  BY <1>1, <1>2, <1>3, <1>4, <1>5, <1>6, ChangeSteps DEF Changes

\* The part about the queue.
LEMMA QueueStep ==
    ASSUME IInv, Next
    PROVE  QueueInv'
<1> USE DEF IInv, QueueInv
<1>1. ASSUME UNCHANGED <<unprocessed, inflight>> PROVE QueueInv'
  BY <1>1
<1>2. ASSUME Main PROVE QueueInv'
  <2>1. ASSUME StageMap PROVE QueueInv'
    <3>1. inflight' = {} /\ unprocessed' \in Listings(Chunks)
      BY <2>1 DEF StageMap, PhaseInv, Step
    <3>2. Cardinality(Chunks) \in Nat
      BY ChunksAssumption, FS_CardinalityType
    <3>3. Cardinality(1..Cardinality(Chunks)) = Cardinality(Chunks)
          /\ IsFiniteSet(1..Cardinality(Chunks))
      BY <3>2, FS_Interval
    <3>4. unprocessed' \in Surjection(1..Cardinality(Chunks), Chunks)
      BY <3>1 DEF Listings, Surjection
    <3>5. unprocessed' \in Injection(1..Cardinality(Chunks), Chunks)
      BY <3>3, <3>4, FS_SurjSameCardinalityImpliesInj
    <3> QED
      BY <3>1, <3>5 DEF Injection, IsInjective
  <2>2. ASSUME ClearUnprocessed PROVE QueueInv'
    BY <2>2 DEF ClearUnprocessed
  <2>3. ASSUME StageReduce PROVE QueueInv'
    <3> DEFINE more == [i \in 1..splitValue |-> i - 1]
    <3>1. splitValue \in Nat /\ Buckets \subseteq Patterns /\ Buckets \cap Chunks = {}
      BY <2>3, BucketsType DEF StageReduce, ChunkInv, Step
    <3>2. more \in Seq(Patterns) /\ Len(more) = splitValue
          /\ \A i \in 1..splitValue : more[i] = i - 1 /\ more[i] \notin Chunks
      BY <3>1 DEF Buckets
    <3>3. unprocessed' = unprocessed \o more /\ inflight' = inflight
      BY <2>3 DEF StageReduce
    <3>4. inflight \subseteq Chunks /\ \A i \in DOMAIN unprocessed : unprocessed[i] \in Chunks
      BY <2>3 DEF StageReduce, Step, Staged, ChunkInv
    <3> HIDE DEF more
    <3>5. unprocessed \in Seq(Patterns)
      BY DEF Types
    <3>6. /\ DOMAIN unprocessed = 1..Len(unprocessed) /\ Len(unprocessed) \in Nat
          /\ DOMAIN unprocessed' = 1..(Len(unprocessed) + splitValue)
          /\ \A i \in DOMAIN unprocessed' :
                unprocessed'[i] = IF i <= Len(unprocessed) THEN unprocessed[i]
                                  ELSE more[i - Len(unprocessed)]
      BY <3>1, <3>2, <3>3, <3>5
    <3>7. \A i \in DOMAIN unprocessed' :
             IF i <= Len(unprocessed) THEN i \in DOMAIN unprocessed
             ELSE i - Len(unprocessed) \in 1..splitValue
      BY <3>1, <3>6
    <3>8. \A i \in DOMAIN unprocessed' :
             IF i <= Len(unprocessed) THEN unprocessed'[i] = unprocessed[i]
             ELSE unprocessed'[i] = i - Len(unprocessed) - 1 /\ unprocessed'[i] \notin Chunks
      BY <3>2, <3>6, <3>7
    <3>9. \A i \in DOMAIN unprocessed' : unprocessed'[i] \notin inflight
      BY <3>4, <3>7, <3>8
    <3>10. ASSUME NEW i \in DOMAIN unprocessed', NEW j \in DOMAIN unprocessed',
                  unprocessed'[i] = unprocessed'[j]
           PROVE  i = j
      <4>1. i \in Nat /\ j \in Nat
        BY <3>1, <3>6
      <4>2. CASE i <= Len(unprocessed) /\ j <= Len(unprocessed)
        BY <3>7, <3>8, <3>10, <4>2
      <4>3. CASE ~(i <= Len(unprocessed)) /\ ~(j <= Len(unprocessed))
        BY <3>6, <3>8, <3>10, <4>1, <4>3
      <4>4. (i <= Len(unprocessed)) <=> (j <= Len(unprocessed))
        BY <3>4, <3>7, <3>8, <3>10
      <4> QED
        BY <4>2, <4>3, <4>4
    <3> QED
      BY <3>3, <3>9, <3>10
  <2>4. ASSUME NEW from, NEW to, SpawnWorkers(from, to) PROVE QueueInv'
    BY <2>4 DEF SpawnWorkers, queues
  <2>5. ASSUME NEW from, NEW to, PoolWait(from, to) PROVE QueueInv'
    BY <2>5 DEF PoolWait, queues
  <2>6. ASSUME Start \/ BringDownServer \/ JoinServer PROVE QueueInv'
    BY <2>6 DEF Start, BringDownServer, JoinServer, queues
  <2> QED
    BY <1>2, <2>1, <2>2, <2>3, <2>4, <2>5, <2>6
    DEF Main, SpawnMappers, SpawnReducers, WaitMappers, WaitReducers
<1>3. ASSUME HandleReadyStart PROVE QueueInv'
  <2>1. Takes
    BY <1>3, StartGives
  <2>2. ASSUME NEW i \in DOMAIN unprocessed'
        PROVE  /\ i + 1 \in DOMAIN unprocessed /\ unprocessed'[i] = unprocessed[i + 1]
               /\ i \in Nat /\ i + 1 # 1 /\ 1 \in DOMAIN unprocessed
    BY <2>1 DEF Takes
  <2>3. \A i \in DOMAIN unprocessed' : unprocessed'[i] \notin inflight'
    <3>1. inflight' = inflight \cup {unprocessed[1]}
      BY <2>1 DEF Takes
    <3> QED
      BY <2>2, <3>1
  <2>4. ASSUME NEW i \in DOMAIN unprocessed', NEW j \in DOMAIN unprocessed',
               unprocessed'[i] = unprocessed'[j]
        PROVE  i = j
    <3>1. i + 1 = j + 1
      BY <2>2, <2>4
    <3> QED
      BY <2>2, <3>1
  <2> QED
    BY <2>3, <2>4
<1>4. ASSUME HandleSucceeded PROVE QueueInv'
  BY <1>4 DEF HandleSucceeded
<1>5. ASSUME HandleFailed PROVE QueueInv'
  <2>1. Pops("failed") /\ Requeues(backlog[1].pattern)
        /\ inflight' = inflight \ {backlog[1].pattern}
    BY <1>5, Popped, Requeued DEF HandleFailed
  <2>2. backlog[1].pattern \in inflight
    BY <2>1 DEF AccountInv, Pops, Requeues
  <2>3. \A i \in DOMAIN unprocessed : unprocessed[i] # backlog[1].pattern
    BY <2>2
  <2> QED
    BY <2>1, <2>3 DEF Requeues
<1>6. ASSUME HandleReadyDone \/ HandleUnknown PROVE QueueInv'
  BY <1>6 DEF HandleReadyDone, HandleUnknown, queues
<1>7. ASSUME NEW w \in Workers, Request(w) \/ Report(w) \/ RemoveOutput(w) \/ Crash(w)
      PROVE  QueueInv'
  BY <1>7 DEF Request, Report, RemoveOutput, Crash, queues
<1>8. ASSUME Internal PROVE QueueInv'
  BY <1>8 DEF Internal, queues
<1> QED
  BY <1>2, <1>3, <1>4, <1>5, <1>6, <1>7, <1>8, InternalSteps
  DEF Next, Server, HandleRequest, Work, Fails, WorksOn

\* What is lost, and what is orphaned, is finite.
LEMMA SizesType ==
    ASSUME Types, LostInv
    PROVE  /\ IsFiniteSet(Lost) /\ Cardinality(Lost) \in Nat /\ Lost \subseteq inflight
           /\ IsFiniteSet(Orphaned) /\ Cardinality(Orphaned) \in Nat
<1>1. Lost \subseteq inflight /\ IsFiniteSet(inflight)
  BY DEF Lost, LostInv
<1>2. Len(backlog) \in Nat /\ Orphaned \subseteq 1..Len(backlog)
  BY DEF Orphaned, Types
<1>3. IsFiniteSet(1..Len(backlog))
  BY <1>2, FS_Interval
<1> QED
  BY <1>1, <1>2, <1>3, FS_Subset, FS_CardinalityType

\* No more is lost and orphaned than there were workers to lose.
LEMMA LostFewer ==
    ASSUME Types, LostInv, NEW T, NEW U, T \subseteq Lost, IsFiniteSet(U),
           Cardinality(U) <= Cardinality(Orphaned)
    PROVE  Cardinality(T) + Cardinality(U) <= crashes
<1>1. Cardinality(T) <= Cardinality(Lost) /\ IsFiniteSet(T)
  BY SizesType, FS_Subset
<1>2. Cardinality(T) \in Nat /\ Cardinality(U) \in Nat
  BY <1>1, FS_CardinalityType
<1> QED
  BY <1>1, <1>2, SizesType DEF LostInv, Types

\* The same, with one more of the one, and one less of the other, or a worker.
LEMMA LostOneMore ==
    ASSUME Types, LostInv, NEW T, NEW U, NEW p, T \subseteq Lost \cup {p}, IsFiniteSet(U)
    PROVE  /\ Cardinality(U) <= Cardinality(Orphaned)
                 => Cardinality(T) + Cardinality(U) <= crashes + 1
           /\ Cardinality(U) < Cardinality(Orphaned)
                 => Cardinality(T) + Cardinality(U) <= crashes
<1>1. IsFiniteSet(Lost \cup {p}) /\ Cardinality(Lost \cup {p}) <= Cardinality(Lost) + 1
  BY SizesType, OneMore
<1>2. Cardinality(T) <= Cardinality(Lost \cup {p}) /\ IsFiniteSet(T)
  BY <1>1, FS_Subset
<1>3. /\ Cardinality(T) \in Nat /\ Cardinality(U) \in Nat
      /\ Cardinality(Lost \cup {p}) \in Nat
  BY <1>1, <1>2, FS_CardinalityType
<1> QED
  BY <1>1, <1>2, <1>3, SizesType DEF LostInv, Types

\* The orphans after a message has been handled, or another has come.
LEMMA OrphansPopped ==
    ASSUME Types, LostInv, NEW type, Pops(type)
    PROVE  /\ IsFiniteSet(Orphaned')
           /\ Cardinality(Orphaned') <= Cardinality(Orphaned)
           /\ 1 \in Orphaned => Cardinality(Orphaned') < Cardinality(Orphaned)
           /\ crashes = 0 => \A i \in DOMAIN backlog' : backlog'[i].type # "unknown"
<1>1. \A i \in Orphaned' : i \in Int /\ i + 1 \in Orphaned \ {1}
  BY PoppedMessage DEF Orphaned
<1>2. IsFiniteSet(Orphaned \ {1})
      /\ Cardinality(Orphaned \ {1}) = IF 1 \in Orphaned THEN Cardinality(Orphaned) - 1
                                       ELSE Cardinality(Orphaned)
  BY SizesType, FS_RemoveElement
<1>3. Orphaned' \in SUBSET Int
  BY <1>1
<1>4. IsFiniteSet(Orphaned') /\ Cardinality(Orphaned') <= Cardinality(Orphaned \ {1})
  BY <1>1, <1>2, <1>3, Shifted
<1>5. Cardinality(Orphaned') \in Nat
  BY <1>4, FS_CardinalityType
<1>6. crashes = 0 => \A i \in DOMAIN backlog' : backlog'[i].type # "unknown"
  BY PoppedMessage DEF LostInv
<1> QED
  BY <1>2, <1>4, <1>5, <1>6, SizesType

\* Another message that is not orphaned makes none.
LEMMA OrphansPushed ==
    ASSUME Types, LostInv, NEW m \in Message, Pushes(m), m.type = "ready" => m.from # Nobody
    PROVE  Orphaned' = Orphaned
BY DEF Orphaned, Pushes

\* The part about what is lost.
LEMMA LostStep ==
    ASSUME IInv, Next
    PROVE  LostInv'
<1> USE DEF IInv
<1>1. ASSUME Steady PROVE LostInv'
  <2>1. Lost' = Lost /\ Orphaned' = Orphaned
    BY <1>1 DEF Steady, HoldersKept, Lost, Orphaned
  <2> QED
    BY <1>1, <2>1 DEF Steady, LostInv
<1>2. ASSUME Handles PROVE LostInv'
  <2>1. PICK type : Pops(type)
    BY <1>2 DEF Handles
  <2>2. HoldersKept /\ inflight' = inflight \ {backlog[1].pattern} /\ crashes' = crashes
    BY <1>2 DEF Handles
  <2>3. ASSUME NEW p \in Lost' PROVE p \in Lost
    <3>1. p \in inflight /\ p # backlog[1].pattern
      BY <2>2 DEF Lost
    <3>2. \A i \in DOMAIN backlog' : backlog'[i].pattern # p
      BY DEF Lost
    <3>3. \A i \in DOMAIN backlog : backlog[i].pattern # p
      BY <2>1, <3>1, <3>2 DEF Pops
    <3>4. \A w \in Workers : Holds(w) => pattern[w] # p
      BY <2>2 DEF Lost, HoldersKept
    <3> QED
      BY <3>1, <3>3, <3>4 DEF Lost
  <2>4. /\ IsFiniteSet(Orphaned') /\ Cardinality(Orphaned') <= Cardinality(Orphaned)
        /\ crashes = 0 => \A i \in DOMAIN backlog' : backlog'[i].type # "unknown"
    BY <2>1, OrphansPopped
  <2>5. Cardinality(Lost') + Cardinality(Orphaned') <= crashes
    BY <2>3, <2>4, LostFewer
  <2>6. IsFiniteSet(inflight')
    BY <2>2, FS_RemoveElement DEF LostInv
  <2> QED
    BY <2>2, <2>4, <2>5, <2>6 DEF LostInv
<1>3. ASSUME Asks PROVE LostInv'
  <2>1. PICK m \in Message : Pushes(m) /\ m.from # Nobody /\ m.pattern = NoPattern
    BY <1>3 DEF Asks
  <2>2. HoldersKept /\ UNCHANGED <<inflight, crashes>>
    BY <1>3 DEF Asks
  <2>3. NoPattern \notin inflight
    BY BoundsAssumption DEF Types
  <2>4. Lost' = Lost
    BY <2>1, <2>2, <2>3 DEF Lost, HoldersKept, Pushes
  <2>5. Orphaned' = Orphaned
    BY <2>1, OrphansPushed
  <2>6. m.type # "unknown"
    BY <2>1, MessageKinds
  <2> QED
    BY <2>1, <2>2, <2>4, <2>5, <2>6 DEF LostInv, Pushes
<1>4. ASSUME Starts1 PROVE LostInv'
  <2> DEFINE p == unprocessed[1]
  <2>1. /\ inflight' = inflight \cup {p} /\ Pops("ready") /\ Gives(p) /\ crashes' = crashes
        /\ p # NoPattern
    BY <1>4 DEF Starts1, Takes
  <2> HIDE DEF p
  <2>2. /\ IsFiniteSet(Orphaned') /\ Cardinality(Orphaned') <= Cardinality(Orphaned)
        /\ 1 \in Orphaned => Cardinality(Orphaned') < Cardinality(Orphaned)
        /\ crashes = 0 => \A i \in DOMAIN backlog' : backlog'[i].type # "unknown"
    BY <2>1, OrphansPopped
  <2>3. backlog[1].pattern = NoPattern
    BY <2>1, MessageKinds DEF Pops
  <2>4. ASSUME NEW q \in Lost' PROVE q \in Lost \cup {p}
    <3>1. q \in inflight \cup {p} /\ q # NoPattern
      BY <2>1, BoundsAssumption DEF Lost, Types
    <3>2. \A i \in DOMAIN backlog : backlog[i].pattern # q
      BY <2>1, <2>3, <3>1 DEF Pops, Lost
    <3>3. \A w \in Workers : Holds(w) => pattern[w] # q
      BY <2>1 DEF Lost, Gives, Holds
    <3> QED
      BY <3>1, <3>2, <3>3 DEF Lost
  <2>5. Cardinality(Lost') + Cardinality(Orphaned') <= crashes
    <3>1. CASE backlog[1].from = Nobody
      <4>1. 1 \in Orphaned
        BY <2>1, <3>1 DEF Orphaned, Pops
      <4> QED
        BY <2>2, <2>4, <4>1, LostOneMore
    <3>2. CASE backlog[1].from # Nobody
      <4>1. PICK w \in Workers : Holds(w)' /\ pattern'[w] = p
        BY <2>1, <3>2 DEF Gives
      <4>2. p \notin Lost'
        BY <4>1 DEF Lost
      <4> QED
        BY <2>2, <2>4, <4>2, LostFewer
    <3> QED
      BY <3>1, <3>2
  <2>6. IsFiniteSet(inflight')
    BY <2>1, FS_AddElement DEF LostInv
  <2> QED
    BY <2>1, <2>2, <2>5, <2>6 DEF LostInv
<1>5. ASSUME NEW w \in Workers, NEW m \in Message, Reports(w, m) PROVE LostInv'
  <2>1. /\ Pushes(m) /\ m.pattern = pattern[w] /\ m.type \notin {"ready", "unknown"}
        /\ UNCHANGED <<inflight, crashes>>
    BY <1>5 DEF Reports, queues
  <2>2. \A v \in Workers \ {w} : (Holds(v)' <=> Holds(v)) /\ pattern'[v] = pattern[v]
    BY <1>5 DEF Reports, Holds, Types
  <2>3. ASSUME NEW p \in Lost' PROVE p \in Lost
    <3>1. p # pattern[w] /\ p \in inflight /\ \A i \in DOMAIN backlog : backlog[i].pattern # p
      BY <2>1 DEF Lost, Pushes
    <3> QED
      BY <2>2, <3>1 DEF Lost
  <2>4. Orphaned' = Orphaned
    BY <2>1, OrphansPushed
  <2>5. Cardinality(Lost') + Cardinality(Orphaned') <= crashes
    BY <2>3, <2>4, LostFewer, SizesType
  <2> QED
    BY <2>1, <2>5 DEF LostInv, Pushes
<1>6. ASSUME NEW w \in Workers, Loses(w) PROVE LostInv'
  <2>1. UNCHANGED inflight /\ crashes' = crashes + 1
    BY <1>6 DEF Loses, queues
  <2>2. \A v \in Workers \ {w} : (Holds(v)' <=> Holds(v)) /\ pattern'[v] = pattern[v]
    BY <1>6 DEF Loses, Holds, Types
  <2>3. /\ Lost' \subseteq Lost \cup {pattern[w]}
        /\ worker[w] = "await" => Lost' \subseteq Lost
    <3>1. \A i \in DOMAIN backlog : \E j \in DOMAIN backlog' :
             backlog'[j].pattern = backlog[i].pattern
      BY <1>6 DEF Loses, Widows, Pushes
    <3>2. worker[w] = "await" => ~Holds(w)
      BY DEF LabelInv, Idle, Holds
    <3> QED
      BY <2>1, <2>2, <3>1, <3>2 DEF Lost
  <2>4. CASE Widows(w) /\ worker[w] = "await"
    <3>1. \A i \in Orphaned' : i \in Orphaned \/ (i \in DOMAIN backlog /\ backlog[i].from = w)
      BY <2>4 DEF Widows, Orphaned
    <3>2. PICK k : Orphaned' \subseteq Orphaned \cup {k}
      BY <3>1, WorkersAssumption, BoundsAssumption DEF MessageInv
    <3>3. /\ IsFiniteSet(Orphaned \cup {k})
          /\ Cardinality(Orphaned \cup {k}) <= Cardinality(Orphaned) + 1
      BY SizesType, OneMore
    <3>4. IsFiniteSet(Orphaned') /\ Cardinality(Orphaned') <= Cardinality(Orphaned) + 1
          /\ Cardinality(Orphaned') \in Nat
      BY <3>2, <3>3, SizesType, FS_Subset, FS_CardinalityType
    <3>5. Cardinality(Lost') <= Cardinality(Lost) /\ Cardinality(Lost') \in Nat
      BY <2>3, <2>4, SizesType, FS_Subset, FS_CardinalityType
    <3>6. Cardinality(Lost') + Cardinality(Orphaned') <= crashes + 1
      BY <3>4, <3>5, SizesType DEF LostInv, Types
    <3> QED
      BY <2>1, <3>6 DEF LostInv, Types
  <2>5. CASE Widows(w) /\ worker[w] # "await"
    <3>1. Orphaned' = Orphaned
      BY <2>5, WorkersAssumption, BoundsAssumption DEF Widows, Orphaned, MessageInv
    <3>2. IsFiniteSet(Orphaned') /\ Cardinality(Orphaned') <= Cardinality(Orphaned)
      BY <3>1, SizesType
    <3>3. Cardinality(Lost') + Cardinality(Orphaned') <= crashes + 1
      BY <2>3, <3>2, LostOneMore
    <3> QED
      BY <2>1, <3>3 DEF LostInv, Types
  <2>6. CASE Pushes([type |-> "unknown", from |-> Nobody, pattern |-> NoPattern])
    <3>1. Orphaned' = Orphaned
      BY <2>6, Messages, OrphansPushed
    <3>2. IsFiniteSet(Orphaned') /\ Cardinality(Orphaned') <= Cardinality(Orphaned)
      BY <3>1, SizesType
    <3>3. Cardinality(Lost') + Cardinality(Orphaned') <= crashes + 1
      BY <2>3, <3>2, LostOneMore
    <3> QED
      BY <2>1, <3>3 DEF LostInv, Types
  <2> QED
    BY <1>6, <2>4, <2>5, <2>6 DEF Loses
<1> QED
  BY <1>1, <1>2, <1>3, <1>4, <1>5, <1>6, ChangeSteps DEF Changes

\* Handling a message takes nobody away that a report is waited for behind.
LEMMA BehindPopped ==
    ASSUME Types, MessageInv, NEW type, Pops(type), NEW i \in DOMAIN backlog', Behind(i + 1),
           \A w \in Workers : worker[w] # "await" => worker'[w] = worker[w]
    PROVE  Behind(i)'
<1>1. i \in Nat /\ i + 1 \in DOMAIN backlog
  BY PoppedMessage
<1>2. CASE \E w \in Workers : worker[w] \in {"remove", "request"}
  BY <1>2 DEF Behind
<1>3. ASSUME NEW j \in DOMAIN backlog, j > i + 1, backlog[j].from # Nobody PROVE Behind(i)'
  <2>1. j - 1 \in DOMAIN backlog' /\ backlog'[j - 1] = backlog[j] /\ j \in Nat
    BY <1>1, <1>3 DEF Pops
  <2>2. j - 1 > i
    BY <1>1, <1>3, <2>1
  <2> QED
    BY <1>3, <2>1, <2>2 DEF Behind
<1> QED
  BY <1>2, <1>3 DEF Behind

\* The part about the order of the messages of a worker.
LEMMA ReportStep ==
    ASSUME IInv, Next
    PROVE  ReportInv'
<1> USE DEF IInv
<1> SUFFICES ASSUME pc' = "waitMap", crashes' = 0,
                    NEW i \in DOMAIN backlog', backlog'[i].pattern # NoPattern
             PROVE  Behind(i)'
  BY DEF ReportInv
<1>1. ASSUME Main PROVE Behind(i)'
  <2>1. backlog' = backlog
    BY <1>1, SteadySteps DEF Steady
  <2>2. ~UNCHANGED pc
    BY <1>1 DEF Main, Start, StageMap, SpawnMappers, SpawnWorkers, WaitMappers, WaitReducers,
            PoolWait, ClearUnprocessed, StageReduce, SpawnReducers, BringDownServer, JoinServer,
            Step
  <2>3. pc = "spawnMap"
    BY <1>1, <2>2 DEF Main, Start, StageMap, SpawnMappers, SpawnWorkers, WaitMappers, WaitReducers,
            PoolWait, ClearUnprocessed, StageReduce, SpawnReducers, BringDownServer, JoinServer,
            Step
  <2> QED
    BY <2>1, <2>3 DEF PhaseInv
<1>2. ASSUME pc = "waitMap", crashes = 0, Internal PROVE Behind(i)'
  <2>1. backlog' = backlog /\ Behind(i)
    BY <1>2 DEF Internal, ReportInv
  <2>2. \A w \in Workers : worker[w] \in {"remove", "request"} => worker'[w] = worker[w]
    BY <1>2 DEF Internal, Idle
  <2> QED
    BY <2>1, <2>2 DEF Behind
<1>3. ASSUME pc = "waitMap", crashes = 0, HandleRequest PROVE Behind(i)'
  <2>1. \E type \in {"ready", "succeeded", "failed", "unknown"} : Pops(type)
    BY <1>3, Popped DEF HandleRequest, HandleReadyStart, HandleReadyDone, HandleSucceeded,
            HandleFailed, HandleUnknown
  <2>2. PICK type : Pops(type)
    BY <2>1
  <2>3. Behind(i + 1)
    BY <1>3, <2>2, PoppedMessage DEF ReportInv
  <2>4. \A w \in Workers : worker[w] # "await" => worker'[w] = worker[w]
    <3>1. CASE HandleReadyStart
      BY <3>1, StartGives DEF Gives
    <3>2. CASE HandleReadyDone
      <4>1. Answers("exited", NoPattern) /\ Pops("ready")
        BY <3>2, Answered, Popped DEF HandleReadyDone
      <4>2. backlog[1].from # Nobody => worker[backlog[1].from] = "await"
        BY <4>1 DEF Pops, MessageInv
      <4> QED
        BY <4>1, <4>2 DEF Answers, Types
    <3>3. CASE HandleSucceeded \/ HandleFailed \/ HandleUnknown
      BY <3>3 DEF HandleSucceeded, HandleFailed, HandleUnknown, workers
    <3> QED
      BY <1>3, <3>1, <3>2, <3>3 DEF HandleRequest
  <2> QED
    BY <2>2, <2>3, <2>4, BehindPopped
<1>4. ASSUME NEW w \in Workers, Request(w) PROVE Behind(i)'
  <2> DEFINE m == [type |-> "ready", from |-> w, pattern |-> NoPattern]
  <2>1. Pushes(m) /\ m.from # Nobody /\ m.pattern = NoPattern
    BY <1>4, Messages, Pushed, BoundsAssumption DEF Request, Sends
  <2> HIDE DEF m
  <2>2. Last \in DOMAIN backlog' /\ Last > i /\ backlog'[Last].from # Nobody
    BY <2>1 DEF Pushes
  <2> QED
    BY <2>2 DEF Behind
<1>5. ASSUME NEW w \in Workers, Report(w) PROVE Behind(i)'
  <2>1. PICK m : Reports(w, m)
    BY <1>5, ReportSteps
  <2>2. worker' = [worker EXCEPT ![w] = "remove"]
    BY <2>1 DEF Reports
  <2>3. worker'[w] = "remove"
    BY <2>2 DEF Types
  <2> QED
    BY <2>3 DEF Behind
<1>6. ASSUME NEW w \in Workers, RemoveOutput(w) PROVE Behind(i)'
  <2>1. worker'[w] = "request"
    BY <1>6 DEF RemoveOutput, Types
  <2> QED
    BY <2>1 DEF Behind
<1>7. ASSUME NEW w \in Workers, Crash(w) PROVE FALSE
  <2>1. crashes' = crashes + 1
    BY <1>7, CrashSteps DEF Loses
  <2> QED
    BY <2>1 DEF Types
<1>8. ASSUME Internal \/ HandleRequest PROVE pc = "waitMap" /\ crashes = 0
  BY <1>8 DEF Internal, HandleRequest, HandleReadyStart, HandleReadyDone, HandleSucceeded,
          HandleFailed, HandleUnknown, bounds
<1> QED
  BY <1>1, <1>2, <1>3, <1>4, <1>5, <1>6, <1>7, <1>8, InternalSteps
  DEF Next, Server, Work, Fails, WorksOn

\* When nobody was lost and all mappers have exited nothing is under way.
LEMMA NothingLeft ==
    ASSUME IInv, crashes = 0, pc = "waitMap", \A w \in Workers : worker[w] = "exited"
    PROVE  backlog = <<>> /\ inflight = {}
<1> USE DEF IInv
<1>1. Lost = {} /\ Orphaned = {}
  <2> DEFINE l == Cardinality(Lost)  o == Cardinality(Orphaned)
  <2>1. l \in Nat /\ o \in Nat /\ l + o <= 0
    BY SizesType DEF LostInv
  <2> HIDE DEF l, o
  <2>2. l = 0 /\ o = 0
    BY <2>1
  <2> QED
    BY <2>2, SizesType, FS_EmptySet DEF l, o
<1>2. ASSUME NEW i \in DOMAIN backlog PROVE FALSE
  <2>1. \A j \in DOMAIN backlog : backlog[j].from = Nobody
    BY MessageKinds DEF MessageInv, Types
  <2>2. backlog[i].pattern = NoPattern
    BY <2>1 DEF ReportInv, Behind
  <2>3. backlog[i] \in Message
    BY DEF Types
  <2>4. backlog[i].type = "ready" /\ backlog[i].from = Nobody
    BY <2>1, <2>2, <2>3, MessageKinds DEF LostInv
  <2> QED
    BY <1>1, <2>4 DEF Orphaned
<1>3. backlog = <<>>
  <2>1. backlog \in Seq(Message) /\ DOMAIN backlog = 1..Len(backlog) /\ Len(backlog) \in Nat
    BY DEF Types
  <2>2. 1 \notin DOMAIN backlog
    BY <1>2
  <2>3. Len(backlog) = 0
    BY <2>1, <2>2
  <2> QED
    BY <2>1, <2>3
<1>4. \A w \in Workers : ~Holds(w)
  BY DEF LabelInv, Idle, Holds
<1> QED
  BY <1>1, <1>2, <1>3, <1>4 DEF Lost

\* A worker at rest, and a server without messages, do nothing.
LEMMA RestingStep ==
    ASSUME IInv, Next, pc \notin Waiting
    PROVE  Internal \/ Main \/ HandleRequest
<1>1. ASSUME NEW w \in Workers, Request(w) \/ Report(w) \/ RemoveOutput(w) \/ Crash(w)
      PROVE  FALSE
  BY <1>1 DEF IInv, LabelInv, Resting, Request, Report, RemoveOutput, Crash
<1> QED
  BY <1>1, InternalSteps DEF Next, Server, Work, Fails, WorksOn, IInv

\* Without messages no request is handled.
LEMMA NoRequest ==
    ASSUME Types, backlog = <<>>, HandleRequest
    PROVE  FALSE
BY DEF HandleRequest, HandleReadyStart, HandleReadyDone, HandleSucceeded, HandleFailed,
       HandleUnknown, Receives

\* What the phase has to do stays divided.
LEMMA DividedStep ==
    ASSUME IInv, HandleRequest, NEW S, Divided(S)
    PROVE  Divided(S)' /\ UNCHANGED <<pc, splitValue, crashes>>
<1> USE DEF IInv, Divided, Queued
<1>1. CASE HandleReadyStart
  <2>1. Takes /\ UNCHANGED <<pc, splitValue, confirmed, crashes>>
    BY <1>1, StartGives
  <2>2. Queued = Queued' \cup {unprocessed[1]} /\ inflight' = inflight \cup {unprocessed[1]}
    BY <2>1 DEF Takes
  <2> QED
    BY <2>1, <2>2
<1>2. CASE HandleReadyDone \/ HandleUnknown
  BY <1>2 DEF HandleReadyDone, HandleUnknown, queues, bounds, server, settings
<1>3. CASE HandleSucceeded
  <2> DEFINE p == backlog[1].pattern
  <2>1. Pops("succeeded")
    BY <1>3, Popped DEF HandleSucceeded
  <2>2. p \in inflight
    BY <2>1, MessageKinds DEF Pops, AccountInv
  <2>3. /\ inflight' = inflight \ {p} /\ confirmed' = confirmed \cup {p}
        /\ UNCHANGED <<unprocessed, pc, splitValue, crashes>>
    BY <1>3, <2>1 DEF HandleSucceeded, Pops, server, settings, bounds
  <2> HIDE DEF p
  <2>4. p \notin Queued
    BY <2>2 DEF QueueInv
  <2> QED
    BY <2>2, <2>3, <2>4
<1>4. CASE HandleFailed
  <2> DEFINE p == backlog[1].pattern
  <2>1. Pops("failed") /\ Requeues(p) /\ inflight' = inflight \ {p}
    BY <1>4, Popped, Requeued DEF HandleFailed
  <2>2. p \in inflight
    BY <2>1 DEF Pops, AccountInv, Requeues
  <2>3. UNCHANGED <<confirmed, pc, splitValue, crashes>>
    BY <1>4 DEF HandleFailed, server, settings, bounds
  <2> HIDE DEF p
  <2>4. Queued' = Queued \cup {p}
    BY <2>1 DEF Requeues
  <2> QED
    BY <2>1, <2>2, <2>3, <2>4
<1> QED
  BY <1>1, <1>2, <1>3, <1>4 DEF HandleRequest

\* The part about the phases.
LEMMA PhaseStep ==
    ASSUME IInv, Next
    PROVE  PhaseInv'
<1> USE DEF IInv, PhaseInv, server, settings, queues, bounds
<1>1. ASSUME UNCHANGED <<pc, splitValue, unprocessed, inflight, confirmed, backlog, crashes>>
      PROVE  PhaseInv'
  BY <1>1 DEF Divided, Queued, Buckets
<1>2. ASSUME Internal PROVE PhaseInv'
  BY <1>1, <1>2 DEF Internal
<1>3. ASSUME Main PROVE PhaseInv'
  <2> USE DEF Step
  <2>1. ASSUME Start PROVE PhaseInv'
    BY <2>1 DEF Start
  <2>2. ASSUME StageMap PROVE PhaseInv'
    <3>1. pc = "stageMap" /\ pc' = "spawnMap" /\ UNCHANGED <<inflight, confirmed, backlog, crashes>>
      BY <2>2 DEF StageMap
    <3>2. Cardinality(Chunks) \in Nat
      BY ChunksAssumption, FS_CardinalityType
    <3>3. Queued' = Chunks
      BY <2>2, <3>2 DEF StageMap, Listings, Queued
    <3> QED
      BY <3>1, <3>3 DEF Divided
  <2>3. ASSUME SpawnMappers \/ SpawnReducers PROVE PhaseInv'
    BY <2>3 DEF SpawnMappers, SpawnReducers, SpawnWorkers, Divided, Queued, Buckets
  <2>4. ASSUME WaitMappers PROVE PhaseInv'
    <3>1. /\ pc = "waitMap" /\ pc' \in {"bringDown", "clear"}
          /\ \A w \in Workers : worker[w] = "exited"
          /\ UNCHANGED <<inflight, backlog, crashes>>
      BY <2>4 DEF WaitMappers, PoolWait
    <3>2. crashes = 0 => backlog = <<>> /\ inflight = {}
      BY <3>1, NothingLeft
    <3> QED
      BY <3>1, <3>2
  <2>5. ASSUME ClearUnprocessed PROVE PhaseInv'
    BY <2>5 DEF ClearUnprocessed
  <2>6. ASSUME StageReduce PROVE PhaseInv'
    <3>1. /\ pc = "stageReduce" /\ pc' = "spawnReduce"
          /\ UNCHANGED <<inflight, confirmed, backlog, crashes, splitValue>>
          /\ unprocessed' = unprocessed \o [i \in 1..splitValue |-> i - 1]
      BY <2>6 DEF StageReduce
    <3>2. splitValue \in Nat
      BY <3>1, BucketsType DEF ChunkInv
    <3>3. ASSUME crashes = 0 PROVE Queued' = Buckets
      <4>1. unprocessed' = [i \in 1..splitValue |-> i - 1]
        BY <3>1, <3>2, <3>3
      <4>2. \A b \in 0..(splitValue - 1) : b + 1 \in DOMAIN unprocessed' /\ unprocessed'[b + 1] = b
        BY <3>2, <4>1
      <4>3. \A i \in DOMAIN unprocessed' : unprocessed'[i] \in 0..(splitValue - 1)
        BY <3>2, <4>1
      <4> QED
        BY <4>2, <4>3 DEF Queued, Buckets
    <3> QED
      BY <3>1, <3>3 DEF Divided, Buckets
  <2>7. ASSUME WaitReducers \/ BringDownServer \/ JoinServer PROVE PhaseInv'
    BY <2>7 DEF WaitReducers, PoolWait, BringDownServer, JoinServer
  <2> QED
    BY <1>3, <2>1, <2>2, <2>3, <2>4, <2>5, <2>6, <2>7 DEF Main
<1>4. ASSUME HandleRequest PROVE PhaseInv'
  <2>1. UNCHANGED <<pc, splitValue, crashes>>
    BY <1>4 DEF HandleRequest, HandleReadyStart, HandleReadyDone, HandleSucceeded, HandleFailed,
            HandleUnknown
  <2>2. pc \notin {"start", "failed", "stageMap", "spawnMap"}
    BY <1>4, NoRequest
  <2>3. crashes = 0 => pc \notin {"clear", "stageReduce", "spawnReduce"}
    BY <1>4, NoRequest
  <2>4. crashes = 0 /\ pc = "waitMap" => Divided(Chunks)'
    BY <1>4, DividedStep
  <2>5. crashes = 0 /\ pc = "waitReduce" => Divided(Buckets)'
    <3>1. ASSUME crashes = 0, pc = "waitReduce", NEW S, S = Buckets PROVE Divided(Buckets)'
      <4>1. Divided(S)
        BY <3>1
      <4>2. Divided(S)' /\ Buckets' = S
        BY <1>4, <2>1, <3>1, <4>1, DividedStep DEF Buckets
      <4> QED
        BY <4>2 DEF Divided
    <3> QED
      BY <3>1
  <2> QED
    BY <2>1, <2>2, <2>3, <2>4, <2>5
<1>5. ASSUME NEW w \in Workers, Request(w) \/ Report(w) \/ RemoveOutput(w) \/ Crash(w)
      PROVE  PhaseInv'
  <2>1. pc \in Waiting /\ UNCHANGED <<pc, splitValue, unprocessed, inflight, confirmed>>
    BY <1>5 DEF LabelInv, Resting, Request, Report, RemoveOutput, Crash
  <2>2. crashes' = 0 => crashes = 0
    <3>1. crashes' = crashes \/ crashes' = crashes + 1
      BY <1>5 DEF Request, Report, RemoveOutput, Crash
    <3> QED
      BY <3>1 DEF Types
  <2> QED
    BY <2>1, <2>2 DEF Waiting, Divided, Queued, Buckets
<1> QED
  BY <1>2, <1>3, <1>4, <1>5, InternalSteps DEF Next, Server, Work, Fails, WorksOn

\* No step leads out of the invariant.
LEMMA NextIInv == IInv /\ [Next]_vars => IInv'
<1> SUFFICES ASSUME IInv, [Next]_vars PROVE IInv'
  OBVIOUS
<1>1. CASE Next
  <2>1. Types' /\ LabelInv'
    <3>1. ASSUME ServerStarts \/ ServerStops \/ \E w \in Workers : WorksOn(w)
          PROVE  Types' /\ LabelInv'
      BY <3>1, InternalLabels DEF IInv
    <3>2. ASSUME Main \/ HandleRequest PROVE Types' /\ LabelInv'
      BY <3>2, MainLabels, ServerLabels DEF IInv
    <3>3. ASSUME NEW w \in Workers, Request(w) \/ Report(w) \/ RemoveOutput(w) \/ Crash(w)
          PROVE  Types' /\ LabelInv'
      BY <3>3, WorkerLabels DEF IInv
    <3> QED
      BY <1>1, <3>1, <3>2, <3>3 DEF Next, Server, Work, Fails, WorksOn
  <2> QED
    BY <1>1, <2>1, ChunkStep, MessageStep, AccountStep, QueueStep, LostStep, ReportStep, PhaseStep
    DEF IInv
<1>2. CASE UNCHANGED vars
  <2>1. Types' /\ LabelInv' /\ ChunkInv' /\ MessageInv' /\ AccountInv' /\ QueueInv'
    BY <1>2 DEF vars, server, settings, queues, workers, bounds, IInv, Types, LabelInv, ChunkInv,
            MessageInv, AccountInv, QueueInv, Holds
  <2>2. Lost' = Lost /\ Orphaned' = Orphaned
    BY <1>2 DEF vars, queues, workers, Lost, Orphaned, Holds
  <2>3. LostInv' /\ ReportInv' /\ PhaseInv'
    BY <1>2, <2>2 DEF vars, server, settings, queues, workers, bounds, IInv, LostInv, ReportInv,
            PhaseInv, Behind, Divided, Queued, Buckets
  <2> QED
    BY <2>1, <2>3 DEF IInv
<1> QED
  BY <1>1, <1>2

\* A pattern in flight has at most one report, or one worker who will make it.
LEMMA AccountsOfOne ==
    ASSUME IInv, NEW p \in inflight
    PROVE  Accounts(p) = IF p \in Lost THEN 0 ELSE 1
<1> USE DEF IInv
<1>1. p # NoPattern
  BY BoundsAssumption DEF Types
<1>2. Holders(p) = {w \in Workers : Holds(w) /\ pattern[w] = p}
  BY <1>1 DEF Holders, Holds
<1>3. ASSUME NEW i \in Reported(p) PROVE Reported(p) = {i} /\ Holders(p) = {}
  BY <1>1, <1>2 DEF Reported, AccountInv
<1>4. ASSUME NEW w \in Holders(p) PROVE Holders(p) = {w} /\ Reported(p) = {}
  BY <1>1, <1>2, <1>3 DEF AccountInv
<1>5. p \in Lost <=> Reported(p) = {} /\ Holders(p) = {}
  BY <1>2 DEF Lost, Reported
<1>6. Cardinality({}) = 0 /\ \A x : Cardinality({x}) = 1
  BY FS_EmptySet, FS_Singleton
<1>7. CASE p \in Lost
  BY <1>5, <1>6, <1>7 DEF Accounts
<1>8. CASE Reported(p) # {}
  <2>1. PICK i : Reported(p) = {i} /\ Holders(p) = {}
    BY <1>3, <1>8
  <2>2. Cardinality(Reported(p)) = 1 /\ Cardinality(Holders(p)) = 0
    BY <1>6, <2>1
  <2> QED
    BY <1>5, <1>8, <2>2 DEF Accounts
<1>9. CASE Holders(p) # {}
  <2>1. PICK w : Holders(p) = {w} /\ Reported(p) = {}
    BY <1>4, <1>9
  <2>2. Cardinality(Reported(p)) = 0 /\ Cardinality(Holders(p)) = 1
    BY <1>6, <2>1
  <2> QED
    BY <1>5, <1>9, <2>2 DEF Accounts
<1> QED
  BY <1>5, <1>7, <1>8, <1>9

\* The invariant implies what is to be shown.
LEMMA IInvConserves == IInv => PatternsConserved
<1> SUFFICES ASSUME IInv PROVE PatternsConserved
  OBVIOUS
<1> USE DEF IInv
<1>1. Cardinality(Queued) = Len(unprocessed)
  <2>1. unprocessed \in Seq(Patterns) /\ Len(unprocessed) \in Nat
        /\ DOMAIN unprocessed = 1..Len(unprocessed)
    BY DEF Types
  <2>2. unprocessed \in Surjection(1..Len(unprocessed), Queued)
    BY <2>1 DEF Surjection, Queued
  <2>3. unprocessed \in Injection(1..Len(unprocessed), Queued)
    BY <2>1, <2>2 DEF QueueInv, Injection, IsInjective, Surjection
  <2>4. IsFiniteSet(1..Len(unprocessed))
        /\ Cardinality(1..Len(unprocessed)) = Len(unprocessed)
    BY <2>1, FS_Interval
  <2> QED
    BY <2>2, <2>3, <2>4, FS_Surjection
<1>2. Queued \cap inflight = {}
  BY DEF Queued, QueueInv
<1>3. ASSUME pc \in {"waitMap", "waitReduce"}, crashes = 0 PROVE Divided(Current)
  BY <1>3 DEF PhaseInv, Current
<1>4. \A p \in inflight : Accounts(p) <= 1
  BY AccountsOfOne
<1>5. {p \in inflight : Accounts(p) = 0} = Lost
  BY AccountsOfOne DEF Lost
<1>6. Cardinality(Lost) <= crashes
  BY SizesType DEF LostInv, Types
<1> QED
  BY <1>1, <1>2, <1>3, <1>4, <1>5, <1>6 DEF PatternsConserved, Divided

-----------------------------------------------------------------------------
(* The theorem.                                                            *)

\* The invariant of the reachable states.
LEMMA Invariant == Spec => []IInv
<1> QED
  BY InitIInv, NextIInv, PTL DEF Spec

\* Each pattern of the phase that is going on is in exactly one place, and one
\* that nobody will report cost a worker (surfaceNextFilePattern,
\* markFilePatternAsProcessed, rescheduleFilePattern, and the messages of
\* MapReduceWorker).
THEOREM PatternsConservedCorrect == Spec => []PatternsConserved
<1> QED
  BY Invariant, IInvConserves, PTL

-----------------------------------------------------------------------------
(***************************************************************************)
(* What MapReduce computes: the files, and how much is left at the end.    *)
(*                                                                         *)
(* The argument.  A chunk is spread once at most, by a worker that then    *)
(* reports success, so that its lines are never more than its words; until *)
(* then it has none (LinesInv).  Only a chunk that has failed once can be  *)
(* given to two workers, and lose its output to the one that is still to   *)
(* remove its own; any other is whole in the bucket files when it is       *)
(* reported (FaultInv).  When the mappers are through, each has been lost, *)
(* or has been told to exit when nothing was queued; from then on only     *)
(* chunks that failed are queued again.  So with a worker that was not     *)
(* lost, a chunk that is not whole has failed, or was lost with a worker   *)
(* (LossInv).  The lines no longer change then; and the output of a        *)
(* confirmed bucket counts them, since nobody works on it any more         *)
(* (DoneInv, ResultInv).                                                   *)
(*                                                                         *)
(* How much is left.  A pattern in flight that no worker at work has was   *)
(* lost with a worker, or is in a report; and who reported comes back for  *)
(* more, unless it was lost, or leaves (ChargeInv).  So when one that      *)
(* comes back is told to exit, because nothing is queued, each pattern in  *)
(* flight has another worker, or a loss, of its own; and so it stays, for  *)
(* a failed pattern is queued for those that are left (StayInv).           *)
(***************************************************************************)

\* The types of the files, and of what else IInv has no need of.
DataOK ==
    /\ mapOnly \in BOOLEAN /\ serverThread \in {"none", "created", "accepting", "stopped"}
    /\ serverIsRunning \in BOOLEAN /\ listening \in BOOLEAN
    /\ success \in [Workers -> BOOLEAN] /\ spread \in [Workers -> Nat]
    /\ mapped \in [Chunks -> BOOLEAN] /\ lines \in [Chunks -> Counts]
    /\ mid \in [BucketPatterns -> Counts \cup {NoFile}]
    /\ output \in [BucketPatterns -> Counts \cup {NoFile}]
    /\ failures \in 0..MaxFailures /\ sortFailures \in 0..MaxSortFailures
    /\ crashes \in 0..MaxCrashes

\* What is confirmed is not done again, and what is not is somewhere.
DoneInv ==
    /\ \A p \in confirmed : p \notin inflight /\ \A i \in DOMAIN unprocessed : unprocessed[i] # p
    /\ pc \notin Staged => confirmed \subseteq Chunks
    /\ pc \in {"spawnMap", "waitMap"} =>
          \A c \in Chunks : c \in Queued \cup inflight \cup confirmed

\* The lines of a chunk, as they should be, and before it is spread.
Right(c) == \A v \in Words : lines[c][v] = Occurs(c, v)
Blank(c) == \A v \in Words : lines[c][v] = 0
PlacesTo(c, v, k) == {i \in Places(c, v) : i <= k}

\* The lines of the chunk a mapper has.
Mapper(w) ==
    /\ worker[w] \in {"process", "open"} => Blank(pattern[w])
    /\ worker[w] = "open" /\ ~success[w] => ~mapped[pattern[w]]
    /\ worker[w] = "spread" =>
          /\ success[w] /\ PairsBehind(pattern[w], spread[w]) # {}
          /\ \A v \in Words :
                lines[pattern[w]][v] = Cardinality(PlacesTo(pattern[w], v, spread[w]))
    /\ worker[w] = "report" /\ ~success[w] => Blank(pattern[w])

Before == {"start", "failed", "stageMap", "spawnMap"}
LinesInv ==
    /\ \A c \in Chunks, v \in Words : lines[c][v] <= Occurs(c, v)
    /\ pc \in Before => \A c \in Chunks : Blank(c)
    /\ \A w \in Workers : worker[w] # "spread" => spread[w] = 0
    /\ pc = "waitMap" =>
          /\ \A c \in Chunks : c \notin inflight /\ c \notin confirmed => Blank(c)
          /\ \A i \in DOMAIN backlog : backlog[i].type = "failed" => Blank(backlog[i].pattern)
          /\ \A w \in Workers : Mapper(w)

\* F has the chunks that failed.  The others are whole once they are reported.
Sound(c, w) ==
    pattern[w] = c =>
        /\ worker[w] = "open" => mapped[c] /\ success[w]
        /\ worker[w] = "report" => success[w] /\ Right(c)
        /\ worker[w] = "remove" => \/ c \in confirmed
                                   \/ \E i \in DOMAIN backlog : backlog[i].pattern = c
Whole(c) ==
    /\ c \in confirmed => Right(c)
    /\ \A i \in DOMAIN backlog :
          backlog[i].pattern = c => backlog[i].type = "succeeded" /\ Right(c)
    /\ \A w \in Workers : Sound(c, w)
Exited == {w \in Workers : worker[w] = "exited"}
Faults(F) ==
    /\ Cardinality(F) <= failures
    /\ pc = "waitMap" =>
          /\ \A c \in Chunks \ F : Whole(c)
          /\ Cardinality(Exited) > crashes =>
                \A i \in DOMAIN unprocessed : unprocessed[i] \in F
FaultInv == \E F \in SUBSET Chunks : Faults(F)

\* Chunks that are not whole when the first phase is over.
Wrong == {c \in Chunks : \E v \in Words : lines[c][v] # Occurs(c, v)}
LossInv ==
    pc \notin Before \cup {"waitMap"} /\ crashes < Cardinality(Workers) =>
        Cardinality(Wrong) <= failures + crashes

\* What a reducer has grouped and counted is what the bucket files have.
Counted(w) ==
    pattern[w] \in BucketPatterns =>
        /\ worker[w] = "reduce" => mid[pattern[w]] = Grouped(pattern[w])
        /\ worker[w] = "report" /\ success[w] => output[pattern[w]] = Grouped(pattern[w])
ResultInv ==
    /\ \A b \in BucketPatterns \cap confirmed : output[b] = Grouped(b)
    /\ \A i \in DOMAIN backlog :
          backlog[i].type = "succeeded" /\ backlog[i].pattern \in BucketPatterns =>
              output[backlog[i].pattern] = Grouped(backlog[i].pattern)
    /\ \A w \in Workers : Counted(w)

CountInv == DataOK /\ DoneInv /\ LinesInv /\ FaultInv /\ LossInv /\ ResultInv

-----------------------------------------------------------------------------
(* Sums, as sizes of sets of pairs.                                        *)

\* The elements of sets, each with the index of its set.
Tagged(P) == UNION {{c} \X P[c] : c \in DOMAIN P}

\* There are finitely many.
LEMMA TaggedFinite ==
    ASSUME NEW P, IsFiniteSet(DOMAIN P), \A c \in DOMAIN P : IsFiniteSet(P[c])
    PROVE  IsFiniteSet(Tagged(P))
<1> DEFINE A == DOMAIN P
           B == {{c} \X P[c] : c \in A}
           f == [c \in A |-> {c} \X P[c]]
<1>1. f \in Surjection(A, B)
  BY DEF Surjection
<1>2. IsFiniteSet(B)
  <2> HIDE DEF f, B
  <2> QED
    BY <1>1, FS_Surjection
<1>3. \A T \in B : IsFiniteSet(T)
  <2> SUFFICES ASSUME NEW c \in A PROVE IsFiniteSet({c} \X P[c])
    OBVIOUS
  <2> QED
    BY FS_Singleton, FS_Product
<1> HIDE DEF A, B
<1>4. IsFiniteSet(UNION B)
  BY <1>2, <1>3, FS_UNION
<1> QED
  BY <1>4 DEF Tagged, A, B

\* Two sets together have no more elements than both, and as many if they are disjoint.
LEMMA UnionSize ==
    ASSUME NEW S, IsFiniteSet(S), NEW T, IsFiniteSet(T)
    PROVE  /\ IsFiniteSet(S \cup T) /\ Cardinality(S \cup T) \in Nat
           /\ Cardinality(S \cup T) <= Cardinality(S) + Cardinality(T)
           /\ S \cap T = {} => Cardinality(S \cup T) = Cardinality(S) + Cardinality(T)
<1> DEFINE s == Cardinality(S)
           t == Cardinality(T)
           u == Cardinality(S \cup T)
           c == Cardinality(S \cap T)
<1>1. IsFiniteSet(S \cup T) /\ u = s + t - c
  BY FS_Union
<1>2. IsFiniteSet(S \cap T)
  BY FS_Subset
<1>3. s \in Nat /\ t \in Nat /\ u \in Nat /\ c \in Nat
  BY <1>1, <1>2, FS_CardinalityType
<1>4. S \cap T = {} => c = 0
  BY FS_EmptySet
<1> HIDE DEF s, t, u, c
<1>5. u <= s + t /\ (S \cap T = {} => u = s + t)
  BY <1>1, <1>3, <1>4
<1> QED
  BY <1>1, <1>3, <1>5 DEF s, t, u

\* A set that is no larger has an injection.
LEMMA Embedding ==
    ASSUME NEW S, NEW T, IsFiniteSet(S), IsFiniteSet(T), Cardinality(S) <= Cardinality(T)
    PROVE  Injection(S, T) # {}
<1> DEFINE m == Cardinality(S)
           n == Cardinality(T)
<1>1. m \in Nat /\ n \in Nat /\ ExistsBijection(1..m, S) /\ ExistsBijection(1..n, T)
  BY FS_CardinalityType
<1>2. IsFiniteSet(1..m) /\ Cardinality(1..m) = m
  BY <1>1, FS_Interval
<1> HIDE DEF n
<1>3. ExistsBijection(S, 1..m)
  BY <1>2, FS_SameCardinalityBij
<1>4. PICK f \in Bijection(S, 1..m) : TRUE
  BY <1>3 DEF ExistsBijection
<1>5. PICK g \in Bijection(1..n, T) : TRUE
  BY <1>1 DEF ExistsBijection
<1>6. m <= n
  BY DEF n
<1> HIDE DEF m
<1>7. /\ f \in [S -> 1..m] /\ \A x, y \in S : f[x] = f[y] => x = y
      /\ g \in [1..n -> T] /\ \A x, y \in 1..n : g[x] = g[y] => x = y
  BY <1>4, <1>5 DEF Bijection, Injection, IsInjective
<1>8. \A x \in S : f[x] \in 1..n
  BY <1>1, <1>6, <1>7
<1> DEFINE h == [x \in S |-> g[f[x]]]
<1>9. h \in [S -> T]
  BY <1>7, <1>8
<1>10. \A x, y \in S : h[x] = h[y] => x = y
  BY <1>7, <1>8
<1>11. h \in Injection(S, T)
  BY <1>9, <1>10 DEF Injection, IsInjective
<1> QED
  BY <1>11

\* More sets, none smaller, have no fewer elements.
LEMMA TaggedLess ==
    ASSUME NEW P, NEW Q, IsFiniteSet(DOMAIN Q), DOMAIN P \subseteq DOMAIN Q,
           \A c \in DOMAIN P : IsFiniteSet(P[c]), \A c \in DOMAIN Q : IsFiniteSet(Q[c]),
           \A c \in DOMAIN P : Cardinality(P[c]) <= Cardinality(Q[c])
    PROVE  /\ Cardinality(Tagged(P)) <= Cardinality(Tagged(Q))
           /\ Cardinality(Tagged(P)) \in Nat /\ Cardinality(Tagged(Q)) \in Nat
<1> DEFINE g == [c \in DOMAIN P |-> CHOOSE f \in Injection(P[c], Q[c]) : TRUE]
           h == [x \in Tagged(P) |-> <<x[1], g[x[1]][x[2]]>>]
<1>1. ASSUME NEW c \in DOMAIN P
      PROVE  g[c] \in [P[c] -> Q[c]] /\ \A x, y \in P[c] : g[c][x] = g[c][y] => x = y
  <2>1. Injection(P[c], Q[c]) # {}
    BY Embedding
  <2>2. g[c] \in Injection(P[c], Q[c])
    BY <2>1
  <2> QED
    BY <2>2 DEF Injection, IsInjective
<1> HIDE DEF g
<1>2. ASSUME NEW x \in Tagged(P)
      PROVE  /\ x = <<x[1], x[2]>> /\ x[1] \in DOMAIN P /\ x[2] \in P[x[1]]
             /\ h[x] = <<x[1], g[x[1]][x[2]]>> /\ h[x] \in Tagged(Q)
  <2>1. PICK c \in DOMAIN P : x \in {c} \X P[c]
    BY DEF Tagged
  <2>2. x = <<c, x[2]>> /\ x[1] = c /\ x[2] \in P[c]
    BY <2>1
  <2>3. g[c][x[2]] \in Q[c] /\ c \in DOMAIN Q
    BY <1>1, <2>2
  <2>4. <<c, g[c][x[2]]>> \in {c} \X Q[c]
    BY <2>3
  <2>5. <<c, g[c][x[2]]>> \in Tagged(Q)
    BY <2>3, <2>4 DEF Tagged
  <2> QED
    BY <2>2, <2>5
<1>3. h \in [Tagged(P) -> Tagged(Q)]
  BY <1>2
<1>4. ASSUME NEW x \in Tagged(P), NEW y \in Tagged(P), h[x] = h[y]
      PROVE  x = y
  <2>1. x[1] = y[1] /\ g[x[1]][x[2]] = g[y[1]][y[2]]
    BY <1>2, <1>4
  <2>2. PICK c \in DOMAIN P : c = x[1]
    BY <1>2
  <2>3. x[2] \in P[c] /\ y[2] \in P[c] /\ g[c][x[2]] = g[c][y[2]]
    BY <1>2, <2>1, <2>2
  <2>4. x[2] = y[2]
    BY <1>1, <2>3
  <2> QED
    BY <1>2, <2>1, <2>4
<1>5. h \in Injection(Tagged(P), Tagged(Q))
  BY <1>3, <1>4 DEF Injection, IsInjective
<1>6. IsFiniteSet(Tagged(Q))
  BY TaggedFinite
<1> HIDE DEF h
<1> QED
  BY <1>5, <1>6, FS_Injection, FS_CardinalityType

\* Tokens and words of a chunk.
LEMMA TokenTypes ==
    ASSUME NEW c \in Chunks
    PROVE  /\ DOMAIN Tokens[c] = 1..Len(Tokens[c]) /\ Len(Tokens[c]) \in Nat
           /\ \A i \in PairsOf(c) : i \in Nat /\ i > 0 /\ Word[Tokens[c][i]] \in Words
<1>1. /\ Tokens[c] \in Seq(DOMAIN Word) /\ Word \in [DOMAIN Word -> Words \cup {Empty}]
      /\ Empty \notin Words
  BY BoundsAssumption
<1>2. DOMAIN Tokens[c] = 1..Len(Tokens[c]) /\ Len(Tokens[c]) \in Nat
      /\ \A i \in DOMAIN Tokens[c] : Tokens[c][i] \in DOMAIN Word
  BY <1>1
<1>3. ASSUME NEW i \in PairsOf(c)
      PROVE  i \in Nat /\ i > 0 /\ Word[Tokens[c][i]] \in Words
  <2>1. i \in DOMAIN Tokens[c] /\ Word[Tokens[c][i]] # Empty
    BY DEF PairsOf
  <2>2. Word[Tokens[c][i]] \in Words \cup {Empty}
    BY <1>1, <1>2, <2>1
  <2> QED
    BY <1>2, <2>1, <2>2
<1> QED
  BY <1>2, <1>3

\* Where a word is: finitely many places, all of them pairs.
LEMMA PlacesTypes ==
    ASSUME NEW c \in Chunks, NEW v \in Words
    PROVE  /\ IsFiniteSet(Places(c, v)) /\ Occurs(c, v) \in Nat
           /\ Places(c, v) \subseteq PairsOf(c) /\ Places(c, v) \subseteq Nat \ {0}
           /\ \A i \in PairsOf(c) : i \in Places(c, v) <=> Word[Tokens[c][i]] = v
<1>1. DOMAIN Tokens[c] = 1..Len(Tokens[c]) /\ Len(Tokens[c]) \in Nat
  BY TokenTypes
<1>2. Places(c, v) \subseteq 1..Len(Tokens[c])
  BY <1>1 DEF Places
<1>3. IsFiniteSet(Places(c, v))
  <2>1. IsFiniteSet(1..Len(Tokens[c]))
    BY <1>1, FS_Interval
  <2> QED
    BY <1>2, <2>1, FS_Subset
<1>4. Occurs(c, v) \in Nat
  BY <1>3, FS_CardinalityType DEF Occurs
<1>5. Empty \notin Words
  BY BoundsAssumption
<1> QED
  BY <1>1, <1>2, <1>3, <1>4, <1>5 DEF Places, PairsOf

\* The lines of a bucket are counted by a natural number.
LEMMA LinesOfType ==
    ASSUME lines \in [Chunks -> Counts], NEW v \in Words
    PROVE  IsFiniteSet(LinesOf(v)) /\ Cardinality(LinesOf(v)) \in Nat
<1> DEFINE P == [c \in Chunks |-> 1..lines[c][v]]
<1>1. \A c \in Chunks : lines[c][v] \in Nat
  BY DEF Counts
<1>2. \A c \in Chunks : IsFiniteSet(P[c])
  BY <1>1, FS_Interval
<1>3. DOMAIN P = Chunks /\ LinesOf(v) = Tagged(P)
  BY DEF LinesOf, Tagged
<1> HIDE DEF P
<1>4. IsFiniteSet(Tagged(P))
  BY <1>2, <1>3, ChunksAssumption, TaggedFinite
<1> QED
  BY <1>3, <1>4, FS_CardinalityType

\* So what is grouped is a count of each word.
LEMMA GroupedType ==
    ASSUME lines \in [Chunks -> Counts], NEW b
    PROVE  Grouped(b) \in Counts
BY LinesOfType DEF Grouped, Counts

-----------------------------------------------------------------------------
(* The types of the files.                                                 *)

\* One more line of a word.
LEMMA MoreLines ==
    ASSUME lines \in [Chunks -> Counts], NEW c \in Chunks, NEW u \in Words,
           lines' = [lines EXCEPT ![c][u] = @ + 1]
    PROVE  /\ lines' \in [Chunks -> Counts]
           /\ lines'[c][u] = lines[c][u] + 1
           /\ \A v \in Words : v # u => lines'[c][v] = lines[c][v]
           /\ \A d \in Chunks : d # c => lines'[d] = lines[d]
<1> USE DEF Counts
<1>1. lines' = [lines EXCEPT ![c] = [lines[c] EXCEPT ![u] = lines[c][u] + 1]]
  OBVIOUS
<1>2. lines[c] \in [Words -> Nat] /\ lines[c][u] + 1 \in Nat
  OBVIOUS
<1>3. [lines[c] EXCEPT ![u] = lines[c][u] + 1] \in [Words -> Nat]
  BY <1>2
<1> QED
  BY <1>1, <1>2, <1>3

\* A mapper that spreads a pair of its chunk.
Spreads(w, c, i) ==
    /\ worker[w] = "spread" /\ pc = "waitMap" /\ c = pattern[w] /\ c \in Chunks
    /\ i \in PairsOf(c) /\ i \in Nat /\ i > spread[w]
    /\ \A j \in PairsBehind(c, spread[w]) : i <= j
    /\ lines' = [lines EXCEPT ![c][Word[Tokens[c][i]]] = @ + 1] /\ Word[Tokens[c][i]] \in Words
    /\ UNCHANGED <<pc, server, queues, backlog, pattern, success, leaving, mapped, results,
                   confirmed, bounds>>
    /\ \/ /\ PairsBehind(c, spread[w]) = {i}
          /\ spread' = [spread EXCEPT ![w] = 0] /\ worker' = [worker EXCEPT ![w] = "report"]
       \/ /\ PairsBehind(c, spread[w]) # {i}
          /\ spread' = [spread EXCEPT ![w] = i] /\ worker' = [worker EXCEPT ![w] = "spread"]

\* Spread is that.
LEMMA SpreadSteps ==
    ASSUME IInv, NEW w \in Workers, Spread(w)
    PROVE  \E c, i : Spreads(w, c, i)
<1> DEFINE c == pattern[w]
           rest == PairsBehind(c, spread[w])
<1>1. worker[w] = "spread" /\ pc = "waitMap" /\ c \in Chunks
  BY DEF Spread, IInv, LabelInv, ChunkInv, Resting, Waiting, ReduceLabels, Idle
<1>2. PICK i \in rest :
         /\ \A j \in rest : i <= j
         /\ lines' = [lines EXCEPT ![c][Word[Tokens[c][i]]] = @ + 1]
         /\ spread' = [spread EXCEPT ![w] = IF rest = {i} THEN 0 ELSE i]
         /\ worker' = [worker EXCEPT ![w] = IF rest = {i} THEN "report" ELSE "spread"]
  BY DEF Spread
<1>3. i \in PairsOf(c) /\ i > spread[w]
  BY <1>2 DEF PairsBehind
<1>4. i \in Nat /\ Word[Tokens[c][i]] \in Words
  BY <1>1, <1>3, TokenTypes
<1>5. UNCHANGED <<pc, server, queues, backlog, pattern, success, leaving, mapped, results,
                  confirmed, bounds>>
  BY DEF Spread
<1>6. \/ /\ rest = {i} /\ spread' = [spread EXCEPT ![w] = 0]
         /\ worker' = [worker EXCEPT ![w] = "report"]
      \/ /\ rest # {i} /\ spread' = [spread EXCEPT ![w] = i]
         /\ worker' = [worker EXCEPT ![w] = "spread"]
  BY <1>2
<1>7. Spreads(w, c, i)
  BY <1>1, <1>2, <1>3, <1>4, <1>5, <1>6 DEF Spreads
<1> QED
  BY <1>7

\* The steps of the reducers keep the types.
LEMMA ReducerData ==
    ASSUME Types, DataOK, NEW w \in Workers,
           Sort(w) \/ SortFails(w) \/ ReduceOK(w) \/ ReduceFails(w)
    PROVE  DataOK'
<1> USE DEF DataOK, server, settings, bounds, files, results, workers, Written
<1>2. CASE Sort(w)
  <2>1. Grouped(pattern[w]) \in Counts
    BY GroupedType
  <2>2. mid' \in [BucketPatterns -> Counts \cup {NoFile}]
    BY <1>2, <2>1 DEF Sort
  <2> QED
    BY <1>2, <2>2 DEF Sort
<1>3. CASE SortFails(w)
  <2>1. [v \in Words |-> 0] \in Counts
    BY DEF Counts
  <2>2. mid' \in [BucketPatterns -> Counts \cup {NoFile}]
    BY <1>3, <2>1 DEF SortFails
  <2>3. sortFailures' \in 0..MaxSortFailures
    BY <1>3, BoundsAssumption DEF SortFails
  <2> QED
    BY <1>3, <2>2, <2>3 DEF SortFails
<1>4. ASSUME NEW ok \in BOOLEAN, Reduced(w, ok)
      PROVE  /\ output' \in [BucketPatterns -> Counts \cup {NoFile}]
             /\ mid' \in [BucketPatterns -> Counts \cup {NoFile}]
             /\ success' \in [Workers -> BOOLEAN]
  <2>1. mid' \in [BucketPatterns -> Counts \cup {NoFile}]
    BY <1>4 DEF Reduced
  <2>2. pattern[w] \in BucketPatterns => mid[pattern[w]] \in Counts \cup {NoFile}
    OBVIOUS
  <2>3. output' \in [BucketPatterns -> Counts \cup {NoFile}]
    BY <1>4, <2>2 DEF Reduced
  <2> QED
    BY <1>4, <2>1, <2>3 DEF Reduced
<1>5. CASE ReduceOK(w)
  BY <1>4, <1>5 DEF ReduceOK, Reduced
<1>6. CASE ReduceFails(w)
  <2>1. failures' \in 0..MaxFailures
    BY <1>6, BoundsAssumption DEF ReduceFails
  <2> QED
    BY <1>4, <1>6, <2>1 DEF ReduceFails, Reduced
<1> QED
  BY <1>2, <1>3, <1>5, <1>6

\* Every step keeps the types.
LEMMA DataStep ==
    ASSUME IInv, DataOK, Next
    PROVE  DataOK'
<1> USE DEF DataOK, server, settings, queues, bounds, files, results, workers
<1>0. Types
  BY DEF IInv
<1>1. CASE Main
  <2>1. CASE Start
    BY <2>1 DEF Start, MapOnly, Supplied
  <2>2. CASE StageMap \/ ClearUnprocessed \/ StageReduce \/ BringDownServer \/ JoinServer
    BY <2>2 DEF StageMap, ClearUnprocessed, StageReduce, BringDownServer, JoinServer
  <2>3. ASSUME NEW from, NEW to, SpawnWorkers(from, to) \/ PoolWait(from, to) PROVE DataOK'
    BY <2>3 DEF SpawnWorkers, PoolWait
  <2> QED
    BY <1>1, <2>1, <2>2, <2>3
    DEF Main, SpawnMappers, SpawnReducers, WaitMappers, WaitReducers
<1>2. CASE Server
  BY <1>2 DEF Server, ServerStarts, ServerStops, HandleRequest, HandleReadyStart, HandleReadyDone,
          HandleSucceeded, HandleFailed, HandleUnknown
<1>3. ASSUME NEW w \in Workers, Request(w) \/ Report(w) \/ OpenOutput(w) PROVE DataOK'
  BY <1>3 DEF Request, Report, Notified, OpenOutput
<1>4. ASSUME NEW w \in Workers, RemoveOutput(w) PROVE DataOK'
  BY <1>4 DEF RemoveOutput
<1>5. ASSUME NEW w \in Workers, Crash(w) PROVE DataOK'
  <2>1. crashes' \in 0..MaxCrashes
    BY <1>5, BoundsAssumption DEF Crash
  <2> QED
    BY <1>5, <2>1 DEF Crash
<1>6. ASSUME NEW w \in Workers, ProcessOK(w) \/ ProcessFails(w) PROVE DataOK'
  <2>1. failures' \in 0..MaxFailures
    <3>1. failures' = failures \/ (failures < MaxFailures /\ failures' = failures + 1)
      BY <1>6 DEF ProcessOK, ProcessFails
    <3> QED
      BY <3>1, BoundsAssumption
  <2>2. ASSUME NEW ok \in BOOLEAN, NEW kept \in BOOLEAN, Processed(w, ok, kept) PROVE DataOK'
    BY <2>1, <2>2 DEF Processed
  <2> QED
    BY <1>6, <2>2 DEF ProcessOK, ProcessFails
<1>7. ASSUME NEW w \in Workers, Spread(w) PROVE DataOK'
  <2>1. PICK c, i : Spreads(w, c, i)
    BY <1>7, SpreadSteps
  <2>2. lines' \in [Chunks -> Counts]
    BY <2>1, MoreLines DEF Spreads
  <2>3. spread' \in [Workers -> Nat]
    BY <2>1 DEF Spreads
  <2> QED
    BY <2>1, <2>2, <2>3 DEF Spreads
<1>8. ASSUME NEW w \in Workers, Sort(w) \/ SortFails(w) \/ ReduceOK(w) \/ ReduceFails(w)
      PROVE  DataOK'
  BY <1>0, <1>8, ReducerData
<1> QED
  BY <1>1, <1>2, <1>3, <1>4, <1>5, <1>6, <1>7, <1>8 DEF Next, Work, Fails

-----------------------------------------------------------------------------
(* What is done.                                                           *)

\* What is confirmed stays apart from the rest, and nothing is forgotten.
LEMMA DoneStep ==
    ASSUME IInv, DoneInv, Next
    PROVE  DoneInv'
<1> USE DEF IInv, DoneInv, server, settings, queues, workers, files, results, bounds
<1>1. ASSUME UNCHANGED <<pc, unprocessed, inflight, confirmed>> PROVE DoneInv'
  BY <1>1 DEF Queued
<1>2. CASE Main
  <2> USE DEF Step, Staged
  <2>1. CASE Start \/ JoinServer \/ BringDownServer
    BY <2>1 DEF Start, JoinServer, BringDownServer, Queued
  <2>2. CASE StageMap
    <3>1. /\ inflight = {} /\ confirmed = {} /\ UNCHANGED <<inflight, confirmed>>
          /\ pc' = "spawnMap"
      BY <2>2 DEF StageMap, PhaseInv
    <3>2. Cardinality(Chunks) \in Nat
      BY ChunksAssumption, FS_CardinalityType
    <3>3. Queued' = Chunks
      BY <2>2, <3>2 DEF StageMap, Listings, Queued
    <3> QED
      BY <3>1, <3>3
  <2>3. ASSUME NEW from, NEW to, from # "stageMap",
               to = "waitMap" => from = "spawnMap", to # "spawnMap",
               to \in Staged \/ from \notin Staged,
               SpawnWorkers(from, to) \/ PoolWait(from, to)
        PROVE  DoneInv'
    BY <2>3 DEF SpawnWorkers, PoolWait, Queued
  <2>4. CASE ClearUnprocessed
    BY <2>4 DEF ClearUnprocessed
  <2>5. CASE StageReduce
    <3> DEFINE more == [i \in 1..splitValue |-> i - 1]
    <3>1. /\ pc = "stageReduce" /\ pc' = "spawnReduce" /\ unprocessed' = unprocessed \o more
          /\ UNCHANGED <<inflight, confirmed>>
      BY <2>5 DEF StageReduce
    <3>2. splitValue \in Nat /\ Buckets \cap Chunks = {} /\ confirmed \subseteq Chunks
      BY <3>1, BucketsType DEF ChunkInv
    <3>3. \A i \in DOMAIN more : more[i] \notin confirmed
      BY <3>2 DEF Buckets
    <3>4. unprocessed \in Seq(Patterns)
      BY DEF Types
    <3>5. more \in Seq(Nat)
      BY <3>2
    <3> HIDE DEF more
    <3>6. ASSUME NEW j \in DOMAIN unprocessed'
          PROVE  \/ j \in DOMAIN unprocessed /\ unprocessed'[j] = unprocessed[j]
                 \/ \E i \in DOMAIN more : unprocessed'[j] = more[i]
      <4>1. /\ Len(unprocessed) \in Nat /\ Len(more) \in Nat
            /\ DOMAIN unprocessed = 1..Len(unprocessed) /\ DOMAIN more = 1..Len(more)
            /\ j \in 1..(Len(unprocessed) + Len(more))
            /\ unprocessed'[j] = IF j <= Len(unprocessed) THEN unprocessed[j]
                                 ELSE more[j - Len(unprocessed)]
        BY <3>1, <3>4, <3>5
      <4>2. CASE j <= Len(unprocessed)
        BY <4>1, <4>2
      <4>3. CASE ~(j <= Len(unprocessed))
        <5>1. j - Len(unprocessed) \in DOMAIN more
          BY <4>1, <4>3
        <5> QED
          BY <4>1, <4>3, <5>1
      <4> QED
        BY <4>2, <4>3
    <3> QED
      BY <3>1, <3>3, <3>6
  <2> QED
    BY <1>2, <2>1, <2>2, <2>3, <2>4, <2>5
    DEF Main, SpawnMappers, SpawnReducers, WaitMappers, WaitReducers
<1>3. CASE HandleReadyStart
  <2>1. Takes /\ UNCHANGED <<pc, confirmed>>
    BY <1>3, StartGives
  <2>2. Queued = Queued' \cup {unprocessed[1]} /\ inflight' = inflight \cup {unprocessed[1]}
    BY <2>1 DEF Takes, Queued
  <2>3. \A i \in DOMAIN unprocessed' : unprocessed'[i] \in Queued'
    BY DEF Queued
  <2>4. \A p \in confirmed : p \notin inflight /\ p \notin Queued
    BY DEF Queued
  <2> QED
    BY <2>1, <2>2, <2>3, <2>4
<1>4. CASE HandleSucceeded
  <2> DEFINE p == backlog[1].pattern
  <2>1. Pops("succeeded")
    BY <1>4, Popped DEF HandleSucceeded
  <2>2. p \in inflight
    BY <2>1, MessageKinds DEF Pops, AccountInv
  <2>3. /\ inflight' = inflight \ {p} /\ confirmed' = confirmed \cup {p}
        /\ UNCHANGED <<unprocessed, pc>>
    BY <1>4, <2>1 DEF HandleSucceeded, Pops
  <2> HIDE DEF p
  <2>4. \A i \in DOMAIN unprocessed : unprocessed[i] # p
    BY <2>2 DEF QueueInv
  <2>5. pc \notin Staged => p \in Chunks
    BY <2>2 DEF ChunkInv
  <2>6. Queued' = Queued
    BY <2>3 DEF Queued
  <2> QED
    BY <2>2, <2>3, <2>4, <2>5, <2>6
<1>5. CASE HandleFailed
  <2> DEFINE p == backlog[1].pattern
  <2>1. Pops("failed") /\ Requeues(p) /\ inflight' = inflight \ {p}
    BY <1>5, Popped, Requeued DEF HandleFailed
  <2>2. p \in inflight
    BY <2>1 DEF Pops, AccountInv, Requeues
  <2>3. UNCHANGED <<confirmed, pc>>
    BY <1>5 DEF HandleFailed
  <2> HIDE DEF p
  <2>4. Queued' = Queued \cup {p}
    BY <2>1 DEF Requeues, Queued
  <2>5. p \notin confirmed
    BY <2>2
  <2>6. \A i \in DOMAIN unprocessed' : unprocessed'[i] \in Queued'
    BY DEF Queued
  <2>7. \A q \in confirmed : q \notin inflight /\ q \notin Queued
    BY DEF Queued
  <2> QED
    BY <2>1, <2>3, <2>4, <2>5, <2>6, <2>7
<1>6. CASE HandleReadyDone \/ HandleUnknown
  BY <1>1, <1>6 DEF HandleReadyDone, HandleUnknown
<1>7. ASSUME NEW w \in Workers, Request(w) \/ Report(w) \/ RemoveOutput(w) \/ Crash(w)
      PROVE  DoneInv'
  BY <1>1, <1>7 DEF Request, Report, RemoveOutput, Crash
<1>8. CASE Internal
  BY <1>1, <1>8 DEF Internal
<1> QED
  BY <1>2, <1>3, <1>4, <1>5, <1>6, <1>7, <1>8, InternalSteps
  DEF Next, Server, HandleRequest, Work, Fails, WorksOn

-----------------------------------------------------------------------------
(* The lines of a chunk.                                                   *)

\* Whoever holds a pattern holds it alone.
LEMMA Alone ==
    ASSUME IInv, DoneInv, NEW w \in Workers, Holds(w)
    PROVE  /\ pattern[w] \in inflight /\ pattern[w] \notin confirmed
           /\ \A v \in Workers : v # w /\ Holds(v) => pattern[v] # pattern[w]
           /\ \A i \in DOMAIN backlog : backlog[i].pattern # pattern[w]
BY DEF IInv, DoneInv, AccountInv, Holds

\* At these labels a mapper holds a chunk.
LEMMA Mapping1 ==
    ASSUME IInv, pc = "waitMap", NEW w \in Workers,
           worker[w] \in {"process", "open", "spread", "report"}
    PROVE  Holds(w) /\ pattern[w] \in Chunks
BY DEF IInv, LabelInv, ChunkInv, Idle, Holds

\* A report is of a chunk in flight.
LEMMA Reported1 ==
    ASSUME IInv, pc = "waitMap", NEW i \in DOMAIN backlog,
           backlog[i].pattern # NoPattern \/ backlog[i].type \in {"succeeded", "failed"}
    PROVE  /\ backlog[i].pattern \in Chunks /\ backlog[i].pattern \in inflight
           /\ backlog[i].type \in {"succeeded", "failed"}
<1>1. backlog[i] \in Message
  BY DEF IInv, Types
<1>2. backlog[i].pattern # NoPattern
  BY <1>1, MessageKinds
<1>3. backlog[i].pattern \in inflight
  BY <1>2 DEF IInv, AccountInv
<1>4. inflight \subseteq Chunks
  BY DEF IInv, ChunkInv, Staged
<1> QED
  BY <1>1, <1>2, <1>3, <1>4, MessageKinds

\* NoPattern is no chunk.
LEMMA NoChunk == NoPattern \notin Chunks
BY BoundsAssumption DEF Patterns

\* The places of a word up to the next pair.
LEMMA NextPlace ==
    ASSUME NEW c \in Chunks, NEW k, NEW i \in PairsOf(c), i > k, k \in Nat,
           \A j \in PairsBehind(c, k) : i <= j, NEW v \in Words
    PROVE  /\ Cardinality(PlacesTo(c, v, k)) \in Nat
           /\ Cardinality(PlacesTo(c, v, i)) =
                 Cardinality(PlacesTo(c, v, k)) + (IF Word[Tokens[c][i]] = v THEN 1 ELSE 0)
           /\ Cardinality(PlacesTo(c, v, i)) <= Occurs(c, v)
           /\ PairsBehind(c, k) = {i} => Cardinality(PlacesTo(c, v, i)) = Occurs(c, v)
           /\ PairsBehind(c, k) # {i} => PairsBehind(c, i) # {}
<1>1. /\ IsFiniteSet(Places(c, v)) /\ Places(c, v) \subseteq PairsOf(c)
      /\ \A j \in PairsOf(c) : j \in Places(c, v) <=> Word[Tokens[c][j]] = v
  BY PlacesTypes
<1>2. \A j \in PairsOf(c) : j \in Nat
  BY TokenTypes
<1>3. ASSUME NEW n \in Nat
      PROVE  IsFiniteSet(PlacesTo(c, v, n)) /\ Cardinality(PlacesTo(c, v, n)) <= Occurs(c, v)
             /\ Cardinality(PlacesTo(c, v, n)) \in Nat
  <2>1. PlacesTo(c, v, n) \subseteq Places(c, v)
    BY DEF PlacesTo
  <2> QED
    BY <1>1, <2>1, FS_Subset, FS_CardinalityType DEF Occurs
<1>4. \A j \in PairsOf(c) : j > k => i <= j
  BY DEF PairsBehind
<1>5. i \notin PlacesTo(c, v, k)
  BY <1>2 DEF PlacesTo
<1>6. Cardinality(PlacesTo(c, v, i)) =
         Cardinality(PlacesTo(c, v, k)) + (IF Word[Tokens[c][i]] = v THEN 1 ELSE 0)
  <2>1. IsFiniteSet(PlacesTo(c, v, k)) /\ Cardinality(PlacesTo(c, v, k)) \in Nat
    BY <1>3
  <2>2. CASE Word[Tokens[c][i]] = v
    <3>1. PlacesTo(c, v, i) = PlacesTo(c, v, k) \cup {i}
      BY <1>1, <1>2, <1>4, <2>2 DEF PlacesTo
    <3>2. Cardinality(PlacesTo(c, v, i)) = Cardinality(PlacesTo(c, v, k)) + 1
      BY <1>5, <2>1, <3>1, FS_AddElement
    <3> QED
      BY <2>2, <3>2
  <2>3. CASE Word[Tokens[c][i]] # v
    <3>1. PlacesTo(c, v, i) = PlacesTo(c, v, k)
      BY <1>1, <1>2, <1>4, <2>3 DEF PlacesTo
    <3> QED
      BY <2>1, <2>3, <3>1
  <2> QED
    BY <2>2, <2>3
<1>8. ASSUME PairsBehind(c, k) = {i}
      PROVE  Cardinality(PlacesTo(c, v, i)) = Occurs(c, v)
  <2>1. \A j \in PairsOf(c) : j > k => j = i
    BY <1>8 DEF PairsBehind
  <2>2. PlacesTo(c, v, i) = Places(c, v)
    BY <1>1, <1>2, <2>1 DEF PlacesTo
  <2> QED
    BY <2>2 DEF Occurs
<1>9. ASSUME PairsBehind(c, k) # {i} PROVE PairsBehind(c, i) # {}
  <2>1. i \in PairsBehind(c, k)
    BY DEF PairsBehind
  <2>2. PICK j \in PairsBehind(c, k) : j # i
    BY <1>9, <2>1
  <2>3. j \in PairsOf(c) /\ j > i
    BY <1>2, <1>4, <2>2 DEF PairsBehind
  <2> QED
    BY <2>3 DEF PairsBehind
<1> QED
  BY <1>2, <1>3, <1>6, <1>8, <1>9

\* One pair more: the lines are those of the places up to it.
LEMMA SpreadCounts ==
    ASSUME IInv, DataOK, LinesInv, NEW w \in Workers, NEW c, NEW i, Spreads(w, c, i)
    PROVE  /\ \A v \in Words : /\ lines'[c][v] = Cardinality(PlacesTo(c, v, i))
                               /\ lines'[c][v] <= Occurs(c, v)
           /\ \A d \in Chunks : d # c => lines'[d] = lines[d]
           /\ PairsBehind(c, spread[w]) = {i} => Right(c)'
           /\ PairsBehind(c, spread[w]) # {i} => PairsBehind(c, i) # {}
<1> DEFINE k == spread[w]
           u == Word[Tokens[c][i]]
<1>1. /\ c \in Chunks /\ i \in PairsOf(c) /\ i > k /\ k \in Nat /\ u \in Words
      /\ \A j \in PairsBehind(c, k) : i <= j
  BY DEF Spreads, DataOK
<1>2. /\ lines'[c][u] = lines[c][u] + 1
      /\ \A v \in Words : v # u => lines'[c][v] = lines[c][v]
      /\ \A d \in Chunks : d # c => lines'[d] = lines[d]
  <2>1. lines \in [Chunks -> Counts] /\ lines' = [lines EXCEPT ![c][u] = @ + 1]
    BY DEF Spreads, DataOK
  <2> HIDE DEF u
  <2> QED
    BY <1>1, <2>1, MoreLines
<1>3. \A v \in Words : lines[c][v] = Cardinality(PlacesTo(c, v, k))
  BY DEF Spreads, LinesInv, Mapper
<1> HIDE DEF k
<1>4. ASSUME NEW v \in Words
      PROVE  /\ lines'[c][v] = Cardinality(PlacesTo(c, v, i)) /\ lines'[c][v] <= Occurs(c, v)
             /\ PairsBehind(c, k) = {i} => lines'[c][v] = Occurs(c, v)
  <2>1. /\ Cardinality(PlacesTo(c, v, k)) \in Nat
        /\ Cardinality(PlacesTo(c, v, i)) =
              Cardinality(PlacesTo(c, v, k)) + (IF u = v THEN 1 ELSE 0)
        /\ Cardinality(PlacesTo(c, v, i)) <= Occurs(c, v)
        /\ PairsBehind(c, k) = {i} => Cardinality(PlacesTo(c, v, i)) = Occurs(c, v)
    BY <1>1, NextPlace
  <2> HIDE DEF u
  <2>2. CASE u = v
    BY <1>2, <1>3, <2>1, <2>2
  <2>3. CASE u # v
    BY <1>2, <1>3, <2>1, <2>3
  <2> QED
    BY <2>2, <2>3
<1>5. PairsBehind(c, k) = {i} => Right(c)'
  BY <1>4 DEF Right, Occurs
<1>6. PairsBehind(c, k) # {i} => PairsBehind(c, i) # {}
  <2>1. u \in Words
    BY <1>1
  <2> QED
    BY <1>1, <2>1, NextPlace
<1> QED
  BY <1>2, <1>4, <1>5, <1>6 DEF k

\* Nobody else's chunk changes, and no chunk that is reported or at rest.
LEMMA SpreadAlone ==
    ASSUME IInv, DoneInv, DataOK, LinesInv, NEW w \in Workers, NEW c, NEW i, Spreads(w, c, i)
    PROVE  /\ c \in inflight /\ c \notin confirmed
           /\ \A d \in Chunks : d # c => /\ Blank(d) => Blank(d)'
                                         /\ Right(d) => Right(d)'
           /\ \A v \in Workers :
                 v # w /\ worker[v] \in {"process", "open", "spread", "report"} =>
                     pattern[v] # c /\ pattern[v] \in Chunks
           /\ \A j \in DOMAIN backlog : backlog[j].pattern # c
<1>1. pc = "waitMap" /\ c = pattern[w] /\ worker[w] = "spread" /\ c \in Chunks
  BY DEF Spreads
<1>2. Holds(w)
  BY <1>1, Mapping1
<1>3. \A d \in Chunks : d # c => lines'[d] = lines[d]
  BY SpreadCounts
<1>4. \A d \in Chunks : d # c => (Blank(d) => Blank(d)') /\ (Right(d) => Right(d)')
  BY <1>3 DEF Blank, Right, Occurs
<1>5. \A v \in Workers :
         v # w /\ worker[v] \in {"process", "open", "spread", "report"} =>
             pattern[v] # c /\ pattern[v] \in Chunks
  BY <1>1, <1>2, Mapping1, Alone
<1> QED
  BY <1>1, <1>2, <1>4, <1>5, Alone

\* What a mapper knows of its lines it still knows when they have not changed.
LEMMA MapperKept ==
    ASSUME NEW v \in Workers, Mapper(v),
           worker'[v] = worker[v], pattern'[v] = pattern[v],
           success'[v] = success[v], spread'[v] = spread[v],
           worker[v] \in {"process", "open", "spread", "report"} =>
               lines'[pattern[v]] = lines[pattern[v]],
           worker[v] = "open" => (mapped'[pattern[v]] => mapped[pattern[v]])
    PROVE  Mapper(v)'
BY DEF Mapper, Blank

\* The main thread leaves the lines alone.
LEMMA LinesMain ==
    ASSUME IInv, LinesInv, Main
    PROVE  LinesInv'
<1> USE DEF LinesInv, server, settings, queues, workers, files, results, bounds, Step, Before
<1>1. ASSUME UNCHANGED <<lines, spread, worker>>, pc' # "waitMap", pc' \in Before => pc \in Before
      PROVE  LinesInv'
  BY <1>1 DEF Blank, Occurs
<1>2. CASE Start \/ StageMap \/ ClearUnprocessed \/ StageReduce \/ BringDownServer \/ JoinServer
  BY <1>1, <1>2 DEF Start, StageMap, ClearUnprocessed, StageReduce, BringDownServer, JoinServer
<1>3. CASE WaitMappers \/ WaitReducers
  BY <1>1, <1>3 DEF WaitMappers, WaitReducers, PoolWait
<1>4. ASSUME SpawnMappers \/ SpawnReducers PROVE LinesInv'
  <2>1. /\ worker' = [w \in Workers |-> "request"] /\ UNCHANGED <<lines, spread, backlog>>
        /\ pc \notin Waiting /\ pc' \in Waiting
        /\ pc' = "waitMap" => pc = "spawnMap"
    BY <1>4 DEF SpawnMappers, SpawnReducers, SpawnWorkers, Waiting
  <2>2. \A w \in Workers : spread[w] = 0
    BY <2>1 DEF IInv, LabelInv, Resting
  <2>3. pc' = "waitMap" => backlog = <<>>
    BY <2>1 DEF IInv, PhaseInv
  <2>4. \A w \in Workers : Mapper(w)'
    BY <2>1 DEF Mapper
  <2>5. pc' = "waitMap" => \A c \in Chunks : Blank(c)'
    BY <2>1 DEF Blank
  <2> QED
    BY <2>1, <2>2, <2>3, <2>4, <2>5 DEF Waiting, Occurs
<1> QED
  BY <1>2, <1>3, <1>4 DEF Main

\* So do the steps outside the first phase.
LEMMA LinesLater ==
    ASSUME IInv, DataOK, LinesInv, Next, ~Main, pc # "waitMap"
    PROVE  LinesInv' /\ UNCHANGED <<lines, pc>>
<1> USE DEF LinesInv, server, settings, queues, workers, files, results, bounds
<1>1. ASSUME UNCHANGED <<lines, pc>>,
             \A w \in Workers : worker'[w] # "spread" => spread'[w] = 0
      PROVE  LinesInv'
  BY <1>1 DEF Blank, Occurs
<1>2. \A w \in Workers : worker[w] \notin {"spread", "process", "open", "remove"}
                         /\ spread[w] = 0
  BY DEF IInv, LabelInv, Waiting, Resting, ReduceLabels, Types
<1>3. CASE Server
  <2>1. UNCHANGED <<lines, pc, spread>>
    BY <1>3 DEF Server, ServerStarts, ServerStops, HandleRequest, HandleReadyStart,
            HandleReadyDone, HandleSucceeded, HandleFailed, HandleUnknown
  <2> QED
    BY <1>1, <1>2, <2>1
<1>4. ASSUME NEW w \in Workers, Request(w) \/ Report(w) \/ Crash(w)
      PROVE  UNCHANGED <<lines, pc>> /\ \A v \in Workers : spread'[v] = 0
  <2>1. UNCHANGED <<lines, pc>> /\ (spread' = spread \/ spread' = [spread EXCEPT ![w] = 0])
    BY <1>4 DEF Request, Report, Crash
  <2> QED
    BY <1>2, <2>1 DEF DataOK
<1>5. ASSUME NEW w \in Workers, Sort(w) \/ SortFails(w) \/ ReduceOK(w) \/ ReduceFails(w)
      PROVE  UNCHANGED <<lines, pc, spread>>
  BY <1>5 DEF Sort, SortFails, ReduceOK, ReduceFails, Reduced
<1>6. ASSUME NEW w \in Workers, \/ ProcessOK(w) \/ ProcessFails(w) \/ OpenOutput(w) \/ Spread(w)
                                \/ RemoveOutput(w)
      PROVE  FALSE
  BY <1>2, <1>6 DEF ProcessOK, ProcessFails, Processed, OpenOutput, Spread, RemoveOutput
<1> QED
  BY <1>1, <1>2, <1>3, <1>4, <1>5, <1>6 DEF Next, Work, Fails

\* In the first phase a step either spreads a pair or leaves the lines; this is
\* what it then has to keep.
LEMMA LinesKept ==
    ASSUME LinesInv, pc = "waitMap", UNCHANGED <<pc, lines>>,
           \A w \in Workers : worker'[w] # "spread" => spread'[w] = 0,
           \A c \in Chunks : c \notin inflight' /\ c \notin confirmed' => Blank(c),
           \A i \in DOMAIN backlog' : backlog'[i].type = "failed" => Blank(backlog'[i].pattern),
           \A w \in Workers : Mapper(w)'
    PROVE  LinesInv'
BY DEF LinesInv, Before, Blank, Occurs

\* The server thread in the first phase.
LEMMA LinesServer ==
    ASSUME IInv, DoneInv, LinesInv, Server, pc = "waitMap"
    PROVE  LinesInv'
<1> USE DEF LinesInv, server, settings, queues, workers, files, results, bounds
<1>1. UNCHANGED <<pc, lines, spread, success, mapped>>
  BY DEF Server, ServerStarts, ServerStops, HandleRequest, HandleReadyStart,
         HandleReadyDone, HandleSucceeded, HandleFailed, HandleUnknown
<1>2. ASSUME NEW type, Pops(type)
      PROVE  \A i \in DOMAIN backlog' :
                backlog'[i].type = "failed" => Blank(backlog'[i].pattern)
  BY <1>2 DEF Pops
<1>3. ASSUME UNCHANGED <<worker, pattern>> PROVE \A w \in Workers : Mapper(w)'
  BY <1>1, <1>3, MapperKept
<1>4. CASE ServerStarts \/ ServerStops
  <2>1. UNCHANGED <<worker, pattern, inflight, confirmed, backlog>>
    BY <1>4 DEF ServerStarts, ServerStops
  <2> QED
    BY <1>1, <1>3, <2>1, LinesKept
<1>5. CASE HandleReadyStart
  <2>1. Takes /\ Pops("ready") /\ Gives(unprocessed[1]) /\ UNCHANGED confirmed
    BY <1>5, StartGives DEF IInv
  <2> DEFINE p == unprocessed[1]
  <2>2. p \in Chunks /\ p \notin inflight /\ p \notin confirmed
    BY <2>1 DEF Takes, IInv, ChunkInv, Staged, QueueInv, DoneInv
  <2>3. Blank(p)
    BY <2>2
  <2>4. \A c \in Chunks : c \notin inflight' /\ c \notin confirmed' => Blank(c)
    BY <2>1 DEF Takes
  <2>5. ASSUME NEW w \in Workers
        PROVE  Mapper(w)' /\ (worker'[w] # "spread" => spread'[w] = 0)
    <3>1. CASE worker'[w] = worker[w] /\ pattern'[w] = pattern[w]
      BY <1>1, <3>1, MapperKept
    <3>2. CASE worker[w] = "await" /\ worker'[w] \in {"process", "sort"} /\ pattern'[w] = p
      BY <1>1, <2>3, <3>2 DEF Mapper, Blank
    <3> QED
      BY <2>1, <3>1, <3>2 DEF Gives
  <2> QED
    BY <1>1, <1>2, <2>1, <2>4, <2>5, LinesKept
<1>6. CASE HandleReadyDone
  <2>1. Pops("ready") /\ Answers("exited", NoPattern) /\ UNCHANGED <<inflight, confirmed>>
    BY <1>6, Popped, Answered DEF HandleReadyDone, IInv
  <2>2. ASSUME NEW w \in Workers
        PROVE  Mapper(w)' /\ (worker'[w] # "spread" => spread'[w] = 0)
    <3>1. CASE worker'[w] = worker[w] /\ pattern'[w] = pattern[w]
      BY <1>1, <3>1, MapperKept
    <3>2. CASE w = backlog[1].from /\ worker'[w] = "exited"
      <4>1. worker[w] = "await"
        BY <2>1, <3>2, MessageKinds DEF Pops, IInv, MessageInv
      <4> QED
        BY <1>1, <3>2, <4>1 DEF Mapper
    <3> QED
      BY <2>1, <3>1, <3>2 DEF Answers, IInv, Types
  <2> QED
    BY <1>1, <1>2, <2>1, <2>2, LinesKept
<1>7. CASE HandleSucceeded
  <2>1. /\ Pops("succeeded") /\ inflight' = inflight \ {backlog[1].pattern}
        /\ confirmed' = confirmed \cup {backlog[1].pattern} /\ UNCHANGED <<worker, pattern>>
    BY <1>7, Popped DEF HandleSucceeded, Pops, IInv
  <2>2. \A c \in Chunks : c \notin inflight' /\ c \notin confirmed' => Blank(c)
    BY <2>1
  <2> QED
    BY <1>1, <1>2, <1>3, <2>1, <2>2, LinesKept
<1>8. CASE HandleFailed
  <2>1. /\ Pops("failed") /\ inflight' = inflight \ {backlog[1].pattern}
        /\ UNCHANGED <<worker, pattern, confirmed>>
    BY <1>8, Popped, Requeued DEF HandleFailed, IInv
  <2>2. Blank(backlog[1].pattern)
    BY <2>1 DEF Pops
  <2>3. \A c \in Chunks : c \notin inflight' /\ c \notin confirmed' => Blank(c)
    BY <2>1, <2>2
  <2> QED
    BY <1>1, <1>2, <1>3, <2>1, <2>3, LinesKept
<1>9. CASE HandleUnknown
  <2>1. Pops("unknown") /\ UNCHANGED <<worker, pattern, inflight, confirmed>>
    BY <1>9, Popped DEF HandleUnknown, IInv
  <2> QED
    BY <1>1, <1>2, <1>3, <2>1, LinesKept
<1> QED
  BY <1>4, <1>5, <1>6, <1>7, <1>8, <1>9 DEF Server, HandleRequest


\* A mapper that keeps the lines, and what the others do.
Alters(w) ==
    /\ UNCHANGED <<pc, lines, inflight, confirmed>>
    /\ \A v \in Workers \ {w} :
          /\ worker'[v] = worker[v] /\ pattern'[v] = pattern[v]
          /\ success'[v] = success[v] /\ spread'[v] = spread[v]
          /\ worker[v] = "open" => (mapped'[pattern[v]] => mapped[pattern[v]])
    /\ worker'[w] # "spread" => spread'[w] = 0

\* It need only see to itself, and to its messages.
LEMMA AltersKeeps ==
    ASSUME LinesInv, pc = "waitMap", NEW w \in Workers, Alters(w), Mapper(w)',
           \A i \in DOMAIN backlog' : backlog'[i].type = "failed" =>
               \/ Blank(backlog'[i].pattern)
               \/ \E j \in DOMAIN backlog : /\ backlog[j].type = "failed"
                                            /\ backlog[j].pattern = backlog'[i].pattern
    PROVE  LinesInv'
<1>1. \A v \in Workers \ {w} : Mapper(v)'
  BY MapperKept DEF Alters, LinesInv
<1>2. \A i \in DOMAIN backlog' : backlog'[i].type = "failed" => Blank(backlog'[i].pattern)
  BY DEF LinesInv
<1>3. \A v \in Workers : worker'[v] # "spread" => spread'[v] = 0
  BY DEF Alters, LinesInv
<1>4. \A c \in Chunks : c \notin inflight' /\ c \notin confirmed' => Blank(c)
  BY DEF Alters, LinesInv
<1> QED
  BY <1>1, <1>2, <1>3, <1>4, LinesKept DEF Alters

\* A mapper runs its executable.
LEMMA LinesProcess ==
    ASSUME IInv, DoneInv, DataOK, LinesInv, pc = "waitMap", NEW w \in Workers,
           NEW ok \in BOOLEAN, NEW kept \in BOOLEAN, Processed(w, ok, kept), kept => ok
    PROVE  LinesInv'
<1>1. /\ worker[w] = "process" /\ worker' = [worker EXCEPT ![w] = "open"]
      /\ success' = [success EXCEPT ![w] = ok]
      /\ mapped' = [mapped EXCEPT ![pattern[w]] = kept]
      /\ UNCHANGED <<pc, lines, inflight, confirmed, pattern, spread, backlog>>
  BY DEF Processed, queues
<1>2. Holds(w) /\ pattern[w] \in Chunks
  BY <1>1, Mapping1
<1>3. /\ \A v \in Workers \ {w} : worker'[v] = worker[v] /\ success'[v] = success[v]
      /\ worker'[w] = "open" /\ success'[w] = ok /\ mapped'[pattern[w]] = kept
  BY <1>1, <1>2 DEF IInv, Types, DataOK
<1>4. ASSUME NEW v \in Workers \ {w}, worker[v] = "open"
      PROVE  mapped'[pattern[v]] = mapped[pattern[v]]
  <2>1. pattern[v] # pattern[w]
    BY <1>2, <1>4, Mapping1, Alone
  <2> QED
    BY <1>1, <2>1 DEF DataOK
<1>5. Blank(pattern[w])
  BY <1>1 DEF LinesInv, Mapper
<1>6. Mapper(w)'
  BY <1>1, <1>3, <1>5 DEF Mapper, Blank
<1>7. spread'[w] = 0
  BY <1>1 DEF LinesInv
<1>8. Alters(w)
  BY <1>1, <1>3, <1>4, <1>7 DEF Alters
<1> QED
  BY <1>1, <1>6, <1>8, AltersKeeps

\* A mapper opens its output.
LEMMA LinesOpen ==
    ASSUME IInv, DataOK, LinesInv, pc = "waitMap", NEW w \in Workers, OpenOutput(w)
    PROVE  LinesInv'
<1> DEFINE c == pattern[w]
<1>1. /\ worker[w] = "open"
      /\ worker' = [worker EXCEPT ![w] =
            IF mapped[c] /\ PairsOf(c) # {} THEN "spread" ELSE "report"]
      /\ UNCHANGED <<pc, lines, inflight, confirmed, pattern, spread, backlog, success, mapped>>
  BY DEF OpenOutput, queues, files
<1>2. c \in Chunks
  BY <1>1, Mapping1
<1>3. /\ \A v \in Workers \ {w} : worker'[v] = worker[v]
      /\ worker'[w] = IF mapped[c] /\ PairsOf(c) # {} THEN "spread" ELSE "report"
  BY <1>1 DEF IInv, Types
<1>4. spread[w] = 0 /\ Blank(c) /\ (mapped[c] => success[w])
  BY <1>1 DEF LinesInv, Mapper
<1>5. PairsBehind(c, 0) = PairsOf(c)
  BY <1>2, TokenTypes DEF PairsBehind
<1>6. ASSUME NEW v \in Words PROVE Cardinality(PlacesTo(c, v, 0)) = 0
  <2>1. \A i \in Places(c, v) : i \in Nat \ {0}
    BY <1>2, PlacesTypes
  <2>2. PlacesTo(c, v, 0) = {}
    BY <2>1 DEF PlacesTo
  <2> QED
    BY <2>2, FS_EmptySet
<1>7. \A v \in Words : lines[c][v] = 0
  BY <1>4 DEF Blank
<1>8. Mapper(w)'
  <2>1. pattern'[w] = c /\ spread'[w] = 0 /\ success'[w] = success[w] /\ lines' = lines
    BY <1>1, <1>4
  <2>2. CASE mapped[c] /\ PairsOf(c) # {}
    <3>1. worker'[w] = "spread" /\ success[w]
      BY <1>3, <1>4, <2>2
    <3> QED
      BY <1>5, <1>6, <1>7, <2>1, <2>2, <3>1 DEF Mapper
  <2>3. CASE ~(mapped[c] /\ PairsOf(c) # {})
    <3>1. worker'[w] = "report"
      BY <1>3, <2>3
    <3> QED
      BY <1>7, <2>1, <3>1 DEF Mapper, Blank
  <2> QED
    BY <2>2, <2>3
<1>9. Alters(w)
  BY <1>1, <1>3, <1>4 DEF Alters
<1> QED
  BY <1>1, <1>8, <1>9, AltersKeeps

\* A mapper spreads a pair.
LEMMA LinesSpread ==
    ASSUME IInv, DoneInv, DataOK, LinesInv, pc = "waitMap", NEW w \in Workers, Spread(w)
    PROVE  LinesInv'
<1>1. PICK c, i : Spreads(w, c, i)
  BY SpreadSteps
<1>2. /\ worker[w] = "spread" /\ c = pattern[w] /\ c \in Chunks /\ i \in Nat
      /\ UNCHANGED <<pc, inflight, confirmed, pattern, backlog, success, mapped>>
  BY <1>1 DEF Spreads, queues
<1>3. /\ \A v \in Words : /\ lines'[c][v] = Cardinality(PlacesTo(c, v, i))
                          /\ lines'[c][v] <= Occurs(c, v)
      /\ \A d \in Chunks : d # c => lines'[d] = lines[d]
      /\ PairsBehind(c, spread[w]) # {i} => PairsBehind(c, i) # {}
  BY <1>1, SpreadCounts
<1>4. /\ c \in inflight /\ c \notin confirmed
      /\ \A d \in Chunks : d # c => (Blank(d) => Blank(d)')
      /\ \A v \in Workers :
            v # w /\ worker[v] \in {"process", "open", "spread", "report"} =>
                pattern[v] # c /\ pattern[v] \in Chunks
      /\ \A j \in DOMAIN backlog : backlog[j].pattern # c
  BY <1>1, SpreadAlone
<1>5. /\ \A v \in Workers \ {w} : worker'[v] = worker[v] /\ spread'[v] = spread[v]
      /\ \/ /\ PairsBehind(c, spread[w]) = {i} /\ worker'[w] = "report" /\ spread'[w] = 0
         \/ /\ PairsBehind(c, spread[w]) # {i} /\ worker'[w] = "spread" /\ spread'[w] = i
  BY <1>1 DEF Spreads, IInv, Types, DataOK
<1>6. success[w]
  BY <1>2 DEF LinesInv, Mapper
<1>7. Mapper(w)'
  BY <1>2, <1>3, <1>5, <1>6 DEF Mapper
<1>8. ASSUME NEW v \in Workers \ {w} PROVE Mapper(v)'
  <2>1. worker[v] \in {"process", "open", "spread", "report"} =>
            lines'[pattern[v]] = lines[pattern[v]]
    BY <1>3, <1>4
  <2>2. Mapper(v)
    BY DEF LinesInv
  <2> QED
    BY <1>2, <1>5, <2>1, <2>2, MapperKept
<1>9. \A d \in Chunks, v \in Words : lines'[d][v] <= Occurs(d, v)
  BY <1>3 DEF LinesInv
<1>10. \A v \in Workers : worker'[v] # "spread" => spread'[v] = 0
  BY <1>5 DEF LinesInv
<1>11. \A d \in Chunks : d \notin inflight' /\ d \notin confirmed' => Blank(d)'
  BY <1>2, <1>4 DEF LinesInv
<1>12. (\A j \in DOMAIN backlog : backlog[j].type = "failed" => Blank(backlog[j].pattern))'
  <2>1. SUFFICES ASSUME NEW j \in DOMAIN backlog, backlog[j].type = "failed"
                 PROVE  \A v \in Words : lines'[backlog[j].pattern][v] = 0
    BY <1>2 DEF Blank
  <2>2. backlog[j].pattern \in Chunks /\ Blank(backlog[j].pattern)
    BY <2>1, Reported1 DEF LinesInv
  <2> DEFINE d == backlog[j].pattern
  <2>3. d # c /\ lines'[d] = lines[d]
    BY <1>3, <1>4, <2>2
  <2> QED
    BY <2>2, <2>3 DEF Blank
<1> QED
  BY <1>2, <1>7, <1>8, <1>9, <1>10, <1>11, <1>12 DEF LinesInv, Before, Occurs

\* A mapper asks, reports, or removes its output.
LEMMA LinesSends ==
    ASSUME IInv, DataOK, LinesInv, pc = "waitMap", NEW w \in Workers,
           Request(w) \/ Report(w) \/ RemoveOutput(w)
    PROVE  LinesInv'
<1>1. CASE Request(w)
  <2> DEFINE m == [type |-> "ready", from |-> w, pattern |-> NoPattern]
  <2>1. /\ worker[w] = "request" /\ worker' = [worker EXCEPT ![w] = "await"]
        /\ backlog' = Append(backlog, m)
        /\ UNCHANGED <<pc, lines, inflight, confirmed, pattern, success, spread, mapped>>
    BY <1>1 DEF Request, Sends, queues, files
  <2>2. Pushes(m) /\ m.type = "ready"
    BY <2>1, Messages, Pushed DEF IInv
  <2> HIDE DEF m
  <2>3. worker'[w] = "await" /\ \A v \in Workers \ {w} : worker'[v] = worker[v]
    BY <2>1 DEF IInv, Types
  <2>4. Mapper(w)'
    BY <2>3 DEF Mapper
  <2>5. Alters(w)
    BY <2>1, <2>3 DEF Alters, LinesInv
  <2> QED
    BY <2>2, <2>4, <2>5, AltersKeeps DEF Pushes
<1>2. CASE Report(w)
  <2> DEFINE m == [type |-> Verdict(w), from |-> Nobody, pattern |-> pattern[w]]
  <2>1. Reports(w, m)
    BY <1>2, ReportSteps DEF IInv
  <2>2. m.type = "failed" <=> ~success[w]
    BY DEF Verdict
  <2>3. m.pattern = pattern[w]
    OBVIOUS
  <2> HIDE DEF m
  <2>4. /\ UNCHANGED <<pc, lines, inflight, confirmed, pattern, spread, mapped>>
        /\ success' = [success EXCEPT ![w] = FALSE] /\ worker[w] = "report"
        /\ worker' = [worker EXCEPT ![w] = "remove"] /\ Pushes(m)
    BY <1>2, <2>1 DEF Report, Notified, queues, files, Reports
  <2>5. /\ worker'[w] = "remove"
        /\ \A v \in Workers \ {w} : worker'[v] = worker[v] /\ success'[v] = success[v]
    BY <2>4 DEF IInv, Types, DataOK
  <2>6. ~success[w] => Blank(pattern[w])
    BY <2>4 DEF LinesInv, Mapper
  <2>7. Mapper(w)'
    BY <2>5 DEF Mapper
  <2>8. Alters(w)
    BY <2>4, <2>5 DEF Alters, LinesInv
  <2> QED
    BY <2>2, <2>3, <2>4, <2>6, <2>7, <2>8, AltersKeeps DEF Pushes
<1>3. CASE RemoveOutput(w)
  <2>1. /\ worker[w] = "remove" /\ worker' = [worker EXCEPT ![w] = "request"]
        /\ mapped' = [mapped EXCEPT ![pattern[w]] = FALSE]
        /\ pattern' = [pattern EXCEPT ![w] = NoPattern]
        /\ UNCHANGED <<pc, lines, inflight, confirmed, backlog, success, spread>>
    BY <1>3 DEF RemoveOutput, queues
  <2>2. /\ worker'[w] = "request"
        /\ \A v \in Workers \ {w} : worker'[v] = worker[v] /\ pattern'[v] = pattern[v]
    BY <2>1 DEF IInv, Types
  <2>3. \A c \in Chunks : mapped'[c] => mapped[c]
    BY <2>1 DEF DataOK
  <2>4. \A v \in Workers : worker[v] = "open" => pattern[v] \in Chunks
    BY Mapping1
  <2>5. Mapper(w)'
    BY <2>2 DEF Mapper
  <2>6. Alters(w)
    BY <2>1, <2>2, <2>3, <2>4 DEF Alters, LinesInv
  <2> QED
    BY <2>1, <2>5, <2>6, AltersKeeps
<1> QED
  BY <1>1, <1>2, <1>3

\* A mapper is lost.
LEMMA LinesCrash ==
    ASSUME IInv, DataOK, LinesInv, pc = "waitMap", NEW w \in Workers, Crash(w)
    PROVE  LinesInv'
<1>1. Loses(w)
  BY CrashSteps DEF IInv
<1>2. /\ UNCHANGED <<pc, lines, inflight, confirmed, mapped>>
      /\ pattern' = [pattern EXCEPT ![w] = NoPattern] /\ worker' = [worker EXCEPT ![w] = "exited"]
      /\ success' = [success EXCEPT ![w] = FALSE] /\ spread' = [spread EXCEPT ![w] = 0]
  BY DEF Crash, queues, files
<1>3. /\ worker'[w] = "exited" /\ spread'[w] = 0
      /\ \A v \in Workers \ {w} : /\ worker'[v] = worker[v] /\ pattern'[v] = pattern[v]
                                  /\ success'[v] = success[v] /\ spread'[v] = spread[v]
  BY <1>2 DEF IInv, Types, DataOK
<1>4. Mapper(w)'
  BY <1>3 DEF Mapper
<1>5. Alters(w)
  BY <1>2, <1>3 DEF Alters
<1>6. ASSUME NEW i \in DOMAIN backlog', backlog'[i].type = "failed"
      PROVE  /\ i \in DOMAIN backlog
             /\ backlog[i].type = "failed" /\ backlog[i].pattern = backlog'[i].pattern
  <2>1. CASE Widows(w)
    BY <1>6, <2>1 DEF Widows
  <2>2. CASE Pushes([type |-> "unknown", from |-> Nobody, pattern |-> NoPattern])
    BY <1>6, <2>2 DEF Pushes
  <2> QED
    BY <1>1, <2>1, <2>2 DEF Loses
<1> QED
  BY <1>4, <1>5, <1>6, AltersKeeps

\* In the first phase there are no reducers.
LEMMA NoReducer ==
    ASSUME IInv, pc = "waitMap", NEW w \in Workers
    PROVE  ~(Sort(w) \/ SortFails(w) \/ ReduceOK(w) \/ ReduceFails(w))
BY DEF IInv, LabelInv, MapLabels, Sort, SortFails, ReduceOK, ReduceFails, Reduced

\* The lines of the chunks stay as they should be.
LEMMA LinesStep ==
    ASSUME IInv, DoneInv, DataOK, LinesInv, Next
    PROVE  LinesInv'
<1>1. CASE Main
  BY <1>1, LinesMain
<1>2. CASE ~Main /\ pc # "waitMap"
  BY <1>2, LinesLater
<1>3. CASE Server /\ pc = "waitMap"
  BY <1>3, LinesServer
<1>4. ASSUME NEW w \in Workers, pc = "waitMap", Work(w) \/ Fails(w) \/ Crash(w) PROVE LinesInv'
  <2>1. CASE ProcessOK(w) \/ ProcessFails(w)
    BY <1>4, <2>1, LinesProcess DEF ProcessOK, ProcessFails
  <2> QED
    BY <1>4, <2>1, NoReducer, LinesOpen, LinesSpread, LinesSends, LinesCrash DEF Work, Fails
<1> QED
  BY <1>1, <1>2, <1>3, <1>4 DEF Next

-----------------------------------------------------------------------------
(* Chunks that failed, and the others.                                     *)

\* What a step leaves of the reports about a chunk.
KeepsReports(c) ==
    /\ Right(c) => Right(c)'
    /\ c \in confirmed => c \in confirmed'
    /\ \A i \in DOMAIN backlog :
          backlog[i].pattern = c =>
              c \in confirmed' \/ \E j \in DOMAIN backlog' : backlog'[j].pattern = c
AddsReports(c) ==
    /\ c \in confirmed' => c \in confirmed \/ Right(c)'
    /\ \A i \in DOMAIN backlog' :
          backlog'[i].pattern = c =>
              \/ \E j \in DOMAIN backlog : /\ backlog[j].pattern = c
                                           /\ backlog[j].type = backlog'[i].type
              \/ backlog'[i].type = "succeeded" /\ Right(c)'

\* A worker that does nothing stays sound.
LEMMA SoundKept ==
    ASSUME NEW c, NEW v \in Workers, Sound(c, v), KeepsReports(c),
           worker'[v] = worker[v], pattern'[v] = pattern[v], success'[v] = success[v],
           worker[v] = "open" /\ pattern[v] = c => (mapped[c] => mapped'[c])
    PROVE  Sound(c, v)'
BY DEF Sound, KeepsReports

\* A chunk stays whole.
LEMMA WholeKept ==
    ASSUME NEW c, Whole(c), KeepsReports(c), AddsReports(c), \A v \in Workers : Sound(c, v)'
    PROVE  Whole(c)'
<1>1. (c \in confirmed => Right(c))'
  BY DEF Whole, KeepsReports, AddsReports
<1>2. ASSUME NEW i \in DOMAIN backlog', backlog'[i].pattern = c
      PROVE  backlog'[i].type = "succeeded" /\ Right(c)'
  BY <1>2 DEF Whole, KeepsReports, AddsReports
<1> QED
  BY <1>1, <1>2 DEF Whole

\* The server thread keeps the chunks whole.
LEMMA WholeServer ==
    ASSUME IInv, pc = "waitMap", Server, NEW c \in Chunks, Whole(c)
    PROVE  Whole(c)'
<1> USE DEF server, settings, queues, workers, files, results, bounds
<1>1. UNCHANGED <<lines, success, mapped>> /\ c # NoPattern
  BY NoChunk DEF Server, ServerStarts, ServerStops, HandleRequest, HandleReadyStart,
     HandleReadyDone, HandleSucceeded, HandleFailed, HandleUnknown
<1>2. Right(c) <=> Right(c)'
  BY <1>1 DEF Right, Occurs
<1>3. \A v \in Workers : Sound(c, v)
  BY DEF Whole
<1>4. ASSUME UNCHANGED <<worker, pattern>>, KeepsReports(c), AddsReports(c)
      PROVE  Whole(c)'
  <2>1. \A v \in Workers : Sound(c, v)'
    BY <1>1, <1>3, <1>4, SoundKept
  <2> QED
    BY <1>4, <2>1, WholeKept
<1>5. ASSUME NEW type, Pops(type), confirmed' = confirmed, backlog[1].pattern # c
      PROVE  KeepsReports(c) /\ AddsReports(c)
  BY <1>2, <1>5 DEF Pops, KeepsReports, AddsReports
<1>6. CASE ServerStarts \/ ServerStops
  <2>1. UNCHANGED <<worker, pattern, confirmed, backlog>>
    BY <1>6 DEF ServerStarts, ServerStops
  <2>2. KeepsReports(c) /\ AddsReports(c)
    BY <1>2, <2>1 DEF KeepsReports, AddsReports
  <2> QED
    BY <1>4, <2>1, <2>2
<1>7. CASE HandleReadyStart
  <2>1. Pops("ready") /\ Gives(unprocessed[1]) /\ UNCHANGED confirmed
    BY <1>7, StartGives DEF IInv
  <2>2. KeepsReports(c) /\ AddsReports(c)
    BY <1>1, <1>5, <2>1, MessageKinds DEF Pops
  <2>3. ASSUME NEW v \in Workers PROVE Sound(c, v)'
    <3>1. CASE worker'[v] = worker[v] /\ pattern'[v] = pattern[v]
      BY <1>1, <1>3, <2>2, <3>1, SoundKept
    <3>2. CASE worker'[v] \in {"process", "sort"}
      BY <3>2 DEF Sound
    <3> QED
      BY <2>1, <3>1, <3>2 DEF Gives
  <2> QED
    BY <2>2, <2>3, WholeKept
<1>8. CASE HandleReadyDone
  <2>1. Pops("ready") /\ Answers("exited", NoPattern) /\ UNCHANGED confirmed
    BY <1>8, Popped, Answered DEF HandleReadyDone, IInv
  <2>2. KeepsReports(c) /\ AddsReports(c)
    BY <1>1, <1>5, <2>1, MessageKinds DEF Pops
  <2>3. ASSUME NEW v \in Workers PROVE Sound(c, v)'
    <3>1. CASE worker'[v] = worker[v] /\ pattern'[v] = pattern[v]
      BY <1>1, <1>3, <2>2, <3>1, SoundKept
    <3>2. CASE worker'[v] = "exited"
      BY <3>2 DEF Sound
    <3> QED
      BY <2>1, <3>1, <3>2 DEF Answers, IInv, Types
  <2> QED
    BY <2>2, <2>3, WholeKept
<1>9. CASE HandleSucceeded
  <2>1. /\ Pops("succeeded") /\ UNCHANGED <<worker, pattern>>
        /\ confirmed' = confirmed \cup {backlog[1].pattern}
    BY <1>9, Popped DEF HandleSucceeded, Pops, IInv
  <2>2. backlog[1].pattern = c => Right(c)
    BY <2>1 DEF Whole, Pops
  <2>3. KeepsReports(c)
    BY <1>2, <2>1 DEF KeepsReports, Pops
  <2>4. AddsReports(c)
    BY <1>2, <2>1, <2>2 DEF AddsReports, Pops
  <2> QED
    BY <1>4, <2>1, <2>3, <2>4
<1>10. CASE HandleFailed
  <2>1. Pops("failed") /\ UNCHANGED <<worker, pattern, confirmed>>
    BY <1>10, Popped DEF HandleFailed, IInv
  <2>2. backlog[1].pattern # c
    BY <2>1 DEF Whole, Pops
  <2> QED
    BY <1>4, <1>5, <2>1, <2>2
<1>11. CASE HandleUnknown
  <2>1. Pops("unknown") /\ UNCHANGED <<worker, pattern, confirmed>>
    BY <1>11, Popped DEF HandleUnknown, IInv
  <2>2. backlog[1].pattern # c
    BY <1>1, <2>1, MessageKinds DEF Pops
  <2> QED
    BY <1>4, <1>5, <2>1, <2>2
<1> QED
  BY <1>6, <1>7, <1>8, <1>9, <1>10, <1>11 DEF Server, HandleRequest

\* A step of one worker keeps a chunk whole when it itself stays sound.
LEMMA WholeOthers ==
    ASSUME IInv, DataOK, NEW c, Whole(c), NEW w \in Workers,
           NEW l, worker' = [worker EXCEPT ![w] = l],
           \A v \in Workers \ {w} : /\ pattern'[v] = pattern[v] /\ success'[v] = success[v]
                                    /\ worker[v] = "open" /\ pattern[v] = c =>
                                           (mapped[c] => mapped'[c]),
           Sound(c, w)', KeepsReports(c), AddsReports(c)
    PROVE  Whole(c)'
<1>1. \A v \in Workers \ {w} : worker'[v] = worker[v]
  BY DEF IInv, Types
<1>2. \A v \in Workers \ {w} : Sound(c, v)'
  BY <1>1, SoundKept DEF Whole
<1> QED
  BY <1>2, WholeKept

\* Without new messages the reports stay.
LEMMA ReportsKept ==
    ASSUME NEW c, UNCHANGED <<confirmed, backlog>>, Right(c) => Right(c)'
    PROVE  KeepsReports(c) /\ AddsReports(c)
BY DEF KeepsReports, AddsReports

\* A message that reports nothing, or the chunk as whole, is sent.
LEMMA ReportsAdded ==
    ASSUME NEW c, NEW m, Pushes(m), UNCHANGED confirmed, Right(c) <=> Right(c)',
           m.pattern = c => m.type = "succeeded" /\ Right(c)
    PROVE  KeepsReports(c) /\ AddsReports(c)
BY DEF KeepsReports, AddsReports, Pushes

\* A mapper that runs its executable keeps the chunks whole, but for its own if
\* that fails.
LEMMA WholeProcess ==
    ASSUME IInv, DoneInv, DataOK, pc = "waitMap", NEW w \in Workers, NEW c \in Chunks, Whole(c),
           NEW ok \in BOOLEAN, Processed(w, ok, ok), ok \/ pattern[w] # c
    PROVE  Whole(c)'
<1>1. /\ worker[w] = "process" /\ worker' = [worker EXCEPT ![w] = "open"]
      /\ success' = [success EXCEPT ![w] = ok]
      /\ mapped' = [mapped EXCEPT ![pattern[w]] = ok]
      /\ UNCHANGED <<lines, confirmed, pattern, backlog>>
  BY DEF Processed
<1>2. Right(c) <=> Right(c)'
  BY <1>1 DEF Right, Occurs
<1>3. /\ success'[w] = ok /\ \A v \in Workers \ {w} : success'[v] = success[v]
      /\ mapped'[c] = IF pattern[w] = c THEN ok ELSE mapped[c]
      /\ worker'[w] = "open"
  BY <1>1 DEF DataOK, IInv, Types
<1>4. Sound(c, w)'
  BY <1>1, <1>3 DEF Sound
<1> QED
  BY <1>1, <1>2, <1>3, <1>4, ReportsKept, WholeOthers

\* So does one that opens its output.
LEMMA WholeOpen ==
    ASSUME IInv, DataOK, LinesInv, pc = "waitMap", NEW w \in Workers, NEW c \in Chunks,
           Whole(c), OpenOutput(w)
    PROVE  Whole(c)'
<1>1. /\ worker[w] = "open"
      /\ worker' = [worker EXCEPT ![w] =
            IF mapped[pattern[w]] /\ PairsOf(pattern[w]) # {} THEN "spread" ELSE "report"]
      /\ UNCHANGED <<lines, confirmed, pattern, backlog, success, mapped>>
  BY DEF OpenOutput, files
<1>2. Right(c) <=> Right(c)'
  BY <1>1 DEF Right, Occurs
<1>3. worker'[w] = IF mapped[pattern[w]] /\ PairsOf(pattern[w]) # {} THEN "spread" ELSE "report"
  BY <1>1 DEF IInv, Types
<1>4. ASSUME pattern[w] = c, worker'[w] = "report"
      PROVE  success[w] /\ Right(c)
  <2>1. mapped[c] /\ success[w] /\ Blank(c)
    BY <1>1, <1>4 DEF Whole, Sound, LinesInv, Mapper
  <2>2. PairsOf(c) = {}
    BY <1>3, <1>4, <2>1
  <2>3. ASSUME NEW v \in Words PROVE Occurs(c, v) = 0
    <3>1. Places(c, v) = {}
      BY <2>2, PlacesTypes
    <3> QED
      BY <3>1, FS_EmptySet DEF Occurs
  <2> QED
    BY <2>1, <2>3 DEF Blank, Right
<1>5. Sound(c, w)'
  <2>1. worker'[w] \notin {"open", "remove"}
    BY <1>3
  <2> QED
    BY <1>1, <1>2, <1>4, <2>1 DEF Sound
<1> QED
  BY <1>1, <1>2, <1>5, ReportsKept, WholeOthers

\* And one that spreads a pair.
LEMMA WholeSpread ==
    ASSUME IInv, DoneInv, DataOK, LinesInv, pc = "waitMap", NEW w \in Workers, NEW c \in Chunks,
           Whole(c), Spread(w)
    PROVE  Whole(c)'
<1>1. PICK d, i : Spreads(w, d, i)
  BY SpreadSteps
<1>2. /\ worker[w] = "spread" /\ d = pattern[w] /\ d \in Chunks
      /\ UNCHANGED <<confirmed, pattern, backlog, success, mapped>>
  BY <1>1 DEF Spreads
<1>3. /\ d \notin confirmed
      /\ \A e \in Chunks : e # d => (Right(e) => Right(e)')
      /\ \A v \in Workers :
            v # w /\ worker[v] \in {"process", "open", "spread", "report"} => pattern[v] # d
      /\ \A j \in DOMAIN backlog : backlog[j].pattern # d
  BY <1>1, SpreadAlone
<1>4. PairsBehind(d, spread[w]) = {i} => Right(d)'
  BY <1>1, SpreadCounts
<1>5. /\ \A v \in Workers \ {w} : worker'[v] = worker[v]
      /\ \/ PairsBehind(d, spread[w]) = {i} /\ worker'[w] = "report"
         \/ worker'[w] = "spread"
  BY <1>1 DEF Spreads, IInv, Types
<1>6. success[w]
  BY <1>2 DEF LinesInv, Mapper
<1>7. Sound(c, w)'
  BY <1>2, <1>4, <1>5, <1>6 DEF Sound
<1>8. CASE c # d
  <2>1. KeepsReports(c) /\ AddsReports(c)
    BY <1>2, <1>3, <1>8, ReportsKept
  <2>2. \A v \in Workers \ {w} : Sound(c, v)'
    BY <1>2, <1>5, <2>1, SoundKept DEF Whole
  <2> QED
    BY <1>7, <2>1, <2>2, WholeKept
<1>9. CASE c = d
  <2>1. \A v \in Workers \ {w} : Sound(c, v)'
    BY <1>2, <1>3, <1>5, <1>9 DEF Whole, Sound
  <2> QED
    BY <1>2, <1>3, <1>7, <1>9, <2>1 DEF Whole
<1> QED
  BY <1>8, <1>9

\* And one that asks, reports, or removes its output.
LEMMA WholeSends ==
    ASSUME IInv, DoneInv, DataOK, pc = "waitMap", NEW w \in Workers, NEW c \in Chunks,
           Whole(c), Request(w) \/ Report(w) \/ RemoveOutput(w)
    PROVE  Whole(c)'
<1>1. UNCHANGED <<lines, confirmed>> /\ c # NoPattern
  BY NoChunk DEF Request, Report, RemoveOutput, files
<1>2. Right(c) <=> Right(c)'
  BY <1>1 DEF Right, Occurs
<1>3. CASE Request(w)
  <2> DEFINE m == [type |-> "ready", from |-> w, pattern |-> NoPattern]
  <2>1. /\ worker' = [worker EXCEPT ![w] = "await"] /\ backlog' = Append(backlog, m)
        /\ UNCHANGED <<pattern, success, mapped>>
    BY <1>3 DEF Request, Sends, files
  <2>2. Pushes(m) /\ m.pattern = NoPattern
    BY <2>1, Messages, Pushed DEF IInv
  <2> HIDE DEF m
  <2>3. Sound(c, w)'
    BY <2>1 DEF Sound, IInv, Types
  <2>4. KeepsReports(c) /\ AddsReports(c)
    BY <1>1, <1>2, <2>2, ReportsAdded
  <2> QED
    BY <2>1, <2>3, <2>4, WholeOthers
<1>4. CASE Report(w)
  <2> DEFINE m == [type |-> Verdict(w), from |-> Nobody, pattern |-> pattern[w]]
  <2>1. Reports(w, m)
    BY <1>4, ReportSteps DEF IInv
  <2>2. m.type = (IF success[w] THEN "succeeded" ELSE "failed") /\ m.pattern = pattern[w]
    BY DEF Verdict
  <2> HIDE DEF m
  <2>3. /\ UNCHANGED <<pattern, mapped>> /\ worker' = [worker EXCEPT ![w] = "remove"]
        /\ success' = [success EXCEPT ![w] = FALSE] /\ worker[w] = "report" /\ Pushes(m)
    BY <1>4, <2>1 DEF Report, Notified, files, Reports
  <2>4. /\ worker'[w] = "remove"
        /\ \A v \in Workers \ {w} : success'[v] = success[v]
    BY <2>3 DEF IInv, Types, DataOK
  <2>5. m.pattern = c => m.type = "succeeded" /\ Right(c)
    BY <2>2, <2>3 DEF Whole, Sound
  <2>6. KeepsReports(c) /\ AddsReports(c)
    BY <1>1, <1>2, <2>3, <2>5, ReportsAdded
  <2>7. pattern[w] = c => \E i \in DOMAIN backlog' : backlog'[i].pattern = c
    BY <2>2, <2>3 DEF Pushes
  <2>8. Sound(c, w)'
    BY <2>3, <2>4, <2>7 DEF Sound
  <2> QED
    BY <2>3, <2>4, <2>6, <2>8, WholeOthers
<1>5. CASE RemoveOutput(w)
  <2>1. /\ worker[w] = "remove" /\ worker' = [worker EXCEPT ![w] = "request"]
        /\ mapped' = [mapped EXCEPT ![pattern[w]] = FALSE]
        /\ pattern' = [pattern EXCEPT ![w] = NoPattern]
        /\ UNCHANGED <<backlog, success>>
    BY <1>5 DEF RemoveOutput
  <2>2. /\ pattern'[w] = NoPattern /\ \A v \in Workers \ {w} : pattern'[v] = pattern[v]
    BY <2>1 DEF IInv, Types
  <2>3. Sound(c, w)'
    BY <1>1, <2>2 DEF Sound
  <2>4. ASSUME NEW v \in Workers, worker[v] = "open", pattern[v] = c
        PROVE  mapped'[c] = mapped[c]
    <3>1. c \notin confirmed /\ \A i \in DOMAIN backlog : backlog[i].pattern # c
      BY <2>4, Mapping1, Alone
    <3>2. pattern[w] # c
      BY <2>1, <3>1 DEF Whole, Sound
    <3> QED
      BY <2>1, <3>2 DEF DataOK
  <2>5. KeepsReports(c) /\ AddsReports(c)
    BY <1>1, <1>2, <2>1, ReportsKept
  <2> QED
    BY <2>1, <2>2, <2>3, <2>4, <2>5, WholeOthers
<1> QED
  BY <1>3, <1>4, <1>5

\* And one that is lost.
LEMMA WholeCrash ==
    ASSUME IInv, DataOK, pc = "waitMap", NEW w \in Workers, NEW c \in Chunks, Whole(c), Crash(w)
    PROVE  Whole(c)'
<1>1. Loses(w) /\ c # NoPattern
  BY CrashSteps, NoChunk DEF IInv
<1>2. /\ UNCHANGED <<lines, confirmed, mapped>>
      /\ pattern' = [pattern EXCEPT ![w] = NoPattern] /\ worker' = [worker EXCEPT ![w] = "exited"]
      /\ success' = [success EXCEPT ![w] = FALSE]
  BY DEF Crash, files
<1>3. /\ worker'[w] = "exited"
      /\ \A v \in Workers \ {w} : pattern'[v] = pattern[v] /\ success'[v] = success[v]
  BY <1>2 DEF IInv, Types, DataOK
<1>4. Right(c) <=> Right(c)'
  BY <1>2 DEF Right, Occurs
<1>5. KeepsReports(c) /\ AddsReports(c)
  <2>1. CASE Widows(w)
    BY <1>2, <1>4, <2>1 DEF Widows, KeepsReports, AddsReports
  <2>2. CASE Pushes([type |-> "unknown", from |-> Nobody, pattern |-> NoPattern])
    BY <1>1, <1>2, <1>4, <2>2, ReportsAdded
  <2> QED
    BY <1>1, <2>1, <2>2 DEF Loses
<1>6. Sound(c, w)'
  BY <1>3 DEF Sound
<1> QED
  BY <1>2, <1>3, <1>5, <1>6, WholeOthers

\* Failures and losses are only counted up.
LEMMA Growing ==
    ASSUME IInv, DataOK, Next
    PROVE  /\ failures \in Nat /\ failures' \in Nat /\ failures <= failures'
           /\ crashes \in Nat /\ crashes' \in Nat /\ crashes <= crashes'
<1> USE DEF DataOK, server, settings, queues, bounds, files, results, workers
<1>1. /\ failures \in Nat /\ crashes \in Nat
  BY BoundsAssumption
<1>2. failures' \in {failures, failures + 1} /\ crashes' \in {crashes, crashes + 1}
  <2>1. CASE Main
    BY <2>1 DEF Main, Start, StageMap, SpawnMappers, WaitMappers, ClearUnprocessed, StageReduce,
            SpawnReducers, WaitReducers, BringDownServer, JoinServer, SpawnWorkers, PoolWait
  <2>2. CASE Server
    BY <2>2 DEF Server, ServerStarts, ServerStops, HandleRequest, HandleReadyStart,
            HandleReadyDone, HandleSucceeded, HandleFailed, HandleUnknown
  <2>3. ASSUME NEW w \in Workers, Work(w)
        PROVE  failures' = failures /\ crashes' = crashes
    BY <2>3 DEF Work, Request, Report, ProcessOK, Processed, OpenOutput, Spread, RemoveOutput,
            Sort, ReduceOK, Reduced
  <2>4. ASSUME NEW w \in Workers, Fails(w) \/ Crash(w)
        PROVE  failures' \in {failures, failures + 1} /\ crashes' \in {crashes, crashes + 1}
    BY <2>4 DEF Fails, ProcessFails, Processed, SortFails, ReduceFails, Reduced, Crash
  <2> QED
    BY <2>1, <2>2, <2>3, <2>4 DEF Next
<1> QED
  BY <1>1, <1>2

\* Who has exited, while the mappers are at work.
LEMMA ExitedStep ==
    ASSUME IInv, pc = "waitMap", NEW w \in Workers, Work(w) \/ Fails(w) \/ Crash(w)
    PROVE  /\ unprocessed' = unprocessed
           /\ \/ Exited' = Exited /\ crashes' = crashes
              \/ /\ Exited' = Exited \cup {w} /\ w \notin Exited /\ crashes' = crashes + 1
<1> USE DEF queues, bounds, workers
<1>1. \A v \in Workers : \A l : worker' = [worker EXCEPT ![w] = l] =>
          worker'[v] = IF v = w THEN l ELSE worker[v]
  BY DEF IInv, Types
<1>2. CASE Request(w)
  BY <1>1, <1>2 DEF Request, Exited
<1>3. CASE Report(w)
  <2>1. ~leaving[w] /\ Mapping
    BY DEF IInv, LabelInv, Mapping, Types
  <2>2. worker' = [worker EXCEPT ![w] = "remove"] /\ worker[w] = "report"
    BY <1>3, <2>1 DEF Report, Notified
  <2> QED
    BY <1>1, <1>3, <2>2 DEF Report, Exited
<1>4. CASE ProcessOK(w) \/ ProcessFails(w)
  BY <1>1, <1>4 DEF ProcessOK, ProcessFails, Processed, Exited
<1>5. CASE OpenOutput(w)
  BY <1>1, <1>5 DEF OpenOutput, Exited
<1>6. CASE Spread(w)
  <2>1. PICK c, i : Spreads(w, c, i)
    BY <1>6, SpreadSteps
  <2>2. /\ worker[w] = "spread" /\ UNCHANGED <<unprocessed, crashes>>
        /\ \/ worker' = [worker EXCEPT ![w] = "report"]
           \/ worker' = [worker EXCEPT ![w] = "spread"]
    BY <2>1 DEF Spreads
  <2> QED
    BY <1>1, <2>2 DEF Exited
<1>7. CASE RemoveOutput(w)
  BY <1>1, <1>7 DEF RemoveOutput, Exited
<1>8. CASE Crash(w)
  <2>1. /\ worker' = [worker EXCEPT ![w] = "exited"] /\ worker[w] # "exited"
        /\ unprocessed' = unprocessed /\ crashes' = crashes + 1
    BY <1>8 DEF Crash
  <2> QED
    BY <1>1, <2>1 DEF Exited
<1> QED
  BY <1>2, <1>3, <1>4, <1>5, <1>6, <1>7, <1>8, NoReducer DEF Work, Fails

\* Only failed chunks are queued when a worker has been told to exit.
FailedOnly(F) ==
    Cardinality(Exited) > crashes => \A i \in DOMAIN unprocessed : unprocessed[i] \in F

\* The steps of the server thread keep that.
LEMMA QueueServer ==
    ASSUME IInv, pc = "waitMap", NEW F \in SUBSET Chunks, FailedOnly(F),
           \A c \in Chunks \ F : Whole(c), Server
    PROVE  FailedOnly(F)'
<1> USE DEF queues, bounds, workers
<1>1. ASSUME Exited' = Exited, crashes' = crashes,
             \A i \in DOMAIN unprocessed' : \/ unprocessed'[i] \in F
                                            \/ \E j \in DOMAIN unprocessed :
                                                  unprocessed'[i] = unprocessed[j]
      PROVE  FailedOnly(F)'
  BY <1>1 DEF FailedOnly
<1>2. CASE ServerStarts \/ ServerStops \/ HandleSucceeded \/ HandleUnknown
  <2>1. UNCHANGED <<worker, unprocessed, crashes>>
    BY <1>2 DEF ServerStarts, ServerStops, HandleSucceeded, HandleUnknown
  <2> QED
    BY <1>1, <2>1 DEF Exited
<1>3. CASE HandleReadyStart
  <2>1. Takes /\ Gives(unprocessed[1]) /\ UNCHANGED crashes
    BY <1>3, StartGives DEF IInv
  <2>2. Exited' = Exited
    BY <2>1 DEF Gives, Exited
  <2> QED
    BY <1>1, <2>1, <2>2 DEF Takes
<1>4. CASE HandleReadyDone
  <2>1. unprocessed' = <<>>
    BY <1>4 DEF HandleReadyDone
  <2> QED
    BY <2>1 DEF FailedOnly
<1>5. CASE HandleFailed
  <2> DEFINE p == backlog[1].pattern
  <2>1. /\ Pops("failed") /\ Requeues(p) /\ UNCHANGED <<worker, crashes>>
    BY <1>5, Popped, Requeued DEF HandleFailed, IInv
  <2>2. p \in Chunks
    BY <2>1, Reported1 DEF Pops
  <2>3. p \in F
    BY <2>1, <2>2 DEF Whole, Pops
  <2> HIDE DEF p
  <2> QED
    BY <1>1, <2>1, <2>3 DEF Requeues, Exited
<1> QED
  BY <1>2, <1>3, <1>4, <1>5 DEF Server, HandleRequest

\* So do those of the workers.
LEMMA QueueWorker ==
    ASSUME IInv, pc = "waitMap", NEW F, NEW G, F \subseteq G, FailedOnly(F),
           NEW w \in Workers, Work(w) \/ Fails(w) \/ Crash(w)
    PROVE  FailedOnly(G)'
<1>1. unprocessed' = unprocessed
  BY ExitedStep
<1>2. CASE Exited' = Exited /\ crashes' = crashes
  BY <1>1, <1>2 DEF FailedOnly
<1>3. CASE Exited' = Exited \cup {w} /\ w \notin Exited /\ crashes' = crashes + 1
  <2>1. IsFiniteSet(Exited)
    BY WorkersAssumption, FS_Subset DEF Exited
  <2>2. Cardinality(Exited) \in Nat
    BY <2>1, FS_CardinalityType
  <2>3. Cardinality(Exited') = Cardinality(Exited) + 1
    BY <1>3, <2>1, FS_AddElement
  <2>4. crashes \in Nat
    BY DEF IInv, Types
  <2> DEFINE n == Cardinality(Exited)
             m == Cardinality(Exited')
  <2>5. m > crashes' => n > crashes
    <3>1. n \in Nat /\ m = n + 1 /\ crashes \in Nat /\ crashes' = crashes + 1
      BY <1>3, <2>2, <2>3, <2>4
    <3> HIDE DEF n, m
    <3> QED
      BY <3>1
  <2> QED
    BY <1>1, <2>5 DEF FailedOnly
<1> QED
  BY <1>2, <1>3, ExitedStep

\* The chunks that failed can be told after every step.
LEMMA FaultStep ==
    ASSUME IInv, DoneInv, DataOK, LinesInv, FaultInv, Next
    PROVE  FaultInv'
<1>1. PICK F \in SUBSET Chunks : Faults(F)
  BY DEF FaultInv
<1>2. IsFiniteSet(F) /\ Cardinality(F) \in Nat
  BY <1>1, ChunksAssumption, FS_Subset, FS_CardinalityType
<1>3. Cardinality(F) <= failures'
  <2> DEFINE n == Cardinality(F)
  <2>1. n <= failures /\ n \in Nat
    BY <1>1, <1>2 DEF Faults
  <2> HIDE DEF n
  <2>2. n <= failures'
    BY <2>1, Growing
  <2> QED
    BY <2>2 DEF n
<1>4. ASSUME NEW G \in SUBSET Chunks, Cardinality(G) <= failures',
             pc' = "waitMap" => (\A c \in Chunks \ G : Whole(c)') /\ FailedOnly(G)'
      PROVE  FaultInv'
  BY <1>4 DEF FaultInv, Faults, FailedOnly
<1>5. pc = "waitMap" => (\A c \in Chunks \ F : Whole(c)) /\ FailedOnly(F)
  BY <1>1 DEF Faults, FailedOnly
<1>6. CASE Main
  <2>1. CASE SpawnMappers
    <3>1. /\ worker' = [w \in Workers |-> "request"] /\ UNCHANGED <<lines, backlog, confirmed>>
          /\ pc = "spawnMap"
      BY <2>1 DEF SpawnMappers, SpawnWorkers, Step, files
    <3>2. backlog = <<>> /\ confirmed = {}
      BY <3>1 DEF IInv, PhaseInv
    <3>3. Exited' = {}
      BY <3>1 DEF Exited
    <3>4. FailedOnly(F)'
      <4>1. Cardinality(Exited') = 0
        BY <3>3, FS_EmptySet
      <4>2. ~(Cardinality(Exited') > crashes')
        BY <4>1, Growing
      <4> QED
        BY <4>2 DEF FailedOnly
    <3>5. \A c \in Chunks : Whole(c)'
      BY <3>1, <3>2 DEF Whole, Sound
    <3> QED
      BY <1>3, <1>4, <3>4, <3>5
  <2>2. CASE ~SpawnMappers
    <3>1. pc' # "waitMap"
      BY <1>6, <2>2 DEF Main, Start, StageMap, WaitMappers, ClearUnprocessed, StageReduce,
              SpawnReducers, WaitReducers, BringDownServer, JoinServer, SpawnWorkers, PoolWait, Step
    <3> QED
      BY <1>3, <1>4, <3>1
  <2> QED
    BY <2>1, <2>2
<1>7. CASE ~Main /\ pc # "waitMap"
  BY <1>3, <1>4, <1>7, LinesLater
<1>8. CASE Server /\ pc = "waitMap"
  <2>1. \A c \in Chunks \ F : Whole(c)'
    BY <1>5, <1>8, WholeServer
  <2>2. FailedOnly(F)'
    BY <1>5, <1>8, QueueServer
  <2> QED
    BY <1>3, <1>4, <2>1, <2>2
<1>9. ASSUME NEW w \in Workers, pc = "waitMap", Work(w) \/ Fails(w) \/ Crash(w)
      PROVE  FaultInv'
  <2>1. CASE ProcessFails(w)
    <3> DEFINE G == F \cup {pattern[w]}
    <3>1. PICK H : H = G
      OBVIOUS
    <3>2. pattern[w] \in Chunks
      BY <1>9, <2>1, Mapping1 DEF ProcessFails, Processed
    <3>3. Cardinality(H) <= failures'
      <4> DEFINE n == Cardinality(F)
                 m == Cardinality(H)
      <4>1. m \in Nat /\ m <= n + 1
        BY <1>2, <3>1, OneMore
      <4>2. n \in Nat /\ n <= failures
        BY <1>1, <1>2 DEF Faults
      <4>3. failures' = failures + 1
        BY <2>1 DEF ProcessFails
      <4> HIDE DEF n, m
      <4>4. m <= failures'
        BY <4>1, <4>2, <4>3, Growing
      <4> QED
        BY <4>4 DEF m
    <3>4. FailedOnly(H)'
      BY <1>5, <1>9, <3>1, QueueWorker
    <3>5. ASSUME NEW c \in Chunks \ H PROVE Whole(c)'
      <4>1. Whole(c) /\ pattern[w] # c
        BY <1>5, <1>9, <3>1
      <4> QED
        BY <1>9, <2>1, <4>1, WholeProcess DEF ProcessFails
    <3> QED
      BY <1>4, <3>1, <3>2, <3>3, <3>4, <3>5
  <2>2. CASE ~ProcessFails(w)
    <3>1. FailedOnly(F)'
      BY <1>5, <1>9, QueueWorker
    <3>2. ASSUME NEW c \in Chunks \ F PROVE Whole(c)'
      <4>1. Whole(c)
        BY <1>5, <1>9
      <4>2. CASE ProcessOK(w)
        BY <1>9, <4>1, <4>2, WholeProcess DEF ProcessOK
      <4> QED
        BY <1>9, <2>2, <4>1, <4>2, NoReducer, WholeOpen, WholeSpread, WholeSends, WholeCrash
        DEF Work, Fails
    <3> QED
      BY <1>3, <1>4, <3>1, <3>2
  <2> QED
    BY <2>1, <2>2
<1> QED
  BY <1>6, <1>7, <1>8, <1>9 DEF Next

-----------------------------------------------------------------------------
(* Chunks that are not whole when the first phase is over.                 *)

\* When all mappers have exited, and one of them was not lost, each chunk that is
\* not whole has failed, or was lost.
LEMMA LossBegins ==
    ASSUME IInv, DoneInv, FaultInv, DataOK, pc = "waitMap", \A w \in Workers : worker[w] = "exited",
           crashes < Cardinality(Workers)
    PROVE  Cardinality(Wrong) <= failures + crashes
<1>1. PICK F \in SUBSET Chunks : Faults(F)
  BY DEF FaultInv
<1>2. /\ \A c \in Chunks \ F : Whole(c)
      /\ \A i \in DOMAIN unprocessed : unprocessed[i] \in F
  <2>1. Exited = Workers
    BY DEF Exited
  <2>2. Cardinality(Exited) > crashes
    BY <2>1, WorkersAssumption, FS_CardinalityType DEF IInv, Types
  <2> QED
    BY <1>1, <2>2 DEF Faults
<1>3. ASSUME NEW c \in Wrong, c \notin F PROVE c \in Lost
  <2>1. c \in Chunks /\ ~Right(c)
    BY <1>3 DEF Wrong, Right
  <2>2. Whole(c)
    BY <1>2, <1>3, <2>1
  <2>3. c \in Queued \cup inflight \cup confirmed
    BY <2>1 DEF DoneInv
  <2>4. c \notin Queued
    BY <1>2, <1>3 DEF Queued
  <2>5. c \notin confirmed /\ \A i \in DOMAIN backlog : backlog[i].pattern # c
    BY <2>1, <2>2 DEF Whole
  <2>6. \A w \in Workers : ~Holds(w)
    BY DEF IInv, LabelInv, Idle, Holds
  <2> QED
    BY <2>3, <2>4, <2>5, <2>6 DEF Lost
<1>4. IsFiniteSet(F) /\ Cardinality(F) \in Nat
  BY ChunksAssumption, FS_Subset, FS_CardinalityType
<1>5. IsFiniteSet(Lost) /\ Cardinality(Lost) \in Nat /\ Cardinality(Orphaned) \in Nat
      /\ Cardinality(Lost) + Cardinality(Orphaned) <= crashes /\ crashes \in Nat
  BY SizesType DEF IInv, LostInv, Types
<1>6. IsFiniteSet(F \cup Lost) /\ Wrong \subseteq F \cup Lost
  BY <1>3, <1>4, <1>5, FS_Union
<1>7. Cardinality(Wrong) <= Cardinality(F \cup Lost) /\ Cardinality(Wrong) \in Nat
  BY <1>6, FS_Subset, FS_CardinalityType
<1>8. Cardinality(F \cup Lost) <= Cardinality(F) + Cardinality(Lost)
      /\ Cardinality(F \cup Lost) \in Nat
  BY <1>4, <1>5, UnionSize
<1>9. Cardinality(F) <= failures /\ failures \in Nat
  BY <1>1, BoundsAssumption DEF Faults, DataOK
<1> DEFINE x == Cardinality(Wrong)
           u == Cardinality(F \cup Lost)
           a == Cardinality(F)
           b == Cardinality(Lost)
           o == Cardinality(Orphaned)
<1>10. /\ x \in Nat /\ u \in Nat /\ a \in Nat /\ b \in Nat /\ o \in Nat /\ failures \in Nat
       /\ crashes \in Nat /\ x <= u /\ u <= a + b /\ a <= failures /\ b + o <= crashes
  BY <1>4, <1>5, <1>7, <1>8, <1>9
<1> HIDE DEF x, u, a, b, o
<1>11. x <= failures + crashes
  BY <1>10
<1> QED
  BY <1>11 DEF x

\* Outside the first phase the lines do not change.
LEMMA LinesSettled ==
    ASSUME IInv, DataOK, LinesInv, Next, pc # "waitMap"
    PROVE  lines' = lines
<1>1. CASE Main
  BY <1>1 DEF Main, Start, StageMap, SpawnMappers, WaitMappers, ClearUnprocessed, StageReduce,
          SpawnReducers, WaitReducers, BringDownServer, JoinServer, SpawnWorkers, PoolWait, files
<1> QED
  BY <1>1, LinesLater

\* The phases in their order.
LEMMA PhaseOrder ==
    ASSUME IInv, Next
    PROVE  /\ pc \in Before => pc' \in Before \cup {"waitMap"}
           /\ pc \notin Before => pc' \notin Before
           /\ pc \notin Before \cup {"waitMap"} => pc' \notin Before \cup {"waitMap"}
           /\ pc = "waitMap" => pc' = "waitMap" \/ WaitMappers
<1> USE DEF Before, Step, server, settings, queues, bounds
<1>1. CASE Main
  <2>1. CASE Start \/ StageMap \/ ClearUnprocessed \/ StageReduce \/ BringDownServer \/ JoinServer
    BY <2>1 DEF Start, StageMap, ClearUnprocessed, StageReduce, BringDownServer, JoinServer
  <2>2. CASE SpawnMappers \/ SpawnReducers
    BY <2>2 DEF SpawnMappers, SpawnReducers, SpawnWorkers
  <2>3. CASE WaitMappers \/ WaitReducers
    BY <2>3 DEF WaitMappers, WaitReducers, PoolWait
  <2> QED
    BY <1>1, <2>1, <2>2, <2>3 DEF Main
<1>2. CASE Server
  BY <1>2 DEF Server, ServerStarts, ServerStops, HandleRequest, HandleReadyStart, HandleReadyDone,
          HandleSucceeded, HandleFailed, HandleUnknown
<1>3. ASSUME NEW w \in Workers, Work(w) \/ Fails(w) \/ Crash(w)
      PROVE  pc' = pc
  BY <1>3 DEF Work, Fails, Request, Report, ProcessOK, ProcessFails, Processed, OpenOutput, Spread,
          RemoveOutput, Sort, SortFails, ReduceOK, ReduceFails, Reduced, Crash
<1> QED
  BY <1>1, <1>2, <1>3 DEF Next

\* What is lost is never more than the failures and losses.
LEMMA LossStep ==
    ASSUME IInv, DoneInv, DataOK, LinesInv, FaultInv, LossInv, Next
    PROVE  LossInv'
<1>1. /\ failures \in Nat /\ failures' \in Nat /\ failures <= failures'
      /\ crashes \in Nat /\ crashes' \in Nat /\ crashes <= crashes'
  BY Growing
<1>2. CASE pc = "waitMap"
  <2>1. CASE WaitMappers
    <3>1. /\ \A w \in Workers : worker[w] = "exited"
          /\ UNCHANGED <<lines, failures, crashes>>
      BY <2>1 DEF WaitMappers, PoolWait, files, bounds
    <3>2. crashes < Cardinality(Workers) => Cardinality(Wrong) <= failures + crashes
      BY <1>2, <3>1, LossBegins
    <3>3. Wrong' = Wrong
      BY <3>1 DEF Wrong, Occurs
    <3> QED
      BY <3>1, <3>2, <3>3 DEF LossInv
  <2>2. CASE pc' = "waitMap"
    BY <2>2 DEF LossInv
  <2> QED
    BY <1>2, <2>1, <2>2, PhaseOrder
<1>3. CASE pc \in Before
  BY <1>3, PhaseOrder DEF LossInv
<1>4. CASE pc \notin Before \cup {"waitMap"}
  <2>1. Wrong' = Wrong
    BY <1>4, LinesSettled DEF Wrong, Occurs
  <2>2. Cardinality(Wrong) \in Nat
    BY ChunksAssumption, FS_Subset, FS_CardinalityType DEF Wrong
  <2>3. Cardinality(Workers) \in Nat
    BY WorkersAssumption, FS_CardinalityType
  <2> DEFINE x == Cardinality(Wrong)
             n == Cardinality(Workers)
  <2>4. x \in Nat /\ n \in Nat /\ (crashes < n => x <= failures + crashes)
    BY <1>4, <2>2, <2>3 DEF LossInv
  <2> HIDE DEF x, n
  <2>5. ASSUME crashes' < n PROVE x <= failures' + crashes'
    <3>1. crashes < n
      BY <1>1, <2>4, <2>5
    <3>2. x <= failures + crashes
      BY <2>4, <3>1
    <3>3. \A a, b, c, d \in Nat : a <= c /\ b <= d /\ x <= a + b => x <= c + d
      BY <2>4
    <3> QED
      BY <1>1, <3>2, <3>3
  <2> QED
    BY <2>1, <2>5 DEF LossInv, x, n
<1> QED
  BY <1>2, <1>3, <1>4

-----------------------------------------------------------------------------
(* What the reducers count.                                                *)

\* Until the buckets are staged nobody has one.
LEMMA NoBuckets ==
    ASSUME IInv', DoneInv', pc' \notin Staged
    PROVE  ResultInv'
<1>1. confirmed' \subseteq Chunks /\ inflight' \subseteq Chunks
  BY DEF DoneInv, IInv, ChunkInv
<1>2. Chunks \cap BucketPatterns = {} /\ NoPattern \notin BucketPatterns
  BY ChunksAssumption, BoundsAssumption DEF Patterns
<1>3. \A i \in DOMAIN backlog' : backlog'[i].pattern \notin BucketPatterns
  BY <1>1, <1>2 DEF IInv, AccountInv
<1>4. \A w \in Workers : worker'[w] \in {"reduce", "report"} => pattern'[w] \notin BucketPatterns
  BY <1>1, <1>2 DEF IInv, AccountInv, Holds
<1> QED
  BY <1>1, <1>2, <1>3, <1>4 DEF ResultInv, Counted

\* What is grouped depends on the lines and on the number of buckets.
LEMMA GroupedKept ==
    ASSUME UNCHANGED <<lines, splitValue>>, NEW b
    PROVE  Grouped(b)' = Grouped(b)
BY DEF Grouped, LinesOf, BucketOf

\* What a reducer has still stands if it and its files are as before.
LEMMA CountedKept ==
    ASSUME NEW v \in Workers, Counted(v), UNCHANGED <<lines, splitValue>>,
           worker'[v] = worker[v], pattern'[v] = pattern[v], success'[v] = success[v],
           worker[v] = "reduce" => mid'[pattern[v]] = mid[pattern[v]],
           worker[v] = "report" => output'[pattern[v]] = output[pattern[v]]
    PROVE  Counted(v)'
<1>1. Grouped(pattern[v])' = Grouped(pattern[v])
  <2>1. PICK p : p = pattern[v]
    OBVIOUS
  <2>2. Grouped(p)' = Grouped(p)
    BY GroupedKept
  <2> QED
    BY <2>1, <2>2 DEF Grouped, LinesOf, BucketOf
<1> QED
  BY <1>1 DEF Counted

\* Likewise all that is reported and confirmed, but for what is new.
LEMMA ResultKept ==
    ASSUME ResultInv, UNCHANGED <<lines, splitValue>>,
           \A b \in confirmed' : \/ b \in confirmed /\ output'[b] = output[b]
                                 \/ b \in BucketPatterns => output'[b] = Grouped(b),
           \A i \in DOMAIN backlog' :
               backlog'[i].type = "succeeded" /\ backlog'[i].pattern \in BucketPatterns =>
                   \/ output'[backlog'[i].pattern] = Grouped(backlog'[i].pattern)
                   \/ /\ output'[backlog'[i].pattern] = output[backlog'[i].pattern]
                      /\ \E j \in DOMAIN backlog : /\ backlog[j].type = "succeeded"
                                                   /\ backlog[j].pattern = backlog'[i].pattern,
           \A w \in Workers : Counted(w)'
    PROVE  ResultInv'
<1>1. \A b \in BucketPatterns : Grouped(b)' = Grouped(b)
  BY GroupedKept
<1>2. \A b \in BucketPatterns \cap confirmed' : output'[b] = Grouped(b)
  BY DEF ResultInv
<1>3. \A i \in DOMAIN backlog' :
         backlog'[i].type = "succeeded" /\ backlog'[i].pattern \in BucketPatterns =>
             output'[backlog'[i].pattern] = Grouped(backlog'[i].pattern)
  BY DEF ResultInv
<1> QED
  BY <1>1, <1>2, <1>3 DEF ResultInv

\* The main thread touches no results.
LEMMA ResultMain ==
    ASSUME IInv, ResultInv, Main, pc' \in Staged
    PROVE  ResultInv'
<1> USE DEF server, settings, queues, workers, files, results, bounds
<1>1. /\ UNCHANGED <<lines, splitValue, mid, output, confirmed, backlog, pattern, success>>
      /\ worker' = worker \/ worker' = [w \in Workers |-> "request"]
  BY DEF Main, Staged, Step, Start, StageMap, SpawnMappers, WaitMappers, ClearUnprocessed,
     StageReduce, SpawnReducers, WaitReducers, BringDownServer, JoinServer, SpawnWorkers, PoolWait
<1>2. ASSUME NEW w \in Workers PROVE Counted(w)'
  <2>1. Counted(w)
    BY DEF ResultInv
  <2>2. CASE worker' = worker
    BY <1>1, <2>1, <2>2, CountedKept
  <2>3. CASE worker' = [v \in Workers |-> "request"]
    BY <2>3 DEF Counted
  <2> QED
    BY <1>1, <2>2, <2>3
<1> QED
  BY <1>1, <1>2, ResultKept DEF ResultInv

\* Nor does the server thread, which confirms what was reported.
LEMMA ResultServer ==
    ASSUME IInv, ResultInv, Server, UNCHANGED lines
    PROVE  ResultInv'
<1> USE DEF server, settings, queues, workers, files, results, bounds
<1>1. UNCHANGED <<splitValue, mid, output, success>>
  BY DEF Server, ServerStarts, ServerStops, HandleRequest, HandleReadyStart,
         HandleReadyDone, HandleSucceeded, HandleFailed, HandleUnknown
<1>2. \A w \in Workers : Counted(w)
  BY DEF ResultInv
<1>3. ASSUME UNCHANGED <<worker, pattern>> PROVE \A w \in Workers : Counted(w)'
  BY <1>1, <1>2, <1>3, CountedKept
<1>4. ASSUME NEW type, Pops(type), UNCHANGED confirmed, \A w \in Workers : Counted(w)'
      PROVE  ResultInv'
  BY <1>1, <1>4, ResultKept DEF Pops
<1>5. CASE ServerStarts \/ ServerStops
  <2>1. UNCHANGED <<worker, pattern, confirmed, backlog>>
    BY <1>5 DEF ServerStarts, ServerStops
  <2> QED
    BY <1>1, <1>3, <2>1, ResultKept
<1>6. CASE HandleReadyStart
  <2>1. Pops("ready") /\ Gives(unprocessed[1]) /\ UNCHANGED confirmed
    BY <1>6, StartGives DEF IInv
  <2>2. ASSUME NEW v \in Workers PROVE Counted(v)'
    <3>1. CASE worker'[v] = worker[v] /\ pattern'[v] = pattern[v]
      BY <1>1, <1>2, <3>1, CountedKept
    <3>2. CASE worker'[v] \in {"process", "sort"}
      BY <3>2 DEF Counted
    <3> QED
      BY <2>1, <3>1, <3>2 DEF Gives
  <2> QED
    BY <1>4, <2>1, <2>2
<1>7. CASE HandleReadyDone
  <2>1. Pops("ready") /\ Answers("exited", NoPattern) /\ UNCHANGED confirmed
    BY <1>7, Popped, Answered DEF HandleReadyDone, IInv
  <2>2. ASSUME NEW v \in Workers PROVE Counted(v)'
    <3>1. CASE worker'[v] = worker[v] /\ pattern'[v] = pattern[v]
      BY <1>1, <1>2, <3>1, CountedKept
    <3>2. CASE worker'[v] = "exited"
      BY <3>2 DEF Counted
    <3> QED
      BY <2>1, <3>1, <3>2 DEF Answers, IInv, Types
  <2> QED
    BY <1>4, <2>1, <2>2
<1>8. CASE HandleSucceeded
  <2>1. /\ Pops("succeeded") /\ UNCHANGED <<worker, pattern>>
        /\ confirmed' = confirmed \cup {backlog[1].pattern}
    BY <1>8, Popped DEF HandleSucceeded, Pops, IInv
  <2>2. backlog[1].pattern \in BucketPatterns =>
            output[backlog[1].pattern] = Grouped(backlog[1].pattern)
    BY <2>1 DEF ResultInv, Pops
  <2>3. \A b \in confirmed' : \/ b \in confirmed /\ output'[b] = output[b]
                              \/ b \in BucketPatterns => output'[b] = Grouped(b)
    BY <1>1, <2>1, <2>2
  <2>4. \A i \in DOMAIN backlog' :
           \E j \in DOMAIN backlog : backlog[j] = backlog'[i]
    BY <2>1 DEF Pops
  <2> QED
    BY <1>1, <1>3, <2>1, <2>3, <2>4, ResultKept
<1>9. CASE HandleFailed
  <2>1. Pops("failed") /\ UNCHANGED <<worker, pattern, confirmed>>
    BY <1>9, Popped DEF HandleFailed, IInv
  <2> QED
    BY <1>3, <1>4, <2>1
<1>10. CASE HandleUnknown
  <2>1. Pops("unknown") /\ UNCHANGED <<worker, pattern, confirmed>>
    BY <1>10, Popped DEF HandleUnknown, IInv
  <2> QED
    BY <1>3, <1>4, <2>1
<1> QED
  BY <1>5, <1>6, <1>7, <1>8, <1>9, <1>10 DEF Server, HandleRequest

\* A reducer works on its own files.
LEMMA ResultFiles ==
    ASSUME IInv, DoneInv, DataOK, ResultInv, pc = "waitReduce", NEW w \in Workers,
           NEW l, worker' = [worker EXCEPT ![w] = l], worker[w] \in {"sort", "reduce"},
           UNCHANGED <<lines, splitValue, confirmed, backlog, pattern>>,
           \A v \in Workers \ {w} : success'[v] = success[v],
           \A b \in BucketPatterns \ {pattern[w]} : mid'[b] = mid[b] /\ output'[b] = output[b],
           Counted(w)'
    PROVE  ResultInv'
<1>1. Holds(w)
  BY DEF IInv, LabelInv, Holds, Idle
<1>2. /\ pattern[w] \notin confirmed
      /\ \A v \in Workers : v # w /\ Holds(v) => pattern[v] # pattern[w]
      /\ \A i \in DOMAIN backlog : backlog[i].pattern # pattern[w]
  BY <1>1, Alone
<1>3. ASSUME NEW v \in Workers \ {w} PROVE Counted(v)'
  <2>1. worker'[v] = worker[v]
    BY DEF IInv, Types
  <2>2. CASE pattern[v] \in BucketPatterns /\ worker[v] \in {"reduce", "report"}
    <3>1. Holds(v)
      BY <2>2 DEF IInv, LabelInv, Holds, Idle
    <3>2. mid'[pattern[v]] = mid[pattern[v]] /\ output'[pattern[v]] = output[pattern[v]]
      BY <1>2, <2>2, <3>1
    <3>3. Counted(v)
      BY DEF ResultInv
    <3> QED
      BY <2>1, <3>2, <3>3, CountedKept
  <2>3. CASE ~(pattern[v] \in BucketPatterns /\ worker[v] \in {"reduce", "report"})
    BY <2>1, <2>3 DEF Counted
  <2> QED
    BY <2>2, <2>3
<1>4. \A b \in BucketPatterns \cap confirmed : output'[b] = output[b]
  BY <1>2
<1>5. \A b \in confirmed' : \/ b \in confirmed /\ output'[b] = output[b]
                            \/ b \in BucketPatterns => output'[b] = Grouped(b)
  BY <1>4
<1>6. \A i \in DOMAIN backlog :
         backlog[i].pattern \in BucketPatterns =>
             output'[backlog[i].pattern] = output[backlog[i].pattern]
  BY <1>2
<1> QED
  BY <1>3, <1>5, <1>6, ResultKept

\* A step without files keeps the results, if the worker keeps its own.
LEMMA ResultOthers ==
    ASSUME IInv, DataOK, ResultInv, NEW w \in Workers,
           NEW l, worker' = [worker EXCEPT ![w] = l],
           UNCHANGED <<lines, splitValue, confirmed, mid, output>>,
           \A v \in Workers \ {w} : success'[v] = success[v] /\ pattern'[v] = pattern[v],
           Counted(w)',
           \A i \in DOMAIN backlog' :
               backlog'[i].type = "succeeded" /\ backlog'[i].pattern \in BucketPatterns =>
                   \/ output[backlog'[i].pattern] = Grouped(backlog'[i].pattern)
                   \/ \E j \in DOMAIN backlog : /\ backlog[j].type = "succeeded"
                                                /\ backlog[j].pattern = backlog'[i].pattern
    PROVE  ResultInv'
<1>1. ASSUME NEW v \in Workers \ {w} PROVE Counted(v)'
  <2>1. worker'[v] = worker[v] /\ Counted(v)
    BY DEF IInv, Types, ResultInv
  <2> QED
    BY <2>1, CountedKept
<1> QED
  BY <1>1, ResultKept

\* The reducers count what is in the files.
LEMMA ResultReducer ==
    ASSUME IInv, DoneInv, DataOK, ResultInv, pc = "waitReduce", NEW w \in Workers,
           Sort(w) \/ SortFails(w) \/ ReduceOK(w) \/ ReduceFails(w)
    PROVE  ResultInv'
<1> USE DEF server, settings, queues, bounds, Written
<1>1. CASE Sort(w)
  <2>1. /\ worker[w] = "sort" /\ worker' = [worker EXCEPT ![w] = "reduce"]
        /\ mid' = Written(mid, pattern[w], Grouped(pattern[w]))
        /\ UNCHANGED <<lines, splitValue, confirmed, backlog, pattern, success, output>>
    BY <1>1 DEF Sort
  <2>2. \A b \in BucketPatterns \ {pattern[w]} : mid'[b] = mid[b]
    BY <2>1 DEF DataOK
  <2>3. Counted(w)'
    <3>1. worker'[w] = "reduce"
      BY <2>1 DEF IInv, Types
    <3>2. PICK p : p = pattern[w]
      OBVIOUS
    <3>3. p \in BucketPatterns => mid'[p] = Grouped(p)
      BY <2>1, <3>2 DEF DataOK
    <3>4. Grouped(p)' = Grouped(p)
      BY <2>1, GroupedKept
    <3>5. pattern'[w] = p
      BY <2>1, <3>2
    <3>6. Grouped(pattern[w])' = Grouped(p)'
      BY <3>5 DEF Grouped, BucketOf, LinesOf
    <3> QED
      BY <3>1, <3>3, <3>4, <3>5, <3>6 DEF Counted
  <2> QED
    BY <2>1, <2>2, <2>3, ResultFiles
<1>2. CASE SortFails(w)
  <2>1. /\ worker[w] = "sort" /\ worker' = [worker EXCEPT ![w] = "report"]
        /\ mid' = Written(mid, pattern[w], [v \in Words |-> 0])
        /\ success' = [success EXCEPT ![w] = FALSE]
        /\ UNCHANGED <<lines, splitValue, confirmed, backlog, pattern, output>>
    BY <1>2 DEF SortFails
  <2>2. \A b \in BucketPatterns \ {pattern[w]} : mid'[b] = mid[b]
    BY <2>1 DEF DataOK
  <2>3. /\ worker'[w] = "report" /\ ~success'[w]
        /\ \A v \in Workers \ {w} : success'[v] = success[v]
    BY <2>1 DEF IInv, Types, DataOK
  <2>4. Counted(w)'
    BY <2>3 DEF Counted
  <2> QED
    BY <2>1, <2>2, <2>3, <2>4, ResultFiles
<1>3. ASSUME NEW ok \in BOOLEAN, Reduced(w, ok) PROVE ResultInv'
  <2>1. /\ worker[w] = "reduce" /\ worker' = [worker EXCEPT ![w] = "report"]
        /\ success' = [success EXCEPT ![w] = ok]
        /\ output' = Written(output, pattern[w], IF ok THEN mid[pattern[w]] ELSE NoFile)
        /\ mid' = Written(mid, pattern[w], NoFile)
        /\ UNCHANGED <<lines, splitValue, confirmed, backlog, pattern>>
    BY <1>3 DEF Reduced
  <2>2. \A b \in BucketPatterns \ {pattern[w]} : mid'[b] = mid[b] /\ output'[b] = output[b]
    BY <2>1 DEF DataOK
  <2>3. /\ worker'[w] = "report" /\ success'[w] = ok
        /\ \A v \in Workers \ {w} : success'[v] = success[v]
    BY <2>1 DEF IInv, Types, DataOK
  <2>4. Counted(w)'
    <3>1. PICK p : p = pattern[w]
      OBVIOUS
    <3>2. p \in BucketPatterns => mid[p] = Grouped(p)
      BY <2>1, <3>1 DEF ResultInv, Counted
    <3>3. p \in BucketPatterns /\ ok => output'[p] = Grouped(p)
      BY <2>1, <3>1, <3>2 DEF DataOK
    <3>4. Grouped(p)' = Grouped(p)
      BY <2>1, GroupedKept
    <3>5. pattern'[w] = p
      BY <2>1, <3>1
    <3>6. Grouped(pattern[w])' = Grouped(p)'
      BY <3>5 DEF Grouped, BucketOf, LinesOf
    <3> QED
      BY <2>3, <3>3, <3>4, <3>5, <3>6 DEF Counted
  <2> QED
    BY <2>1, <2>2, <2>3, <2>4, ResultFiles
<1> QED
  BY <1>1, <1>2, <1>3 DEF ReduceOK, ReduceFails

\* They report what they have counted.
LEMMA ResultSends ==
    ASSUME IInv, DataOK, ResultInv, pc = "waitReduce", NEW w \in Workers, Request(w) \/ Report(w)
    PROVE  ResultInv'
<1> USE DEF server, settings, queues, bounds, files, results
<1>1. CASE Request(w)
  <2> DEFINE m == [type |-> "ready", from |-> w, pattern |-> NoPattern]
  <2>1. /\ worker' = [worker EXCEPT ![w] = "await"] /\ backlog' = Append(backlog, m)
        /\ UNCHANGED <<lines, splitValue, confirmed, mid, output, success, pattern>>
    BY <1>1 DEF Request, Sends
  <2>2. Pushes(m) /\ m.type = "ready"
    BY <2>1, Messages, Pushed DEF IInv
  <2> HIDE DEF m
  <2>3. Counted(w)'
    BY <2>1 DEF Counted, IInv, Types
  <2> QED
    BY <2>1, <2>2, <2>3, ResultOthers DEF Pushes
<1>2. CASE Report(w)
  <2> DEFINE m == [type |-> Verdict(w), from |-> Nobody, pattern |-> pattern[w]]
  <2>1. Reports(w, m)
    BY <1>2, ReportSteps DEF IInv
  <2>2. m.type = (IF success[w] THEN "succeeded" ELSE "failed") /\ m.pattern = pattern[w]
    BY DEF Verdict
  <2> HIDE DEF m
  <2>3. PICK l \in {"request", "exited"} : worker' = [worker EXCEPT ![w] = l]
    BY <2>1 DEF Reports
  <2>4. /\ success' = [success EXCEPT ![w] = FALSE] /\ pattern' = [pattern EXCEPT ![w] = NoPattern]
        /\ UNCHANGED <<lines, splitValue, confirmed, mid, output>>
    BY <1>2, <2>1 DEF Report, Notified, Reports
  <2>5. /\ worker'[w] \in {"request", "exited"}
        /\ \A v \in Workers \ {w} : success'[v] = success[v] /\ pattern'[v] = pattern[v]
    BY <2>3, <2>4 DEF IInv, Types, DataOK
  <2>6. Counted(w)'
    BY <2>5 DEF Counted
  <2>7. m.type = "succeeded" /\ m.pattern \in BucketPatterns =>
            output[m.pattern] = Grouped(m.pattern)
    BY <2>1, <2>2 DEF ResultInv, Counted, Reports
  <2>8. Pushes(m)
    BY <2>1 DEF Reports
  <2>9. ASSUME NEW i \in DOMAIN backlog', backlog'[i].type = "succeeded",
               backlog'[i].pattern \in BucketPatterns
        PROVE  \/ output[backlog'[i].pattern] = Grouped(backlog'[i].pattern)
               \/ \E j \in DOMAIN backlog : /\ backlog[j].type = "succeeded"
                                            /\ backlog[j].pattern = backlog'[i].pattern
    <3>1. CASE i = Last
      BY <2>7, <2>8, <2>9, <3>1 DEF Pushes
    <3>2. CASE i \in DOMAIN backlog
      BY <2>8, <2>9, <3>2 DEF Pushes
    <3> QED
      BY <2>8, <3>1, <3>2 DEF Pushes
  <2> QED
    BY <2>3, <2>4, <2>5, <2>6, <2>9, ResultOthers
<1> QED
  BY <1>1, <1>2

\* A reducer that is lost leaves the results.
LEMMA ResultCrash ==
    ASSUME IInv, DataOK, ResultInv, NEW w \in Workers, Crash(w)
    PROVE  ResultInv'
<1>1. Loses(w)
  BY CrashSteps DEF IInv
<1>2. /\ UNCHANGED <<lines, splitValue, confirmed, mid, output>>
      /\ pattern' = [pattern EXCEPT ![w] = NoPattern] /\ worker' = [worker EXCEPT ![w] = "exited"]
      /\ success' = [success EXCEPT ![w] = FALSE]
  BY DEF Crash, files, results, server, settings
<1>3. /\ worker'[w] = "exited"
      /\ \A v \in Workers \ {w} : pattern'[v] = pattern[v] /\ success'[v] = success[v]
  BY <1>2 DEF IInv, Types, DataOK
<1>4. Counted(w)'
  BY <1>3 DEF Counted
<1>5. \A i \in DOMAIN backlog' :
         backlog'[i].type = "succeeded" =>
             \E j \in DOMAIN backlog : /\ backlog[j].type = "succeeded"
                                       /\ backlog[j].pattern = backlog'[i].pattern
  <2>1. CASE Widows(w)
    BY <2>1 DEF Widows
  <2>2. CASE Pushes([type |-> "unknown", from |-> Nobody, pattern |-> NoPattern])
    BY <2>2 DEF Pushes
  <2> QED
    BY <1>1, <2>1, <2>2 DEF Loses
<1> QED
  BY <1>2, <1>3, <1>4, <1>5, ResultOthers

\* The results stay what the bucket files say.
LEMMA ResultStep ==
    ASSUME IInv, DoneInv, DataOK, LinesInv, ResultInv, Next, IInv', DoneInv'
    PROVE  ResultInv'
<1>1. CASE pc' \notin Staged
  BY <1>1, NoBuckets
<1>2. CASE pc' \in Staged /\ Main
  BY <1>2, ResultMain
<1>3. CASE pc' \in Staged /\ ~Main
  <2>1. UNCHANGED <<lines, pc>>
    <3>1. pc # "waitMap"
      BY <1>3, PhaseOrder DEF Staged, Main
    <3> QED
      BY <1>3, <3>1, LinesLater
  <2>2. CASE Server
    BY <2>1, <2>2, ResultServer
  <2>3. ASSUME NEW w \in Workers, Work(w) \/ Fails(w) \/ Crash(w) PROVE ResultInv'
    <3>1. CASE Crash(w)
      BY <3>1, ResultCrash
    <3>2. CASE ~Crash(w)
      <4>1. worker[w] \notin Resting
        BY <2>3, <3>2 DEF Resting, Work, Fails, Request, Report, ProcessOK, ProcessFails, Processed,
           OpenOutput, Spread, RemoveOutput, Sort, SortFails, ReduceOK, ReduceFails, Reduced
      <4>2. pc = "waitReduce" /\ worker[w] \in ReduceLabels
        BY <1>3, <2>1, <4>1 DEF Staged, IInv, LabelInv, Waiting
      <4>3. ~(\/ ProcessOK(w) \/ ProcessFails(w) \/ OpenOutput(w) \/ Spread(w) \/ RemoveOutput(w))
        BY <4>2 DEF ReduceLabels, ProcessOK, ProcessFails, Processed, OpenOutput, Spread,
           RemoveOutput
      <4> QED
        BY <2>3, <3>2, <4>2, <4>3, ResultReducer, ResultSends DEF Work, Fails
    <3> QED
      BY <3>1, <3>2
  <2> QED
    BY <1>3, <2>2, <2>3 DEF Next
<1> QED
  BY <1>1, <1>2, <1>3

-----------------------------------------------------------------------------
(* The whole invariant.                                                    *)

\* Nothing is done, and nothing has gone wrong, at the start.
LEMMA InitCountInv == Init => CountInv
<1> SUFFICES ASSUME Init PROVE CountInv
  OBVIOUS
<1>1. DataOK
  <2>1. [v \in Words |-> 0] \in Counts
    BY DEF Counts
  <2>2. lines \in [Chunks -> Counts]
    BY <2>1 DEF Init
  <2>3. /\ mid \in [BucketPatterns -> Counts \cup {NoFile}]
        /\ output \in [BucketPatterns -> Counts \cup {NoFile}]
    BY DEF Init
  <2>4. failures \in 0..MaxFailures /\ sortFailures \in 0..MaxSortFailures
        /\ crashes \in 0..MaxCrashes
    BY BoundsAssumption DEF Init
  <2> QED
    BY <2>2, <2>3, <2>4 DEF Init, DataOK
<1>2. DoneInv
  BY DEF Init, DoneInv, Staged
<1>3. \A c \in Chunks, v \in Words : lines[c][v] = 0
  BY DEF Init
<1>4. LinesInv
  BY <1>3, PlacesTypes DEF Init, LinesInv, Blank
<1>5. Cardinality({}) <= failures /\ {} \in SUBSET Chunks
  BY FS_EmptySet DEF Init
<1>6. FaultInv
  BY <1>5 DEF Init, FaultInv, Faults
<1>7. LossInv /\ ResultInv
  BY DEF Init, LossInv, ResultInv, Before, Counted
<1> QED
  BY <1>1, <1>2, <1>4, <1>6, <1>7 DEF CountInv

\* No step leads out of it.
LEMMA NextCountInv == IInv /\ IInv' /\ CountInv /\ [Next]_vars => CountInv'
<1> SUFFICES ASSUME IInv, IInv', CountInv, [Next]_vars PROVE CountInv'
  OBVIOUS
<1>1. CASE Next
  <2>1. DataOK' /\ DoneInv' /\ LinesInv' /\ FaultInv' /\ LossInv'
    BY <1>1, DataStep, DoneStep, LinesStep, FaultStep, LossStep DEF CountInv
  <2>2. ResultInv'
    BY <1>1, <2>1, ResultStep DEF CountInv
  <2> QED
    BY <2>1, <2>2 DEF CountInv
<1>2. CASE UNCHANGED vars
  <2> USE <1>2 DEF vars, server, settings, queues, workers, files, results, bounds, CountInv
  <2>1. DataOK' /\ DoneInv'
    BY DEF DataOK, DoneInv, Queued
  <2>2. \A c \in Chunks : (Blank(c)' <=> Blank(c)) /\ (Right(c)' <=> Right(c))
    BY DEF Blank, Right, Occurs
  <2>3. LinesInv'
    BY DEF LinesInv, Mapper, Blank, Occurs, Before
  <2>4. FaultInv'
    BY DEF FaultInv, Faults, Whole, Sound, Right, Occurs, Exited
  <2>5. LossInv'
    BY DEF LossInv, Wrong, Occurs, Before
  <2>6. ResultInv'
    <3>1. \A w \in Workers : Counted(w)'
      BY CountedKept DEF ResultInv
    <3> QED
      BY <3>1, ResultKept
  <2> QED
    BY <2>1, <2>3, <2>4, <2>5, <2>6
<1> QED
  BY <1>1, <1>2

\* So the reachable states satisfy it.
LEMMA CountInvariant == Spec => [](IInv /\ CountInv)
<1>1. Init => IInv /\ CountInv
  BY InitIInv, InitCountInv
<1>2. IInv /\ CountInv /\ [Next]_vars => (IInv /\ CountInv)'
  BY NextIInv, NextCountInv
<1> QED
  BY <1>1, <1>2, PTL DEF Spec

\* The types that IInv has, and those it has no need of.
LEMMA TypesHold == IInv /\ CountInv => TypeOK
BY DEF IInv, Types, CountInv, DataOK, TypeOK

\* The lines of a word in all bucket files are as many as the word is there in the
\* chunks, but for those in the chunks that are not whole.
LEMMA LinesTotal ==
    ASSUME DataOK, LinesInv, NEW v \in Words
    PROVE  Cardinality(LinesOf(v)) \in Total(Chunks \ Wrong, v)..Total(Chunks, v)
<1> DEFINE P == [c \in Chunks |-> 1..lines[c][v]]
           Q == [c \in Chunks |-> Places(c, v)]
           R == [c \in Chunks \ Wrong |-> Places(c, v)]
<1>1. \A c \in Chunks : lines[c][v] \in Nat
  BY DEF DataOK, Counts
<1>2. \A c \in Chunks : IsFiniteSet(P[c]) /\ Cardinality(P[c]) = lines[c][v]
  <2> SUFFICES ASSUME NEW c \in Chunks
               PROVE  IsFiniteSet(1..lines[c][v]) /\ Cardinality(1..lines[c][v]) = lines[c][v]
    OBVIOUS
  <2>1. PICK n \in Nat : n = lines[c][v]
    BY <1>1
  <2>2. IsFiniteSet(1..n) /\ Cardinality(1..n) = n
    <3>1. Cardinality(1..n) = IF 1 > n THEN 0 ELSE n - 1 + 1
      BY FS_Interval
    <3> QED
      BY <2>1, <3>1, FS_Interval
  <2> QED
    BY <2>1, <2>2
<1>3. \A c \in Chunks : IsFiniteSet(Q[c]) /\ Cardinality(Q[c]) = Occurs(c, v)
  BY PlacesTypes DEF Occurs
<1>4. \A c \in Chunks : Cardinality(P[c]) <= Cardinality(Q[c])
  BY <1>2, <1>3 DEF LinesInv
<1>5. \A c \in Chunks \ Wrong : IsFiniteSet(R[c]) /\ Cardinality(R[c]) <= Cardinality(P[c])
  <2> SUFFICES ASSUME NEW c \in Chunks \ Wrong
               PROVE  IsFiniteSet(R[c]) /\ Cardinality(R[c]) <= Cardinality(P[c])
    OBVIOUS
  <2>1. lines[c][v] = Occurs(c, v)
    BY DEF Wrong
  <2>2. R[c] = Q[c]
    OBVIOUS
  <2>3. Cardinality(R[c]) = lines[c][v] /\ Cardinality(P[c]) = lines[c][v] /\ IsFiniteSet(R[c])
    BY <1>2, <1>3, <2>1, <2>2
  <2> QED
    BY <1>1, <2>3
<1>6. /\ Tagged(P) = LinesOf(v) /\ Cardinality(Tagged(Q)) = Total(Chunks, v)
      /\ Cardinality(Tagged(R)) = Total(Chunks \ Wrong, v)
  BY DEF Tagged, LinesOf, Total
<1>7. DOMAIN P = Chunks /\ DOMAIN Q = Chunks /\ DOMAIN R = Chunks \ Wrong
  OBVIOUS
<1> HIDE DEF P, Q, R
<1>8. /\ Cardinality(Tagged(P)) <= Cardinality(Tagged(Q))
      /\ Cardinality(Tagged(P)) \in Nat /\ Cardinality(Tagged(Q)) \in Nat
  BY <1>2, <1>3, <1>4, <1>7, ChunksAssumption, TaggedLess
<1>9. Cardinality(Tagged(R)) <= Cardinality(Tagged(P)) /\ Cardinality(Tagged(R)) \in Nat
  BY <1>2, <1>5, <1>7, ChunksAssumption, TaggedLess
<1> QED
  BY <1>6, <1>8, <1>9

\* The outputs of confirmed buckets are right.
LEMMA CountsHold == IInv /\ CountInv => CountsAreRight
<1> SUFFICES ASSUME IInv, CountInv, crashes < Cardinality(Workers)
             PROVE  \E S \in SUBSET Chunks :
                       /\ Cardinality(Chunks \ S) <= failures + crashes
                       /\ \A b \in confirmed \ Chunks :
                             \A v \in {u \in Words : BucketOf(u) = b} :
                                output[b] # NoFile /\ output[b][v] \in Total(S, v)..Total(Chunks, v)
  BY DEF CountsAreRight
<1> USE DEF CountInv
<1>1. CASE confirmed \subseteq Chunks
  <2>1. Cardinality(Chunks \ Chunks) = 0
    BY FS_EmptySet
  <2>2. 0 <= failures + crashes
    BY BoundsAssumption DEF DataOK
  <2> QED
    BY <1>1, <2>1, <2>2
<1>2. CASE ~(confirmed \subseteq Chunks)
  <2>1. pc \notin Before \cup {"waitMap"}
    BY <1>2 DEF DoneInv, Staged, Before
  <2>2. Chunks \ (Chunks \ Wrong) = Wrong
    BY DEF Wrong
  <2>3. Cardinality(Chunks \ (Chunks \ Wrong)) <= failures + crashes
    BY <2>1, <2>2 DEF LossInv
  <2>4. ASSUME NEW b \in confirmed \ Chunks, NEW v \in Words, BucketOf(v) = b
        PROVE  /\ output[b] # NoFile
               /\ output[b][v] \in Total(Chunks \ Wrong, v)..Total(Chunks, v)
    <3>1. output[b] = Grouped(b)
      BY <2>4 DEF ResultInv, IInv, Types, Patterns
    <3>2. Grouped(b)[v] = Cardinality(LinesOf(v))
      BY <2>4 DEF Grouped
    <3>3. Grouped(b) # NoFile
      <4>1. DOMAIN Grouped(b) = Words /\ DOMAIN NoFile = {}
        BY DEF Grouped, NoFile
      <4> QED
        BY <2>4, <4>1
    <3> QED
      BY <3>1, <3>2, <3>3, LinesTotal
  <2> QED
    BY <2>3, <2>4
<1> QED
  BY <1>1, <1>2

-----------------------------------------------------------------------------
(* What a phase may leave undone.                                          *)

\* Patterns in flight that no worker who will come back has, and that no message
\* before k reports.
Loose(k) == {p \in inflight : /\ \A i \in DOMAIN backlog : i < k => backlog[i].pattern # p
                              /\ \A w \in Workers : Holds(w) /\ pattern[w] = p => leaving[w]}
OrphansTo(k) == {i \in Orphaned : i < k}

\* Workers whose question is at k or behind it, or will be.
Returning(k) == {w \in Workers : \/ worker[w] \in {"remove", "request"} /\ k \in DOMAIN backlog
                                 \/ \E i \in DOMAIN backlog : i >= k /\ backlog[i].from = w}

\* For each of the former there is one of the latter, or the loss of a worker, or one
\* that leaves; and for each question that nobody asks any more there is a loss too.
Charged(k) ==
    Cardinality(Loose(k)) + Cardinality(OrphansTo(k))
        <= Cardinality(Returning(k)) + crashes + sortFailures
ChargeInv == \A k \in Nat \ {0} : Charged(k)

\* Once a worker has been told to exit, each pattern that is left has a worker who has
\* not, or a loss.
Working == {w \in Workers : worker[w] # "exited" /\ ~leaving[w]}
StayInv ==
    pc \in Waiting /\ Cardinality(Working) + crashes + sortFailures < Cardinality(Workers) =>
        Cardinality(Queued \cup inflight) <= Cardinality(Working) + crashes + sortFailures

\* No bucket is forgotten; and mappers do not sort.
CoverInv ==
    /\ pc \in {"spawnReduce", "waitReduce"} => Buckets \subseteq Queued \cup inflight \cup confirmed
    /\ pc \notin Staged => sortFailures = 0

\* All these are finite.
LEMMA ChargeSizes ==
    ASSUME IInv, NEW k
    PROVE  /\ IsFiniteSet(Loose(k)) /\ Cardinality(Loose(k)) \in Nat
           /\ IsFiniteSet(OrphansTo(k)) /\ Cardinality(OrphansTo(k)) \in Nat
           /\ IsFiniteSet(Returning(k)) /\ Cardinality(Returning(k)) \in Nat
<1>1. Loose(k) \subseteq inflight /\ IsFiniteSet(inflight)
  BY DEF Loose, IInv, LostInv
<1>2. OrphansTo(k) \subseteq Orphaned /\ IsFiniteSet(Orphaned)
  BY SizesType DEF OrphansTo, IInv
<1>3. Returning(k) \subseteq Workers /\ IsFiniteSet(Workers)
  BY WorkersAssumption DEF Returning
<1> QED
  BY <1>1, <1>2, <1>3, FS_Subset, FS_CardinalityType

\* What a step may add on one side it must add on the other.
LEMMA ChargeMoves ==
    ASSUME IInv, DataOK, IInv', DataOK', NEW k \in Nat \ {0}, NEW j \in Nat \ {0}, Charged(j),
           NEW l \in Nat, NEW o \in Int, NEW r \in Int, NEW c \in Nat, l + o <= r + c,
           Cardinality(Loose(k)') <= Cardinality(Loose(j)) + l,
           Cardinality(OrphansTo(k)') <= Cardinality(OrphansTo(j)) + o,
           Cardinality(Returning(k)') >= Cardinality(Returning(j)) + r,
           crashes' + sortFailures' = crashes + sortFailures + c
    PROVE  Charged(k)'
<1> DEFINE l1 == Cardinality(Loose(j))
           o1 == Cardinality(OrphansTo(j))
           r1 == Cardinality(Returning(j))
           l2 == Cardinality(Loose(k)')
           o2 == Cardinality(OrphansTo(k)')
           r2 == Cardinality(Returning(k)')
           c1 == crashes + sortFailures
           c2 == crashes' + sortFailures'
<1>1. /\ crashes \in Nat /\ sortFailures \in Nat /\ crashes' \in Nat /\ sortFailures' \in Nat
  BY BoundsAssumption DEF DataOK
<1>2. l1 \in Nat /\ o1 \in Nat /\ r1 \in Nat /\ c1 \in Nat /\ c2 \in Nat
  <2>1. l1 \in Nat /\ o1 \in Nat /\ r1 \in Nat
    BY ChargeSizes
  <2>2. c1 \in Nat /\ c2 \in Nat
    <3>1. \A a, b \in Nat : a + b \in Nat
      OBVIOUS
    <3> QED
      BY <1>1, <3>1
  <2> QED
    BY <2>1, <2>2
<1>3. IsFiniteSet(Orphaned')
  <2>1. backlog' \in Seq(Message) /\ Orphaned' \subseteq 1..Len(backlog')
    BY DEF IInv, Types, Orphaned
  <2>2. Len(backlog') \in Nat
    BY <2>1
  <2>3. IsFiniteSet(1..Len(backlog'))
    BY <2>2, FS_Interval
  <2> QED
    BY <2>1, <2>3, FS_Subset
<1>4. l2 \in Nat /\ o2 \in Nat /\ r2 \in Nat
  <2>1. Loose(k)' \subseteq inflight' /\ IsFiniteSet(inflight')
    BY DEF Loose, IInv, LostInv
  <2>2. OrphansTo(k)' \subseteq Orphaned'
    BY DEF OrphansTo
  <2>3. Returning(k)' \subseteq Workers /\ IsFiniteSet(Workers)
    BY WorkersAssumption DEF Returning
  <2> QED
    BY <1>3, <2>1, <2>2, <2>3, FS_Subset, FS_CardinalityType
<1>5. l1 + o1 <= r1 + c1
  BY <1>1, <1>2 DEF Charged
<1>6. /\ l2 <= l1 + l /\ o2 <= o1 + o /\ r2 >= r1 + r /\ c2 = c1 + c
  BY <1>1
<1> HIDE DEF l1, o1, r1, l2, o2, r2, c1, c2
<1>7. l2 + o2 <= r2 + c2
  BY <1>2, <1>4, <1>5, <1>6
<1> QED
  BY <1>1, <1>4, <1>7 DEF Charged, l2, o2, r2, c2

\* Sets that keep their elements, or get or lose one, have these sizes.
LEMMA SizeKept ==
    ASSUME NEW S, IsFiniteSet(S), NEW T, NEW x
    PROVE  /\ T \subseteq S => Cardinality(T) <= Cardinality(S) + 0
           /\ T \subseteq S \cup {x} => Cardinality(T) <= Cardinality(S) + 1
           /\ IsFiniteSet(T) /\ S \subseteq T => Cardinality(T) >= Cardinality(S) + 0
           /\ IsFiniteSet(T) /\ S \cup {x} \subseteq T /\ x \notin S
                 => Cardinality(T) >= Cardinality(S) + 1
           /\ IsFiniteSet(T) /\ S \ {x} \subseteq T => Cardinality(T) >= Cardinality(S) + (0 - 1)
<1>1. /\ IsFiniteSet(S \cup {x}) /\ Cardinality(S \cup {x}) \in Nat /\ Cardinality(S) \in Nat
      /\ Cardinality(S \cup {x}) <= Cardinality(S) + 1
  BY OneMore
<1>2. T \subseteq S => IsFiniteSet(T) /\ Cardinality(T) <= Cardinality(S)
  BY FS_Subset
<1>3. T \subseteq S \cup {x} => IsFiniteSet(T) /\ Cardinality(T) <= Cardinality(S \cup {x})
  BY <1>1, FS_Subset
<1>4. IsFiniteSet(T) /\ S \subseteq T => Cardinality(S) <= Cardinality(T)
  BY FS_Subset
<1>5. IsFiniteSet(T) /\ S \cup {x} \subseteq T => Cardinality(S \cup {x}) <= Cardinality(T)
  BY FS_Subset
<1>6. x \notin S => Cardinality(S \cup {x}) = Cardinality(S) + 1
  BY FS_AddElement
<1>7. Cardinality(S \ {x}) = (IF x \in S THEN Cardinality(S) - 1 ELSE Cardinality(S))
      /\ IsFiniteSet(S \ {x})
  BY FS_RemoveElement
<1>8. IsFiniteSet(T) /\ S \ {x} \subseteq T => Cardinality(S \ {x}) <= Cardinality(T)
  BY FS_Subset
<1>9. IsFiniteSet(T) => Cardinality(T) \in Nat
  BY FS_CardinalityType
<1>10. T \subseteq S \cup {x} => Cardinality(T) \in Nat
  BY <1>3, <1>9
<1> DEFINE s == Cardinality(S)
           t == Cardinality(T)
           u == Cardinality(S \cup {x})
           d == Cardinality(S \ {x})
<1>11. /\ s \in Nat /\ u \in Nat /\ u <= s + 1
       /\ T \subseteq S => t <= s /\ t \in Nat
       /\ T \subseteq S \cup {x} => t <= u /\ t \in Nat
       /\ IsFiniteSet(T) => t \in Nat
       /\ IsFiniteSet(T) /\ S \subseteq T => s <= t
       /\ IsFiniteSet(T) /\ S \cup {x} \subseteq T => u <= t
       /\ x \notin S => u = s + 1
       /\ d = (IF x \in S THEN s - 1 ELSE s)
       /\ IsFiniteSet(T) /\ S \ {x} \subseteq T => d <= t
  BY <1>1, <1>2, <1>3, <1>4, <1>5, <1>6, <1>7, <1>8, <1>9, <1>10
<1> HIDE DEF s, t, u, d
<1>12. /\ T \subseteq S => t <= s + 0
       /\ T \subseteq S \cup {x} => t <= s + 1
       /\ IsFiniteSet(T) /\ S \subseteq T => t >= s + 0
       /\ IsFiniteSet(T) /\ S \cup {x} \subseteq T /\ x \notin S => t >= s + 1
       /\ IsFiniteSet(T) /\ S \ {x} \subseteq T => t >= s + (0 - 1)
  BY <1>11
<1> QED
  BY <1>12 DEF s, t

\* Steps after which everybody who was coming back is, and has what he had.
Quiet == /\ HoldersKept /\ UNCHANGED <<inflight, backlog, crashes, leaving, sortFailures>>
         /\ \A w \in Workers : worker[w] \in {"remove", "request"} =>
                                  worker'[w] \in {"remove", "request"}

\* The steps of the main thread are such, and those in which a worker does its work.
LEMMA QuietSteps ==
    ASSUME IInv,
           \/ Main \/ ServerStarts \/ ServerStops
           \/ \E w \in Workers : (WorksOn(w) /\ ~SortFails(w)) \/ RemoveOutput(w)
    PROVE  Quiet
<1> USE DEF server, settings, queues, workers, files, results, bounds
<1>1. CASE Main
  <2>1. Steady
    BY <1>1, SteadySteps DEF IInv
  <2>2. /\ UNCHANGED <<leaving, sortFailures>>
        /\ worker' \in {worker, [w \in Workers |-> "request"]}
    BY <1>1 DEF Main, Start, StageMap, SpawnMappers, WaitMappers, ClearUnprocessed, StageReduce,
            SpawnReducers, WaitReducers, BringDownServer, JoinServer, SpawnWorkers, PoolWait
  <2> QED
    BY <2>1, <2>2 DEF Steady, Quiet
<1>2. CASE ServerStarts \/ ServerStops
  <2>1. Steady
    BY <1>2, SteadySteps, InternalSteps DEF IInv
  <2> QED
    BY <1>2, <2>1 DEF Steady, Quiet, ServerStarts, ServerStops
<1>3. ASSUME NEW w \in Workers, WorksOn(w), ~SortFails(w) PROVE Quiet
  <2>1. Internal
    BY <1>3, InternalSteps DEF IInv
  <2>2. Steady
    BY <2>1, SteadySteps DEF IInv
  <2>3. UNCHANGED <<leaving, sortFailures>>
    BY <1>3 DEF WorksOn, ProcessOK, ProcessFails, Processed, OpenOutput, Spread, Sort, ReduceOK,
            ReduceFails, Reduced
  <2>4. \A v \in Workers : worker[v] \in {"remove", "request"} => worker'[v] = worker[v]
    BY <2>1 DEF Internal, Idle
  <2> QED
    BY <2>2, <2>3, <2>4 DEF Steady, Quiet
<1>4. ASSUME NEW w \in Workers, RemoveOutput(w) PROVE Quiet
  <2>1. Steady
    BY <1>4, SteadySteps DEF IInv
  <2>2. worker' = [worker EXCEPT ![w] = "request"] /\ UNCHANGED <<leaving, sortFailures>>
    BY <1>4 DEF RemoveOutput
  <2> QED
    BY <2>1, <2>2 DEF Steady, Quiet, IInv, Types
<1> QED
  BY <1>1, <1>2, <1>3, <1>4

\* They keep the balance.
LEMMA ChargeQuiet ==
    ASSUME IInv, DataOK, IInv', DataOK', ChargeInv, Quiet
    PROVE  ChargeInv'
<1> SUFFICES ASSUME NEW k \in Nat \ {0} PROVE Charged(k)'
  BY DEF ChargeInv
<1> USE DEF Quiet
<1>1. Loose(k)' \subseteq Loose(k)
  BY DEF Loose, HoldersKept
<1>2. OrphansTo(k)' \subseteq OrphansTo(k)
  BY DEF OrphansTo, Orphaned
<1>3. Returning(k) \subseteq Returning(k)' /\ IsFiniteSet(Returning(k)')
  <2>1. Returning(k)' \subseteq Workers
    BY DEF Returning
  <2> QED
    BY <2>1, WorkersAssumption, FS_Subset DEF Returning
<1>4. Charged(k) /\ 0 + 0 <= 0 + 0 /\ crashes' + sortFailures' = crashes + sortFailures + 0
  BY BoundsAssumption DEF ChargeInv, DataOK
<1>5. /\ Cardinality(Loose(k)') <= Cardinality(Loose(k)) + 0
      /\ Cardinality(OrphansTo(k)') <= Cardinality(OrphansTo(k)) + 0
      /\ Cardinality(Returning(k)') >= Cardinality(Returning(k)) + 0
  BY <1>1, <1>2, <1>3, ChargeSizes, SizeKept
<1> QED
  BY <1>4, <1>5, ChargeMoves

\* A sort that fails takes back the promise to come back.
LEMMA ChargeSortFails ==
    ASSUME IInv, DataOK, IInv', DataOK', ChargeInv, NEW w \in Workers, SortFails(w)
    PROVE  ChargeInv'
<1> SUFFICES ASSUME NEW k \in Nat \ {0} PROVE Charged(k)'
  BY DEF ChargeInv
<1>1. /\ UNCHANGED <<inflight, backlog, pattern, crashes>>
      /\ sortFailures' = sortFailures + 1
      /\ leaving' = [leaving EXCEPT ![w] = TRUE]
      /\ worker[w] = "sort" /\ worker' = [worker EXCEPT ![w] = "report"]
  BY DEF SortFails, queues
<1>2. \A v \in Workers : /\ Holds(v)' <=> Holds(v)
                         /\ v # w => worker'[v] = worker[v] /\ leaving'[v] = leaving[v]
  BY <1>1 DEF Holds, IInv, Types
<1>3. Loose(k)' \subseteq Loose(k) \cup {pattern[w]}
  BY <1>1, <1>2 DEF Loose
<1>4. OrphansTo(k)' \subseteq OrphansTo(k)
  BY <1>1 DEF OrphansTo, Orphaned
<1>5. Returning(k) \subseteq Returning(k)' /\ IsFiniteSet(Returning(k)')
  <2>1. Returning(k)' \subseteq Workers
    BY DEF Returning
  <2>2. Returning(k) \subseteq Returning(k)'
    BY <1>1, <1>2 DEF Returning
  <2> QED
    BY <2>1, <2>2, WorkersAssumption, FS_Subset
<1>6. Charged(k) /\ 1 + 0 <= 0 + 1 /\ crashes' + sortFailures' = crashes + sortFailures + 1
  BY <1>1, BoundsAssumption DEF ChargeInv, DataOK
<1>7. /\ Cardinality(Loose(k)') <= Cardinality(Loose(k)) + 1
      /\ Cardinality(OrphansTo(k)') <= Cardinality(OrphansTo(k)) + 0
      /\ Cardinality(Returning(k)') >= Cardinality(Returning(k)) + 0
  BY <1>3, <1>4, <1>5, ChargeSizes, SizeKept
<1> QED
  BY <1>6, <1>7, ChargeMoves

\* What was asked from k on is asked from k - 1 on when a message has been handled.
LEMMA ReturningPopped ==
    ASSUME IInv, NEW type, Pops(type), NEW k \in Nat \ {0},
           \A w \in Workers : worker[w] \in {"remove", "request"} => worker'[w] = worker[w]
    PROVE  /\ Returning(k + 1) \subseteq Returning(k)' /\ IsFiniteSet(Returning(k)')
           /\ IsFiniteSet(OrphansTo(k)') /\ k + 1 \in Nat \ {0}
           /\ Cardinality(OrphansTo(k)') <= Cardinality(OrphansTo(k + 1) \ {1})
<1>1. Returning(k)' \subseteq Workers
  BY DEF Returning
<1>2. ASSUME NEW w \in Returning(k + 1) PROVE w \in Returning(k)'
  <2>1. CASE worker[w] \in {"remove", "request"} /\ k + 1 \in DOMAIN backlog
    <3>1. k \in DOMAIN backlog'
      BY <2>1 DEF Pops
    <3> QED
      BY <2>1, <3>1 DEF Returning
  <2>2. ASSUME NEW i \in DOMAIN backlog, i >= k + 1, backlog[i].from = w
        PROVE  w \in Returning(k)'
    <3>1. i - 1 \in DOMAIN backlog' /\ backlog'[i - 1] = backlog[i] /\ i - 1 >= k
      BY <2>2 DEF Pops
    <3> QED
      BY <2>2, <3>1 DEF Returning
  <2> QED
    BY <2>1, <2>2 DEF Returning
<1>3. \A i \in OrphansTo(k)' : i \in Int /\ i + 1 \in OrphansTo(k + 1) \ {1}
  BY PoppedMessage DEF IInv, OrphansTo, Orphaned
<1>4. IsFiniteSet(OrphansTo(k + 1) \ {1})
  BY ChargeSizes, FS_RemoveElement
<1>5. OrphansTo(k)' \in SUBSET Int
  BY <1>3
<1>6. IsFiniteSet(OrphansTo(k)')
      /\ Cardinality(OrphansTo(k)') <= Cardinality(OrphansTo(k + 1) \ {1})
  BY <1>3, <1>4, <1>5, Shifted
<1> QED
  BY <1>1, <1>2, <1>6, WorkersAssumption, FS_Subset

\* Handling a message keeps the balance, if it is not the order to start.
LEMMA ChargeHandles ==
    ASSUME IInv, DataOK, IInv', DataOK', ChargeInv,
           HandleReadyDone \/ HandleSucceeded \/ HandleFailed \/ HandleUnknown
    PROVE  ChargeInv'
<1> SUFFICES ASSUME NEW k \in Nat \ {0} PROVE Charged(k)'
  BY DEF ChargeInv
<1>1. Handles
  BY HandleSteps DEF IInv
<1>2. PICK type : Pops(type)
  BY <1>1 DEF Handles
<1>3. /\ HoldersKept /\ inflight' = inflight \ {backlog[1].pattern} /\ crashes' = crashes
  BY <1>1 DEF Handles
<1>4. UNCHANGED <<leaving, sortFailures>>
      /\ \A w \in Workers : worker[w] \in {"remove", "request"} => worker'[w] = worker[w]
  <2>1. CASE HandleReadyDone
    <3>1. Pops("ready") /\ Answers("exited", NoPattern) /\ UNCHANGED <<leaving, sortFailures>>
      BY <2>1, Popped, Answered DEF HandleReadyDone, IInv, bounds
    <3>2. backlog[1].from # Nobody => worker[backlog[1].from] = "await"
      BY <3>1 DEF Pops, IInv, MessageInv
    <3> QED
      BY <3>1, <3>2 DEF Answers, IInv, Types
  <2>2. CASE HandleSucceeded \/ HandleFailed \/ HandleUnknown
    BY <2>2 DEF HandleSucceeded, HandleFailed, HandleUnknown, workers, bounds
  <2> QED
    BY <2>1, <2>2
<1>5. Loose(k)' \subseteq Loose(k + 1)
  <2> SUFFICES ASSUME NEW p \in Loose(k)' PROVE p \in Loose(k + 1)
    OBVIOUS
  <2>1. p \in inflight /\ p # backlog[1].pattern
    BY <1>3 DEF Loose
  <2>2. ASSUME NEW i \in DOMAIN backlog, i < k + 1 PROVE backlog[i].pattern # p
    <3>1. CASE i = 1
      BY <2>1, <3>1
    <3>2. CASE i # 1
      <4>1. i - 1 \in DOMAIN backlog' /\ backlog'[i - 1] = backlog[i] /\ i - 1 < k
        BY <1>2, <2>2, <3>2 DEF Pops
      <4> QED
        BY <4>1 DEF Loose
    <3> QED
      BY <3>1, <3>2
  <2>3. \A w \in Workers : Holds(w) /\ pattern[w] = p => leaving[w]
    BY <1>3, <1>4 DEF Loose, HoldersKept
  <2> QED
    BY <2>1, <2>2, <2>3 DEF Loose
<1>6. /\ Returning(k + 1) \subseteq Returning(k)' /\ IsFiniteSet(Returning(k)')
      /\ IsFiniteSet(OrphansTo(k)') /\ k + 1 \in Nat \ {0}
      /\ Cardinality(OrphansTo(k)') <= Cardinality(OrphansTo(k + 1) \ {1})
  BY <1>2, <1>4, ReturningPopped
<1>7. Cardinality(OrphansTo(k)') <= Cardinality(OrphansTo(k + 1)) + 0
  <2>1. Cardinality(OrphansTo(k + 1) \ {1}) <= Cardinality(OrphansTo(k + 1))
        /\ Cardinality(OrphansTo(k + 1) \ {1}) \in Nat
    BY ChargeSizes, FS_Subset, FS_CardinalityType
  <2>2. Cardinality(OrphansTo(k)') \in Nat /\ Cardinality(OrphansTo(k + 1)) \in Nat
    BY <1>6, ChargeSizes, FS_CardinalityType
  <2>3. \A a, b, c \in Nat : a <= b /\ b <= c => a <= c + 0
    OBVIOUS
  <2> QED
    BY <1>6, <2>1, <2>2, <2>3
<1>8. Charged(k + 1) /\ 0 + 0 <= 0 + 0 /\ crashes' + sortFailures' = crashes + sortFailures + 0
  BY <1>3, <1>4, <1>6, BoundsAssumption DEF ChargeInv, DataOK
<1>9. /\ Cardinality(Loose(k)') <= Cardinality(Loose(k + 1)) + 0
      /\ Cardinality(Returning(k)') >= Cardinality(Returning(k + 1)) + 0
  BY <1>5, <1>6, ChargeSizes, SizeKept
<1> QED
  BY <1>6, <1>7, <1>8, <1>9, ChargeMoves

\* The order to start keeps it: nobody takes it, and that has been paid for, or one who
\* comes back with it does.
LEMMA ChargeStarts ==
    ASSUME IInv, DataOK, IInv', DataOK', ChargeInv, HandleReadyStart
    PROVE  ChargeInv'
<1> SUFFICES ASSUME NEW k \in Nat \ {0} PROVE Charged(k)'
  BY DEF ChargeInv
<1> DEFINE p == unprocessed[1]
<1>1. /\ Gives(p) /\ Pops("ready") /\ inflight' = inflight \cup {p} /\ crashes' = crashes
      /\ UNCHANGED <<leaving, sortFailures>>
  BY StartGives DEF IInv, HandleReadyStart, Takes, bounds
<1> HIDE DEF p
<1>2. backlog[1].pattern = NoPattern /\ \A q \in inflight' : q # NoPattern
  <2>1. inflight' \subseteq Patterns
    BY DEF IInv, Types
  <2> QED
    BY <1>1, <2>1, MessageKinds, BoundsAssumption DEF Pops
<1>3. /\ \A w \in Workers : worker[w] \in {"remove", "request"} => worker'[w] = worker[w]
      /\ \A w \in Workers : Holds(w) => Holds(w)' /\ pattern'[w] = pattern[w]
  BY <1>1 DEF Gives, Holds
<1>4. Loose(k)' \subseteq Loose(k + 1) \cup {p}
  <2> SUFFICES ASSUME NEW q \in Loose(k)', q # p PROVE q \in Loose(k + 1)
    OBVIOUS
  <2>1. q \in inflight /\ q # NoPattern
    BY <1>1, <1>2 DEF Loose
  <2>2. ASSUME NEW i \in DOMAIN backlog, i < k + 1 PROVE backlog[i].pattern # q
    <3>1. CASE i = 1
      BY <1>2, <2>1, <3>1
    <3>2. CASE i # 1
      <4>1. i - 1 \in DOMAIN backlog' /\ backlog'[i - 1] = backlog[i] /\ i - 1 < k
        BY <1>1, <2>2, <3>2 DEF Pops
      <4> QED
        BY <4>1 DEF Loose
    <3> QED
      BY <3>1, <3>2
  <2>3. \A w \in Workers : Holds(w) /\ pattern[w] = q => leaving[w]
    BY <1>1, <1>3 DEF Loose
  <2> QED
    BY <2>1, <2>2, <2>3 DEF Loose
<1>5. /\ Returning(k + 1) \subseteq Returning(k)' /\ IsFiniteSet(Returning(k)')
      /\ IsFiniteSet(OrphansTo(k)') /\ k + 1 \in Nat \ {0}
      /\ Cardinality(OrphansTo(k)') <= Cardinality(OrphansTo(k + 1) \ {1})
  BY <1>1, <1>3, ReturningPopped
<1>6. Charged(k + 1) /\ crashes' + sortFailures' = crashes + sortFailures + 0
  BY <1>1, <1>5, BoundsAssumption DEF ChargeInv, DataOK
<1>7. Cardinality(Returning(k)') >= Cardinality(Returning(k + 1)) + 0
  BY <1>5, ChargeSizes, SizeKept
<1> DEFINE s == Cardinality(OrphansTo(k)')
           o == Cardinality(OrphansTo(k + 1))
           d == Cardinality(OrphansTo(k + 1) \ {1})
<1>8. /\ s \in Nat /\ o \in Nat /\ s <= d
      /\ d = IF 1 \in OrphansTo(k + 1) THEN o - 1 ELSE o
  BY <1>5, ChargeSizes, FS_RemoveElement, FS_CardinalityType
<1> HIDE DEF s, o, d
<1>9. CASE backlog[1].from = Nobody
  <2>1. 1 \in OrphansTo(k + 1)
    BY <1>1, <1>9 DEF OrphansTo, Orphaned, Pops
  <2>2. s + 1 <= o /\ s \in Nat /\ o \in Nat
    BY <1>8, <2>1
  <2>3. Cardinality(Loose(k)') <= Cardinality(Loose(k + 1)) + 1
    BY <1>4, ChargeSizes, SizeKept
  <2>4. s <= o + (0 - 1) /\ 1 + (0 - 1) <= 0 + 0
    BY <1>8, <2>2
  <2> QED
    BY <1>5, <1>6, <1>7, <2>3, <2>4, ChargeMoves DEF s, o
<1>10. CASE backlog[1].from # Nobody
  <2>1. PICK w \in Workers : /\ w = backlog[1].from /\ worker[w] = "await"
                            /\ Holds(w)' /\ pattern'[w] = p
    BY <1>1, <1>10 DEF Gives
  <2>2. ~leaving[w]
    BY <2>1 DEF IInv, LabelInv
  <2>3. Loose(k)' \subseteq Loose(k + 1)
    BY <1>1, <1>4, <2>1, <2>2 DEF Loose
  <2>4. Cardinality(Loose(k)') <= Cardinality(Loose(k + 1)) + 0
    BY <2>3, ChargeSizes, SizeKept
  <2>5. s <= o + 0
    BY <1>8
  <2>6. 0 + 0 <= 0 + 0
    OBVIOUS
  <2> QED
    BY <1>5, <1>6, <1>7, <2>4, <2>5, <2>6, ChargeMoves DEF s, o
<1> QED
  BY <1>9, <1>10

\* A worker that asks has been coming back, and is.
LEMMA ChargeRequest ==
    ASSUME IInv, DataOK, IInv', DataOK', ChargeInv, NEW w \in Workers, Request(w)
    PROVE  ChargeInv'
<1> SUFFICES ASSUME NEW k \in Nat \ {0} PROVE Charged(k)'
  BY DEF ChargeInv
<1> DEFINE m == [type |-> "ready", from |-> w, pattern |-> NoPattern]
<1>1. Pushes(m) /\ m.from = w /\ w # Nobody /\ m.pattern = NoPattern
  BY Messages, Pushed, WorkersAssumption, BoundsAssumption DEF Request, Sends, IInv
<1> HIDE DEF m
<1>2. /\ worker[w] = "request" /\ worker' = [worker EXCEPT ![w] = "await"]
      /\ UNCHANGED <<pattern, inflight, crashes, leaving, sortFailures>>
  BY DEF Request, queues, bounds
<1>3. \A v \in Workers : (Holds(v)' <=> Holds(v)) /\ (v # w => worker'[v] = worker[v])
  BY <1>2 DEF Holds, IInv, Types
<1>4. Loose(k)' \subseteq Loose(k)
  BY <1>1, <1>2, <1>3 DEF Loose, Pushes
<1>5. OrphansTo(k)' \subseteq OrphansTo(k)
  BY <1>1 DEF OrphansTo, Orphaned, Pushes
<1>6. Returning(k) \subseteq Returning(k)' /\ IsFiniteSet(Returning(k)')
  <2>1. Returning(k)' \subseteq Workers
    BY DEF Returning
  <2>2. ASSUME NEW v \in Returning(k), v # w PROVE v \in Returning(k)'
    BY <1>1, <1>3, <2>2 DEF Returning, Pushes
  <2>3. ASSUME w \in Returning(k) PROVE w \in Returning(k)'
    <3>1. k \in DOMAIN backlog
      BY <1>2, <2>3 DEF Returning, IInv, MessageInv, Types
    <3>2. Last \in DOMAIN backlog' /\ Last >= k /\ backlog'[Last].from = w
      BY <1>1, <3>1 DEF Pushes
    <3> QED
      BY <3>2 DEF Returning
  <2> QED
    BY <2>1, <2>2, <2>3, WorkersAssumption, FS_Subset
<1>7. Charged(k) /\ 0 + 0 <= 0 + 0 /\ crashes' + sortFailures' = crashes + sortFailures + 0
  BY <1>2, BoundsAssumption DEF ChargeInv, DataOK
<1>8. /\ Cardinality(Loose(k)') <= Cardinality(Loose(k)) + 0
      /\ Cardinality(OrphansTo(k)') <= Cardinality(OrphansTo(k)) + 0
      /\ Cardinality(Returning(k)') >= Cardinality(Returning(k)) + 0
  BY <1>4, <1>5, <1>6, ChargeSizes, SizeKept
<1> QED
  BY <1>7, <1>8, ChargeMoves

\* A worker that reports comes back for more, unless it leaves, which its sort has
\* paid for.
LEMMA ChargeReport ==
    ASSUME IInv, DataOK, IInv', DataOK', ChargeInv, NEW w \in Workers, Report(w)
    PROVE  ChargeInv'
<1> SUFFICES ASSUME NEW k \in Nat \ {0} PROVE Charged(k)'
  BY DEF ChargeInv
<1>1. PICK m : Reports(w, m)
  BY ReportSteps DEF IInv
<1>2. /\ worker[w] = "report" /\ Pushes(m) /\ m.from = Nobody /\ m.pattern = pattern[w]
      /\ m.type # "ready" /\ pattern[w] # NoPattern /\ leaving' = [leaving EXCEPT ![w] = FALSE]
      /\ UNCHANGED <<inflight, crashes, sortFailures>>
  BY <1>1 DEF Reports, Report, queues, bounds
<1>3. \A v \in Workers \ {w} : /\ (Holds(v)' <=> Holds(v)) /\ pattern'[v] = pattern[v]
                               /\ worker'[v] = worker[v] /\ leaving'[v] = leaving[v]
  BY <1>1 DEF Reports, Holds, IInv, Types
<1>4. ~leaving[w] => worker'[w] \in {"remove", "request"}
  BY DEF Report, Notified, IInv, Types
<1>5. w \notin Returning(k)
  BY <1>2, BoundsAssumption DEF Returning, IInv, MessageInv, Types
<1>6. IsFiniteSet(Returning(k)') /\ Returning(k) \subseteq Returning(k)'
  <2>1. Returning(k)' \subseteq Workers
    BY DEF Returning
  <2>2. ASSUME NEW v \in Returning(k) PROVE v \in Returning(k)'
    BY <1>2, <1>3, <1>5 DEF Returning, Pushes
  <2> QED
    BY <2>1, <2>2, WorkersAssumption, FS_Subset
<1>7. OrphansTo(k)' \subseteq OrphansTo(k)
  BY <1>2 DEF OrphansTo, Orphaned, Pushes
<1>8. Loose(k)' \subseteq Loose(k) \cup {pattern[w]}
  <2> SUFFICES ASSUME NEW p \in Loose(k)', p # pattern[w] PROVE p \in Loose(k)
    OBVIOUS
  <2>1. p \in inflight
    BY <1>2 DEF Loose
  <2>2. \A i \in DOMAIN backlog : i < k => backlog[i].pattern # p
    BY <1>2 DEF Loose, Pushes
  <2>3. \A v \in Workers : Holds(v) /\ pattern[v] = p => leaving[v]
    BY <1>3 DEF Loose
  <2> QED
    BY <2>1, <2>2, <2>3 DEF Loose
<1>9. OrphansTo(k)' \subseteq OrphansTo(k) /\ Charged(k)
      /\ crashes' + sortFailures' = crashes + sortFailures + 0
  BY <1>2, <1>7, BoundsAssumption DEF ChargeInv, DataOK
<1>10. Cardinality(OrphansTo(k)') <= Cardinality(OrphansTo(k)) + 0
  BY <1>7, ChargeSizes, SizeKept
<1>11. CASE ~leaving[w] /\ k \in DOMAIN backlog'
  <2>1. w \in Returning(k)'
    BY <1>4, <1>11 DEF Returning
  <2>2. Returning(k) \cup {w} \subseteq Returning(k)'
    BY <1>6, <2>1
  <2>3. /\ Cardinality(Loose(k)') <= Cardinality(Loose(k)) + 1
        /\ Cardinality(Returning(k)') >= Cardinality(Returning(k)) + 1
    BY <1>5, <1>6, <1>8, <2>2, ChargeSizes, SizeKept
  <2>4. 1 + 0 <= 1 + 0
    OBVIOUS
  <2> QED
    BY <1>9, <1>10, <2>3, <2>4, ChargeMoves
<1>12. CASE leaving[w] \/ k \notin DOMAIN backlog'
  <2>1. pattern[w] \in Loose(k)' => pattern[w] \in Loose(k)
    <3>1. CASE k \notin DOMAIN backlog'
      <4>1. Last \in DOMAIN backlog' /\ backlog'[Last].pattern = pattern[w] /\ Last < k
        <5>1. DOMAIN backlog' = 1..Len(backlog') /\ Len(backlog') \in Nat
          BY DEF IInv, Types
        <5> QED
          BY <1>2, <3>1, <5>1 DEF Pushes
      <4> QED
        BY <4>1 DEF Loose
    <3>2. CASE leaving[w]
      <4>1. Holds(w)
        BY <1>2 DEF Holds
      <4>2. /\ pattern[w] \in inflight /\ \A i \in DOMAIN backlog : backlog[i].pattern # pattern[w]
            /\ \A v \in Workers : Holds(v) /\ pattern[v] = pattern[w] => v = w
        BY <1>2, <4>1 DEF IInv, AccountInv
      <4> QED
        BY <3>2, <4>2 DEF Loose
    <3> QED
      BY <1>12, <3>1, <3>2
  <2>2. Loose(k)' \subseteq Loose(k)
    BY <1>8, <2>1
  <2>3. /\ Cardinality(Loose(k)') <= Cardinality(Loose(k)) + 0
        /\ Cardinality(Returning(k)') >= Cardinality(Returning(k)) + 0
    BY <1>6, <2>2, ChargeSizes, SizeKept
  <2>4. 0 + 0 <= 0 + 0
    OBVIOUS
  <2> QED
    BY <1>9, <1>10, <2>3, <2>4, ChargeMoves
<1> QED
  BY <1>11, <1>12 DEF IInv, Types

\* A worker that is lost had a pattern, or was coming back, or had asked; not two of them.
LEMMA ChargeCrash ==
    ASSUME IInv, DataOK, IInv', DataOK', ChargeInv, NEW w \in Workers, Crash(w)
    PROVE  ChargeInv'
<1> SUFFICES ASSUME NEW k \in Nat \ {0} PROVE Charged(k)'
  BY DEF ChargeInv
<1>1. Loses(w) /\ sortFailures' = sortFailures
  BY CrashSteps DEF Crash, IInv
<1>2. /\ worker' = [worker EXCEPT ![w] = "exited"] /\ pattern' = [pattern EXCEPT ![w] = NoPattern]
      /\ leaving' = [leaving EXCEPT ![w] = FALSE]
      /\ crashes' = crashes + 1 /\ UNCHANGED inflight
      /\ \/ Widows(w)
         \/ /\ worker[w] # "await"
            /\ Pushes([type |-> "unknown", from |-> Nobody, pattern |-> NoPattern])
  BY <1>1 DEF Loses, queues
<1>3. \A v \in Workers \ {w} : /\ (Holds(v)' <=> Holds(v)) /\ pattern'[v] = pattern[v]
                               /\ worker'[v] = worker[v] /\ leaving'[v] = leaving[v]
  BY <1>2 DEF Holds, IInv, Types
<1>4. w \in Workers /\ w # Nobody /\ Nobody \notin Workers
  BY BoundsAssumption
<1>5. /\ DOMAIN backlog \subseteq DOMAIN backlog'
      /\ \A i \in DOMAIN backlog : /\ backlog'[i].pattern = backlog[i].pattern
                                   /\ backlog[i].from # w => backlog'[i].from = backlog[i].from
  BY <1>2 DEF Widows, Pushes
<1>6. Loose(k)' \subseteq Loose(k) \cup {pattern[w]} /\ (~Holds(w) => Loose(k)' \subseteq Loose(k))
  <2> SUFFICES ASSUME NEW p \in Loose(k)', p # pattern[w] \/ ~Holds(w) PROVE p \in Loose(k)
    OBVIOUS
  <2>1. p \in inflight
    BY <1>2 DEF Loose
  <2>2. \A i \in DOMAIN backlog : i < k => backlog[i].pattern # p
    BY <1>5 DEF Loose
  <2>3. \A v \in Workers : Holds(v) /\ pattern[v] = p => leaving[v]
    BY <1>3 DEF Loose
  <2> QED
    BY <2>1, <2>2, <2>3 DEF Loose
<1>7. Returning(k) \ {w} \subseteq Returning(k)' /\ IsFiniteSet(Returning(k)')
  <2>1. Returning(k)' \subseteq Workers
    BY DEF Returning
  <2>2. ASSUME NEW v \in Returning(k), v # w PROVE v \in Returning(k)'
    BY <1>3, <1>4, <1>5, <2>2 DEF Returning
  <2> QED
    BY <2>1, <2>2, WorkersAssumption, FS_Subset
<1>8. Charged(k) /\ crashes' + sortFailures' = crashes + sortFailures + 1
  BY <1>1, <1>2, BoundsAssumption DEF ChargeInv, DataOK
<1>9. ASSUME \A i \in DOMAIN backlog : i < k => backlog[i].from # w
      PROVE  OrphansTo(k)' \subseteq OrphansTo(k)
  <2>1. CASE Widows(w)
    BY <1>9, <2>1 DEF OrphansTo, Orphaned, Widows
  <2>2. CASE Pushes([type |-> "unknown", from |-> Nobody, pattern |-> NoPattern])
    BY <2>2 DEF OrphansTo, Orphaned, Pushes
  <2> QED
    BY <1>2, <2>1, <2>2
<1>10. CASE Holds(w)
  <2>1. worker[w] \notin {"await", "remove", "request"}
    BY <1>10 DEF Holds, IInv, LabelInv, Idle
  <2>2. \A i \in DOMAIN backlog : backlog[i].from # w
    BY <1>4, <2>1 DEF IInv, MessageInv
  <2>3. Returning(k) \subseteq Returning(k)' /\ OrphansTo(k)' \subseteq OrphansTo(k)
    BY <1>7, <1>9, <2>1, <2>2 DEF Returning
  <2>4. /\ Cardinality(Loose(k)') <= Cardinality(Loose(k)) + 1
        /\ Cardinality(OrphansTo(k)') <= Cardinality(OrphansTo(k)) + 0
        /\ Cardinality(Returning(k)') >= Cardinality(Returning(k)) + 0
    BY <1>6, <1>7, <2>3, ChargeSizes, SizeKept
  <2>5. 1 + 0 <= 0 + 1
    OBVIOUS
  <2> QED
    BY <1>8, <2>4, <2>5, ChargeMoves
<1>11. CASE ~Holds(w) /\ \A i \in DOMAIN backlog : i < k => backlog[i].from # w
  <2>1. OrphansTo(k)' \subseteq OrphansTo(k) /\ Loose(k)' \subseteq Loose(k)
    BY <1>6, <1>9, <1>11
  <2>2. /\ Cardinality(Loose(k)') <= Cardinality(Loose(k)) + 0
        /\ Cardinality(OrphansTo(k)') <= Cardinality(OrphansTo(k)) + 0
        /\ Cardinality(Returning(k)') >= Cardinality(Returning(k)) + (0 - 1)
    BY <1>7, <2>1, ChargeSizes, SizeKept
  <2>3. 0 + 0 <= (0 - 1) + 1
    OBVIOUS
  <2> QED
    BY <1>8, <2>2, <2>3, ChargeMoves
<1>12. ASSUME ~Holds(w), NEW i \in DOMAIN backlog, i < k, backlog[i].from = w
       PROVE  Charged(k)'
  <2>1. /\ worker[w] = "await" /\ \A j \in DOMAIN backlog : backlog[j].from = w => j = i
    BY <1>4, <1>12 DEF IInv, MessageInv
  <2>2. Widows(w) /\ DOMAIN backlog \subseteq Nat
    BY <1>2, <2>1 DEF IInv, Types
  <2>3. w \notin Returning(k)
    BY <1>12, <2>1, <2>2 DEF Returning
  <2>4. OrphansTo(k)' \subseteq OrphansTo(k) \cup {i}
    BY <2>1, <2>2 DEF OrphansTo, Orphaned, Widows
  <2>5. Returning(k) \subseteq Returning(k)' /\ Loose(k)' \subseteq Loose(k)
    BY <1>6, <1>7, <1>12, <2>3
  <2>6. /\ Cardinality(Loose(k)') <= Cardinality(Loose(k)) + 0
        /\ Cardinality(OrphansTo(k)') <= Cardinality(OrphansTo(k)) + 1
        /\ Cardinality(Returning(k)') >= Cardinality(Returning(k)) + 0
    BY <1>7, <2>4, <2>5, ChargeSizes, SizeKept
  <2>7. 0 + 1 <= 0 + 1
    OBVIOUS
  <2> QED
    BY <1>8, <2>6, <2>7, ChargeMoves
<1> QED
  BY <1>10, <1>11, <1>12

\* The balance is kept.
LEMMA ChargeStep ==
    ASSUME IInv, DataOK, IInv', DataOK', ChargeInv, Next
    PROVE  ChargeInv'
<1>1. CASE \/ Main \/ ServerStarts \/ ServerStops
           \/ \E w \in Workers : (WorksOn(w) /\ ~SortFails(w)) \/ RemoveOutput(w)
  BY <1>1, QuietSteps, ChargeQuiet
<1>2. CASE HandleRequest
  BY <1>2, ChargeHandles, ChargeStarts DEF HandleRequest
<1>3. ASSUME NEW w \in Workers, SortFails(w) \/ Request(w) \/ Report(w) \/ Crash(w)
      PROVE  ChargeInv'
  BY <1>3, ChargeSortFails, ChargeRequest, ChargeReport, ChargeCrash
<1> QED
  BY <1>1, <1>2, <1>3 DEF Next, Server, Work, Fails, WorksOn

\* Who asks, reports or fails: what is queued or in flight gets no new pattern, and
\* none is lost from there but to be confirmed.
LEMMA HandledQueues ==
    ASSUME IInv, HandleRequest
    PROVE  /\ (Queued \cup inflight)' \subseteq Queued \cup inflight
           /\ Queued \cup inflight \cup confirmed \subseteq (Queued \cup inflight \cup confirmed)'
           /\ UNCHANGED <<pc, splitValue, sortFailures, crashes, leaving>>
<1> USE DEF Queued
<1>1. UNCHANGED <<pc, splitValue, sortFailures, crashes, leaving>>
  BY DEF HandleRequest, HandleReadyStart, HandleReadyDone, HandleSucceeded, HandleFailed,
         HandleUnknown, server, settings, bounds, workers
<1>2. CASE HandleReadyStart
  <2>1. Takes /\ confirmed' = confirmed
    BY <1>2, StartGives DEF IInv
  <2>2. Queued = Queued' \cup {unprocessed[1]} /\ inflight' = inflight \cup {unprocessed[1]}
    BY <2>1 DEF Takes
  <2> QED
    BY <1>1, <2>1, <2>2
<1>3. CASE HandleReadyDone \/ HandleUnknown
  BY <1>1, <1>3 DEF HandleReadyDone, HandleUnknown, queues
<1>4. CASE HandleSucceeded
  BY <1>1, <1>4 DEF HandleSucceeded
<1>5. CASE HandleFailed
  <2> DEFINE p == backlog[1].pattern
  <2>1. Pops("failed") /\ Requeues(p) /\ inflight' = inflight \ {p} /\ confirmed' = confirmed
    BY <1>5, Popped, Requeued DEF HandleFailed, IInv
  <2>2. p \in inflight
    BY <2>1 DEF Pops, IInv, AccountInv, Requeues
  <2> HIDE DEF p
  <2>3. Queued' = Queued \cup {p}
    BY <2>1 DEF Requeues
  <2> QED
    BY <1>1, <2>1, <2>2, <2>3
<1> QED
  BY <1>2, <1>3, <1>4, <1>5 DEF HandleRequest

\* There are finitely many workers.
LEMMA WorkingSize ==
    /\ IsFiniteSet(Working) /\ Cardinality(Working) \in Nat
    /\ IsFiniteSet(Workers) /\ Cardinality(Workers) \in Nat
<1>1. Working \subseteq Workers
  BY DEF Working
<1> QED
  BY <1>1, WorkersAssumption, FS_Subset, FS_CardinalityType

\* The worker that is told to exit when nothing is queued leaves one behind for each
\* pattern that somebody has to report.
LEMMA StayDone ==
    ASSUME IInv, DataOK, ChargeInv, HandleReadyDone, backlog[1].from # Nobody
    PROVE  Cardinality((Queued \cup inflight)')
              <= Cardinality(Working') + crashes' + sortFailures'
<1> DEFINE w == backlog[1].from
           H == {v \in Workers : Holds(v) /\ ~leaving[v]}
           P == {pattern[v] : v \in H}
           f == [v \in H |-> pattern[v]]
           L == Loose(2)
           R == Returning(2)
<1>1. /\ Pops("ready") /\ Answers("exited", NoPattern) /\ unprocessed = <<>>
      /\ UNCHANGED <<unprocessed, inflight, leaving, crashes, sortFailures>>
  BY Popped, Answered DEF HandleReadyDone, IInv, queues, bounds
<1>2. /\ w \in Workers /\ worker' = [worker EXCEPT ![w] = "exited"] /\ worker[w] = "await"
      /\ \A i \in DOMAIN backlog : backlog[i].from = w => i = 1
  BY <1>1 DEF Answers, Pops, IInv, MessageInv
<1>3. Working' = Working \ {w}
  BY <1>1, <1>2 DEF Working, IInv, Types
<1>4. (Queued \cup inflight)' = inflight
  BY <1>1 DEF Queued
<1>5. inflight \subseteq L \cup P
  <2> SUFFICES ASSUME NEW p \in inflight, p \notin L PROVE p \in P
    OBVIOUS
  <2>1. backlog[1].pattern = NoPattern /\ NoPattern \notin inflight
    BY <1>1, MessageKinds, BoundsAssumption DEF Pops, IInv, Types
  <2>2. \A i \in DOMAIN backlog : i < 2 => i = 1
    BY <1>1 DEF Pops
  <2>3. \A i \in DOMAIN backlog : i < 2 => backlog[i].pattern # p
    BY <2>1, <2>2
  <2>4. PICK v \in Workers : Holds(v) /\ pattern[v] = p /\ ~leaving[v]
    BY <2>3 DEF Loose
  <2> QED
    BY <2>4
<1>6. IsFiniteSet(H) /\ IsFiniteSet(R) /\ IsFiniteSet(L)
  BY ChargeSizes, WorkersAssumption, FS_Subset
<1>7. IsFiniteSet(P) /\ Cardinality(P) <= Cardinality(H)
  <2>1. f \in Surjection(H, P)
    BY DEF Surjection
  <2> HIDE DEF f, P, H
  <2> QED
    BY <1>6, <2>1, FS_Surjection
<1>8. H \cap R = {} /\ H \cup R \subseteq Working \ {w}
  <2>1. ASSUME NEW v \in R
        PROVE  v \in Workers /\ worker[v] \in {"remove", "request", "await"} /\ v # w
    <3>1. CASE worker[v] \in {"remove", "request"}
      BY <1>2, <3>1 DEF Returning
    <3>2. ASSUME NEW i \in DOMAIN backlog, i >= 2, backlog[i].from = v
          PROVE  worker[v] = "await" /\ v # w
      <4>1. v # Nobody
        BY <2>1, BoundsAssumption DEF Returning
      <4> QED
        BY <1>2, <3>2, <4>1 DEF IInv, MessageInv
    <3> QED
      BY <2>1, <3>1, <3>2 DEF Returning
  <2>2. \A v \in R : ~Holds(v) /\ ~leaving[v] /\ worker[v] # "exited"
    BY <2>1 DEF Holds, IInv, LabelInv, Idle
  <2>3. \A v \in H : worker[v] # "exited" /\ v # w
    BY <1>2 DEF Holds, IInv, LabelInv, Idle
  <2> QED
    BY <2>1, <2>2, <2>3 DEF Working
<1>9. Charged(2)
  BY DEF ChargeInv
<1> DEFINE a == Cardinality(inflight)
           l == Cardinality(L)
           p == Cardinality(P)
           h == Cardinality(H)
           r == Cardinality(R)
           o == Cardinality(OrphansTo(2))
           n == Cardinality(Working \ {w})
<1> HIDE DEF L, P, H, R, f, w
<1>10. a <= l + p /\ a \in Nat
  <2>1. /\ IsFiniteSet(L \cup P) /\ Cardinality(L \cup P) \in Nat
        /\ Cardinality(L \cup P) <= Cardinality(L) + Cardinality(P)
    BY <1>6, <1>7, UnionSize
  <2>2. Cardinality(inflight) <= Cardinality(L \cup P) /\ Cardinality(inflight) \in Nat
    BY <1>5, <2>1, FS_Subset, FS_CardinalityType
  <2>3. Cardinality(L) \in Nat /\ Cardinality(P) \in Nat
    BY <1>6, <1>7, FS_CardinalityType
  <2>4. \A x, y, z \in Nat : x <= y /\ y <= z => x <= z
    OBVIOUS
  <2>5. Cardinality(L) + Cardinality(P) \in Nat
    BY <2>3
  <2> QED
    BY <2>1, <2>2, <2>4, <2>5
<1>11. h + r <= n /\ n \in Nat
  <2>1. Cardinality(H \cup R) = Cardinality(H) + Cardinality(R)
    BY <1>6, <1>8, UnionSize
  <2>2. IsFiniteSet(Working \ {w})
    BY WorkingSize, FS_RemoveElement
  <2> QED
    BY <1>8, <2>1, <2>2, FS_Subset, FS_CardinalityType
<1>12. /\ l \in Nat /\ p \in Nat /\ h \in Nat /\ r \in Nat /\ p <= h
  BY <1>6, <1>7, FS_CardinalityType
<1>13. o \in Nat /\ crashes \in Nat /\ sortFailures \in Nat
  BY ChargeSizes, BoundsAssumption DEF DataOK
<1>14. l + o <= r + crashes + sortFailures
  BY <1>9 DEF Charged, L, R
<1> HIDE DEF a, l, p, h, r, o, n
<1>15. a <= n + crashes + sortFailures
  BY <1>10, <1>11, <1>12, <1>13, <1>14
<1> QED
  BY <1>1, <1>3, <1>4, <1>15 DEF a, n

\* What is queued is finite.
LEMMA QueuedFinite == IInv => IsFiniteSet(Queued)
<1> SUFFICES ASSUME IInv PROVE IsFiniteSet(Queued)
  OBVIOUS
<1> DEFINE g == [i \in DOMAIN unprocessed |-> unprocessed[i]]
<1>1. DOMAIN unprocessed = 1..Len(unprocessed) /\ Len(unprocessed) \in Nat
  BY DEF IInv, Types
<1>2. g \in Surjection(DOMAIN unprocessed, Queued)
  BY DEF Surjection, Queued
<1> HIDE DEF g
<1>3. IsFiniteSet(DOMAIN unprocessed)
  BY <1>1, FS_Interval
<1> QED
  BY <1>2, <1>3, FS_Surjection

\* If the patterns that are left become no more, and no worker goes without a cost, the
\* bound on what is left is kept.
LEMMA StayKept ==
    ASSUME IInv, IInv', DataOK, DataOK', StayInv, pc \in Waiting,
           (Queued \cup inflight)' \subseteq Queued \cup inflight, NEW c \in Nat,
           Cardinality(Working') >= Cardinality(Working) + (0 - c),
           crashes' + sortFailures' = crashes + sortFailures + c
    PROVE  StayInv'
<1> DEFINE u1 == Cardinality(Queued \cup inflight)
           u2 == Cardinality((Queued \cup inflight)')
           n1 == Cardinality(Working)
           n2 == Cardinality(Working')
           c1 == crashes + sortFailures
           c2 == crashes' + sortFailures'
           m == Cardinality(Workers)
<1>1. /\ crashes \in Nat /\ sortFailures \in Nat /\ crashes' \in Nat /\ sortFailures' \in Nat
  BY BoundsAssumption DEF DataOK
<1>2. u1 \in Nat /\ u2 \in Nat /\ u2 <= u1
  <2>1. IsFiniteSet(Queued \cup inflight)
    BY QueuedFinite, FS_Union DEF IInv, LostInv
  <2> QED
    BY <2>1, FS_Subset, FS_CardinalityType
<1>3. n1 \in Nat /\ n2 \in Nat /\ m \in Nat
  <2>1. Working' \subseteq Workers
    BY DEF Working
  <2> QED
    BY <2>1, WorkingSize, FS_Subset, FS_CardinalityType
<1>4. c1 \in Nat /\ c2 \in Nat /\ c2 = c1 + c /\ n2 >= n1 + (0 - c)
  <2>1. \A a, b \in Nat : a + b \in Nat
    OBVIOUS
  <2> QED
    BY <1>1, <2>1
<1>5. n1 + c1 < m => u1 <= n1 + c1
  <2>1. n1 + crashes + sortFailures = n1 + c1
    BY <1>1, <1>3
  <2> QED
    BY <2>1 DEF StayInv
<1>6. Cardinality(Working') + crashes' + sortFailures' = n2 + c2
  BY <1>1, <1>3
<1> HIDE DEF u1, u2, n1, n2, c1, c2, m
<1>7. n2 + c2 < m => u2 <= n2 + c2
  BY <1>2, <1>3, <1>4, <1>5
<1> QED
  BY <1>6, <1>7 DEF StayInv, u2, m

\* When workers have just been started all of them are at work.
LEMMA StaySpawned ==
    ASSUME IInv, DataOK, SpawnMappers \/ SpawnReducers
    PROVE  StayInv'
<1>1. /\ worker' = [w \in Workers |-> "request"] /\ pc \notin Waiting
      /\ UNCHANGED <<leaving, crashes, sortFailures>>
  BY DEF SpawnMappers, SpawnReducers, SpawnWorkers, Step, Waiting, bounds
<1>2. Working' = Workers
  BY <1>1 DEF Working, IInv, LabelInv, Types, Waiting
<1>3. crashes \in Nat /\ sortFailures \in Nat /\ Cardinality(Workers) \in Nat
  BY BoundsAssumption, WorkingSize DEF DataOK
<1>4. ~(Cardinality(Working') + crashes' + sortFailures' < Cardinality(Workers))
  BY <1>1, <1>2, <1>3
<1> QED
  BY <1>4 DEF StayInv

\* Each step keeps that bound.
LEMMA StayStep ==
    ASSUME IInv, DataOK, IInv', DataOK', ChargeInv, StayInv, Next
    PROVE  StayInv'
<1> USE DEF server, settings, queues, workers, files, results, bounds
<1>1. crashes \in Nat /\ sortFailures \in Nat
  BY BoundsAssumption DEF DataOK
<1>2. IsFiniteSet(Working')
  <2>1. Working' \subseteq Workers
    BY DEF Working
  <2> QED
    BY <2>1, WorkersAssumption, FS_Subset
<1>3. ASSUME pc \in Waiting, (Queued \cup inflight)' \subseteq Queued \cup inflight,
             Working \subseteq Working', UNCHANGED <<crashes, sortFailures>>
      PROVE  StayInv'
  <2>1. Cardinality(Working') >= Cardinality(Working) + (0 - 0)
    BY <1>2, <1>3, WorkingSize, SizeKept
  <2>2. crashes' + sortFailures' = crashes + sortFailures + 0
    BY <1>1, <1>3
  <2> QED
    BY <1>3, <2>1, <2>2, StayKept
<1>4. ASSUME NEW w, pc \in Waiting, UNCHANGED <<unprocessed, inflight>>,
             Working \ {w} \subseteq Working',
             crashes' + sortFailures' = crashes + sortFailures + 1
      PROVE  StayInv'
  <2>1. Cardinality(Working') >= Cardinality(Working) + (0 - 1)
    BY <1>2, <1>4, WorkingSize, SizeKept
  <2>2. (Queued \cup inflight)' \subseteq Queued \cup inflight
    BY <1>4 DEF Queued
  <2> QED
    BY <1>4, <2>1, <2>2, StayKept
<1>5. CASE Main
  <2>1. CASE SpawnMappers \/ SpawnReducers
    BY <2>1, StaySpawned
  <2>2. CASE ~(SpawnMappers \/ SpawnReducers)
    <3>1. pc' \notin Waiting
      BY <1>5, <2>2 DEF Main, Start, StageMap, WaitMappers, ClearUnprocessed, StageReduce,
              WaitReducers, BringDownServer, JoinServer, PoolWait, Step, Waiting
    <3> QED
      BY <3>1 DEF StayInv
  <2> QED
    BY <2>1, <2>2
<1>6. CASE pc \notin Waiting /\ ~Main
  <2>1. Internal \/ HandleRequest
    BY <1>6, RestingStep
  <2>2. pc' = pc
    BY <2>1, HandledQueues DEF Internal
  <2> QED
    BY <1>6, <2>2 DEF StayInv
<1>7. ASSUME pc \in Waiting,
             \/ ServerStarts \/ ServerStops
             \/ \E w \in Workers : (WorksOn(w) /\ ~SortFails(w)) \/ RemoveOutput(w)
      PROVE  StayInv'
  <2>1. Quiet
    BY <1>7, QuietSteps
  <2>2. unprocessed' = unprocessed
    BY <1>7 DEF ServerStarts, ServerStops, WorksOn, ProcessOK, ProcessFails, Processed, OpenOutput,
            Spread, Sort, ReduceOK, ReduceFails, Reduced, RemoveOutput
  <2>3. \A w \in Workers : worker[w] # "exited" => worker'[w] # "exited"
    <3>1. CASE \E w \in Workers : RemoveOutput(w)
      BY <3>1 DEF RemoveOutput, IInv, Types
    <3>2. CASE Internal
      BY <3>2 DEF Internal, Idle
    <3> QED
      BY <1>7, <3>1, <3>2, InternalSteps DEF IInv
  <2> QED
    BY <1>3, <1>7, <2>1, <2>2, <2>3 DEF Quiet, Working, Queued
<1>8. ASSUME pc \in Waiting, HandleRequest PROVE StayInv'
  <2>1. /\ (Queued \cup inflight)' \subseteq Queued \cup inflight
        /\ UNCHANGED <<sortFailures, crashes, leaving>>
    BY <1>8, HandledQueues
  <2>2. CASE HandleSucceeded \/ HandleFailed \/ HandleUnknown
    <3>1. Working' = Working
      BY <2>2 DEF HandleSucceeded, HandleFailed, HandleUnknown, Working
    <3> QED
      BY <1>3, <1>8, <2>1, <3>1
  <2>3. CASE HandleReadyStart
    <3>1. Gives(unprocessed[1])
      BY <2>3, StartGives DEF IInv
    <3>2. \A w \in Workers : worker[w] # "exited" => worker'[w] # "exited"
      BY <3>1 DEF Gives
    <3> QED
      BY <1>3, <1>8, <2>1, <3>2 DEF Working
  <2>4. CASE HandleReadyDone
    <3>1. Answers("exited", NoPattern)
      BY <2>4, Answered DEF HandleReadyDone, IInv
    <3>2. CASE backlog[1].from = Nobody
      <4>1. Working' = Working
        BY <2>1, <3>1, <3>2 DEF Answers, Working
      <4> QED
        BY <1>3, <1>8, <2>1, <4>1
    <3>3. CASE backlog[1].from # Nobody
      BY <2>4, <3>3, StayDone DEF StayInv
    <3> QED
      BY <3>2, <3>3
  <2> QED
    BY <1>8, <2>2, <2>3, <2>4 DEF HandleRequest
<1>9. ASSUME pc \in Waiting, NEW w \in Workers, Request(w) \/ Report(w) PROVE StayInv'
  <2>1. CASE Request(w)
    <3>1. UNCHANGED <<unprocessed, inflight, leaving, crashes, sortFailures>>
          /\ worker' = [worker EXCEPT ![w] = "await"]
      BY <2>1 DEF Request
    <3> QED
      BY <1>3, <1>9, <3>1 DEF Working, Queued, IInv, Types
  <2>2. CASE Report(w)
    <3>1. PICK label \in {"exited", "remove", "request"} :
            /\ worker' = [worker EXCEPT ![w] = label] /\ (label = "exited" => leaving[w])
      <4>1. CASE leaving[w]
        <5>1. ~Mapping
          BY <4>1 DEF Mapping, IInv, LabelInv
        <5> QED
          BY <2>2, <4>1, <5>1 DEF Report, Notified
      <4>2. CASE ~leaving[w] /\ Mapping
        BY <2>2, <4>2 DEF Report, Notified
      <4>3. CASE ~leaving[w] /\ ~Mapping
        BY <2>2, <4>3 DEF Report, Notified
      <4> QED
        BY <4>1, <4>2, <4>3
    <3>2. UNCHANGED <<unprocessed, inflight, crashes, sortFailures>>
          /\ leaving' = [leaving EXCEPT ![w] = FALSE]
      BY <2>2 DEF Report, Notified
    <3>3. Working \subseteq Working'
      BY <3>1, <3>2 DEF Working, IInv, Types
    <3> QED
      BY <1>3, <1>9, <3>2, <3>3 DEF Queued
  <2> QED
    BY <1>9, <2>1, <2>2
<1>10. ASSUME pc \in Waiting, NEW w \in Workers, SortFails(w) \/ Crash(w) PROVE StayInv'
  <2>1. UNCHANGED <<unprocessed, inflight>>
        /\ crashes' + sortFailures' = crashes + sortFailures + 1
    BY <1>1, <1>10 DEF SortFails, Crash
  <2>2. Working \ {w} \subseteq Working'
    BY <1>10 DEF SortFails, Crash, Working, IInv, Types
  <2> QED
    BY <1>4, <1>10, <2>1, <2>2
<1> QED
  BY <1>5, <1>6, <1>7, <1>8, <1>9, <1>10 DEF Next, Server, Work, Fails, WorksOn

\* No step forgets a bucket, and no mapper sorts.
LEMMA CoverStep ==
    ASSUME IInv, CoverInv, Next
    PROVE  CoverInv'
<1> USE DEF CoverInv, server, settings, queues, bounds, workers, files, results
<1>1. ASSUME UNCHANGED <<pc, splitValue, unprocessed, inflight, confirmed, sortFailures>>
      PROVE  CoverInv'
  BY <1>1 DEF Queued, Buckets
<1>2. CASE Main
  <2> USE DEF Step, Staged
  <2>1. CASE StageReduce
    <3>1. /\ pc' = "spawnReduce" /\ UNCHANGED <<splitValue, inflight, confirmed>>
          /\ unprocessed' = unprocessed \o [i \in 1..splitValue |-> i - 1]
      BY <2>1 DEF StageReduce
    <3>2. splitValue \in Nat /\ unprocessed \in Seq(Patterns) /\ Len(unprocessed) \in Nat
      BY <2>1, BucketsType DEF StageReduce, IInv, ChunkInv, Types
    <3>3. ASSUME NEW b \in 0..(splitValue - 1) PROVE b \in Queued'
      <4>1. /\ Len(unprocessed) + b + 1 \in DOMAIN unprocessed'
            /\ unprocessed'[Len(unprocessed) + b + 1] = b
        BY <3>1, <3>2
      <4> QED
        BY <4>1 DEF Queued
    <3> QED
      BY <3>1, <3>3 DEF Buckets
  <2>2. CASE ~StageReduce
    <3>1. /\ sortFailures' = sortFailures
          /\ pc' \notin Staged => pc \notin Staged
          /\ pc' \in {"spawnReduce", "waitReduce"} =>
                /\ pc = "spawnReduce"
                /\ UNCHANGED <<splitValue, unprocessed, inflight, confirmed>>
      BY <1>2, <2>2 DEF Main, Start, StageMap, SpawnMappers, WaitMappers, ClearUnprocessed,
              SpawnReducers, WaitReducers, BringDownServer, JoinServer, SpawnWorkers, PoolWait
    <3> QED
      BY <3>1 DEF Queued, Buckets
  <2> QED
    BY <2>1, <2>2
<1>3. CASE HandleRequest
  BY <1>3, HandledQueues DEF Buckets
<1>4. ASSUME NEW w \in Workers, SortFails(w) PROVE CoverInv'
  <2>1. pc = "waitReduce"
    BY <1>4 DEF SortFails, IInv, LabelInv, Waiting, Resting, MapLabels
  <2> QED
    BY <1>4, <2>1 DEF SortFails, Queued, Buckets, Staged
<1>5. CASE ServerStarts \/ ServerStops
  BY <1>1, <1>5 DEF ServerStarts, ServerStops
<1>6. ASSUME NEW w \in Workers, Work(w) \/ ProcessFails(w) \/ ReduceFails(w) \/ Crash(w)
      PROVE  CoverInv'
  BY <1>1, <1>6 DEF Work, Request, Report, ProcessOK, ProcessFails, Processed, OpenOutput, Spread,
          RemoveOutput, Sort, ReduceOK, ReduceFails, Reduced, Crash
<1> QED
  BY <1>2, <1>3, <1>4, <1>5, <1>6 DEF Next, Server, Fails

\* Nothing that is left goes without its cost.
LeftInv == ChargeInv /\ StayInv /\ CoverInv

\* Nothing is in flight at the start.
LEMMA InitLeftInv == Init => LeftInv
<1> SUFFICES ASSUME Init PROVE LeftInv
  OBVIOUS
<1>1. IInv /\ CountInv
  BY InitIInv, InitCountInv
<1>2. ASSUME NEW k \in Nat \ {0} PROVE Charged(k)
  <2>1. Loose(k) = {} /\ OrphansTo(k) = {} /\ crashes = 0 /\ sortFailures = 0
    BY DEF Init, Loose, OrphansTo, Orphaned
  <2>2. Cardinality(Loose(k)) = 0 /\ Cardinality(OrphansTo(k)) = 0
    BY <2>1, FS_EmptySet
  <2>3. Cardinality(Returning(k)) \in Nat
    BY <1>1, ChargeSizes
  <2> QED
    BY <2>1, <2>2, <2>3 DEF Charged
<1> QED
  BY <1>2 DEF Init, LeftInv, ChargeInv, StayInv, CoverInv, Waiting

\* Together with what was proved before, what is left is bounded in every state.
LEMMA LeftInvariant == Spec => [](IInv /\ CountInv /\ LeftInv)
<1>1. Init => LeftInv
  BY InitLeftInv
<1>2. IInv /\ CountInv /\ IInv' /\ CountInv' /\ LeftInv /\ [Next]_vars => LeftInv'
  <2> SUFFICES ASSUME IInv, CountInv, IInv', CountInv', LeftInv, [Next]_vars
               PROVE  LeftInv'
    OBVIOUS
  <2>1. CASE Next
    BY <2>1, ChargeStep, StayStep, CoverStep DEF LeftInv, CountInv
  <2>2. CASE UNCHANGED vars
    <3> USE <2>2 DEF vars, server, settings, queues, workers, files, results, bounds, LeftInv
    <3>1. ASSUME NEW k \in Nat \ {0} PROVE Charged(k)'
      <4>1. Charged(k)
        BY DEF ChargeInv
      <4>2. /\ Loose(k)' = Loose(k) /\ OrphansTo(k)' = OrphansTo(k)
            /\ Returning(k)' = Returning(k)
        BY DEF Loose, OrphansTo, Orphaned, Returning, Holds
      <4> QED
        BY <4>1, <4>2 DEF Charged
    <3>2. StayInv'
      BY DEF StayInv, Working, Queued
    <3>3. CoverInv'
      BY DEF CoverInv, Buckets, Queued
    <3> QED
      BY <3>1, <3>2, <3>3 DEF ChargeInv
  <2> QED
    BY <2>1, <2>2
<1> QED
  BY <1>1, <1>2, CountInvariant, PTL DEF Spec

\* When every worker of a phase has exited, what is queued or in flight has cost as many
\* workers, unless it has cost all of them.
LEMMA LeftOver ==
    ASSUME IInv, CountInv, LeftInv, pc \in Waiting, \A w \in Workers : worker[w] = "exited",
           crashes + sortFailures < Cardinality(Workers)
    PROVE  /\ IsFiniteSet(Queued \cup inflight) /\ Cardinality(Queued \cup inflight) \in Nat
           /\ Cardinality(Queued \cup inflight) <= crashes + sortFailures
<1>1. Working = {} /\ Cardinality({}) = 0
  BY FS_EmptySet DEF Working
<1>2. crashes \in Nat /\ sortFailures \in Nat
  BY BoundsAssumption DEF CountInv, DataOK
<1>3. 0 + crashes + sortFailures = crashes + sortFailures
  BY <1>2
<1>4. Cardinality(Queued \cup inflight) <= crashes + sortFailures
  BY <1>1, <1>3 DEF LeftInv, StayInv
<1>5. IsFiniteSet(Queued \cup inflight)
  BY QueuedFinite, FS_Union DEF IInv, LostInv
<1> QED
  BY <1>4, <1>5, FS_CardinalityType

\* A phase whose patterns are queued, in flight or confirmed is then almost complete.
LEMMA PhaseLeft ==
    ASSUME IInv, CountInv, LeftInv, pc \in Waiting, \A w \in Workers : worker[w] = "exited",
           NEW S, S \subseteq Queued \cup inflight \cup confirmed
    PROVE  AlmostComplete(S)
<1> SUFFICES ASSUME crashes + sortFailures < Cardinality(Workers)
             PROVE  Cardinality(S \ confirmed) <= crashes + sortFailures
  BY DEF AlmostComplete
<1>1. /\ IsFiniteSet(Queued \cup inflight) /\ Cardinality(Queued \cup inflight) \in Nat
      /\ Cardinality(Queued \cup inflight) <= crashes + sortFailures
  BY LeftOver
<1>2. S \ confirmed \subseteq Queued \cup inflight
  OBVIOUS
<1>3. /\ Cardinality(S \ confirmed) <= Cardinality(Queued \cup inflight)
      /\ Cardinality(S \ confirmed) \in Nat
  BY <1>1, <1>2, FS_Subset, FS_CardinalityType
<1>4. crashes + sortFailures \in Nat
  <2>1. crashes \in Nat /\ sortFailures \in Nat
    BY BoundsAssumption DEF CountInv, DataOK
  <2> QED
    BY <2>1
<1>5. \A a, b, c \in Nat : a <= b /\ b <= c => a <= c
  OBVIOUS
<1> QED
  BY <1>1, <1>3, <1>4, <1>5

\* A phase ends when its workers have exited.
LEMMA PhaseEnds ==
    ASSUME IInv, Next, pc \in Waiting, pc' # pc
    PROVE  \A w \in Workers : worker[w] = "exited"
<1>1. CASE Main
  BY <1>1 DEF Main, Start, StageMap, SpawnMappers, WaitMappers, ClearUnprocessed, StageReduce,
          SpawnReducers, WaitReducers, BringDownServer, JoinServer, SpawnWorkers, PoolWait, Step,
          Waiting
<1>2. CASE Internal \/ HandleRequest
  BY <1>2, HandledQueues DEF Internal
<1>3. ASSUME NEW w \in Workers, Request(w) \/ Report(w) \/ RemoveOutput(w) \/ Crash(w)
      PROVE  pc' = pc
  BY <1>3 DEF Request, Report, RemoveOutput, Crash
<1> QED
  BY <1>1, <1>2, <1>3, InternalSteps DEF IInv, Next, Server, Work, Fails, WorksOn

-----------------------------------------------------------------------------
(* Theorems.                                                               *)

\* Every variable of the server, the workers and their files has its type, and the
\* bounds are kept (run, orchestrateWorkers, map, reduce).
THEOREM TypeCorrect == Spec => []TypeOK
<1> QED
  BY CountInvariant, TypesHold, PTL

\* The count of each word in the output of a confirmed bucket is how often it is in
\* the input, but for chunks that failures or losses have cost, and never more,
\* however chunks are retried (MapReduceMapper::map, MapReduceReducer::reduce,
\* rescheduleFilePattern).
THEOREM CountsAreRightCorrect == Spec => []CountsAreRight
<1> QED
  BY CountInvariant, CountsHold, PTL

\* When run() logs that a phase is complete, what it has not confirmed has cost a worker
\* each; and after the mappers nothing is left if none was lost (surfaceNextFilePattern,
\* rescheduleFilePattern, spawnMapper, MapReduceReducer::reduce).
THEOREM PhasesCompleteCorrect == Spec => PhasesComplete
<1> DEFINE Mapped == /\ AlmostComplete(Chunks)
                     /\ crashes = 0 => unprocessed = <<>> /\ inflight = {}
                     /\ crashes < Cardinality(Workers) =>
                           Cardinality({c \in Chunks : \E v \in Words : lines[c][v] # Occurs(c, v)})
                               <= failures + crashes
           A == /\ pc = "waitMap" /\ pc' # "waitMap" => Mapped
                /\ pc = "waitReduce" /\ pc' # "waitReduce" => AlmostComplete(Buckets)
<1>1. ASSUME IInv, CountInv, LeftInv, Next, pc = "waitMap", pc' # "waitMap"
      PROVE  Mapped
  <2>1. \A w \in Workers : worker[w] = "exited"
    BY <1>1, PhaseEnds DEF Waiting
  <2>2. Chunks \subseteq Queued \cup inflight \cup confirmed
    BY <1>1 DEF CountInv, DoneInv
  <2>3. AlmostComplete(Chunks)
    BY <1>1, <2>1, <2>2, PhaseLeft DEF Waiting
  <2>4. ASSUME crashes = 0 PROVE unprocessed = <<>> /\ inflight = {}
    <3>1. sortFailures = 0
      BY <1>1 DEF LeftInv, CoverInv, Staged
    <3>2. Cardinality(Workers) \in Nat /\ Cardinality(Workers) # 0
      BY WorkersAssumption, FS_CardinalityType, FS_EmptySet
    <3>3. crashes + sortFailures = 0 /\ crashes + sortFailures < Cardinality(Workers)
      BY <2>4, <3>1, <3>2
    <3>4. /\ IsFiniteSet(Queued \cup inflight) /\ Cardinality(Queued \cup inflight) \in Nat
          /\ Cardinality(Queued \cup inflight) <= 0
      BY <1>1, <2>1, <3>3, LeftOver DEF Waiting
    <3>5. Cardinality(Queued \cup inflight) = 0
      BY <3>4
    <3>6. Queued \cup inflight = {}
      BY <3>4, <3>5, FS_EmptySet
    <3>7. unprocessed \in Seq(Patterns)
      BY <1>1 DEF IInv, Types
    <3>8. unprocessed # <<>> => unprocessed[1] \in Queued
      <4>1. unprocessed # <<>> => 1 \in DOMAIN unprocessed
        BY <3>7
      <4> QED
        BY <4>1 DEF Queued
    <3> QED
      BY <3>6, <3>8
  <2>5. crashes < Cardinality(Workers) => Cardinality(Wrong) <= failures + crashes
    BY <1>1, <2>1, LossBegins DEF CountInv
  <2> QED
    BY <2>3, <2>4, <2>5 DEF Wrong
<1>2. ASSUME IInv, CountInv, LeftInv, Next, pc = "waitReduce", pc' # "waitReduce"
      PROVE  AlmostComplete(Buckets)
  <2>1. \A w \in Workers : worker[w] = "exited"
    BY <1>2, PhaseEnds DEF Waiting
  <2>2. Buckets \subseteq Queued \cup inflight \cup confirmed
    BY <1>2 DEF LeftInv, CoverInv
  <2> QED
    BY <1>2, <2>1, <2>2, PhaseLeft DEF Waiting
<1>3. IInv /\ CountInv /\ LeftInv /\ [Next]_vars => [A]_vars
  BY <1>1, <1>2
<1> QED
  BY <1>3, LeftInvariant, PTL DEF Spec, PhasesComplete
=============================================================================
