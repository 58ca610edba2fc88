------------------------------ MODULE MapReduce ------------------------------
(***************************************************************************)
(* The MapReduce system of assign6: the main thread of the server (run,    *)
(* spawnMappers, spawnReducer, the destructor), its server thread          *)
(* (orchestrateWorkers, handleRequest), and the mappers and reducers on    *)
(* other machines, each started by a thunk of the thread pool that blocks  *)
(* until it exits (spawnWorker).                                           *)
(*                                                                         *)
(* Messages.  Each message of a worker comes on a connection of its own.   *)
(* The server accepts connections one at a time, in order, and handles a   *)
(* request to its end before the next, so backlog is a queue of messages   *)
(* and one handler call is one step.  Only WORKER_READY is answered.       *)
(* JOB_INFO changes nothing but the log and is left out.                   *)
(*                                                                         *)
(* Files.  All machines share the directories.  A mapper's executable      *)
(* writes the pairs of a chunk, a word and a 1 each, into the chunk's      *)
(* output file; the mapper appends them to the chunk's bucket files, one   *)
(* by one, reports, and removes the output.  A reducer sorts and groups    *)
(* all files of a bucket into its mid file, from which the executable      *)
(* counts each word's values.  The executables are those of                *)
(* word-count-mapper.cc and word-count-reducer.cc: one that fails leaves   *)
(* no output.                                                              *)
(***************************************************************************)
EXTENDS Integers, Sequences, FiniteSets, MapReduceSetup

CONSTANTS Chunks,           \* the files of inputPath
          Tokens,           \* Tokens[c]: what operator>> reads from chunk c
          Word,             \* Word[t]: its letters and digits, in lower case
          Hash,             \* Hash[v]: the hash of a word
          Invocations,      \* the ways the server may be started
          Workers,          \* the kNumWorkerThreads workers of each phase
          MaxFailures,      \* bound: executables that return nonzero
          MaxSortFailures,  \* bound: sort | group-by-key that fails
          MaxCrashes,       \* bound: workers lost, ssh unreachable
          NoPattern, Nobody

SplitValues == {SplitValue(inv) : inv \in {i \in Invocations : Starts(i)}}
BucketPatterns == UNION {0..(n - 1) : n \in SplitValues}
Patterns == Chunks \cup BucketPatterns
Words == DOMAIN Hash

ASSUME ChunksAssumption == IsFiniteSet(Chunks) /\ Chunks \cap BucketPatterns = {}
ASSUME WorkersAssumption == IsFiniteSet(Workers) /\ Workers # {}
ASSUME BoundsAssumption ==
    /\ Tokens \in [Chunks -> Seq(DOMAIN Word)] /\ Hash \in [Words -> Nat]
    /\ Word \in [DOMAIN Word -> Words \cup {Empty}] /\ Empty \notin Words
    /\ NoPattern \notin Patterns /\ Nobody \notin Workers
    /\ MaxFailures \in Nat /\ MaxSortFailures \in Nat /\ MaxCrashes \in Nat

VARIABLES
    mapOnly, splitValue,
    pc,               \* where the server's main thread is
    serverThread,     \* "none", "created", "accepting", "stopped"
    serverIsRunning,
    listening,        \* the server socket has not been shut down
    unprocessed, inflight,
    backlog,          \* connections not yet handled, with their message
    worker,           \* worker[w]: where it is
    pattern,          \* pattern[w]: the file pattern it works on
    success,          \* success[w]: the outcome it is about to report
    leaving,          \* the reducer that returns after its report
    spread,           \* spread[w]: the token whose pair it has read last, 0 for none
    mapped,           \* mapped[c]: the executable's output for c exists
    lines,            \* lines[c][v]: lines of v in the bucket files of c
    mid, output,      \* the files of a bucket: v's values, and their count
    confirmed,        \* history: patterns marked as processed in this phase
    failures, sortFailures, crashes    \* how much of each bound is used

queues == <<unprocessed, inflight>>
settings == <<mapOnly, splitValue>>
server == <<serverThread, serverIsRunning, listening, settings>>
workers == <<worker, pattern, success, leaving, spread>>
results == <<mid, output>>
files == <<mapped, lines, results>>
bounds == <<failures, sortFailures, crashes>>
vars == <<pc, server, queues, backlog, workers, files, confirmed, bounds>>

MainPc == {"start", "failed", "stageMap", "spawnMap", "waitMap", "clear",
           "stageReduce", "spawnReduce", "waitReduce", "bringDown", "join", "ended"}
WorkerPc == {"none", "request", "await", "process", "open", "spread",
             "report", "remove", "sort", "reduce", "exited"}
Message == [type : {"ready"}, from : Workers \cup {Nobody}, pattern : {NoPattern}]
              \cup [type : {"unknown"}, from : {Nobody}, pattern : {NoPattern}]
              \cup [type : {"succeeded", "failed"}, from : {Nobody}, pattern : Patterns]

\* Counts of words; a file that is not there has none.
NoFile == [v \in {} |-> 0]
Counts == [Words -> Nat]

TypeOK ==
    /\ mapOnly \in BOOLEAN /\ splitValue \in SplitValues \cup {0}
    /\ pc \in MainPc
    /\ serverThread \in {"none", "created", "accepting", "stopped"}
    /\ serverIsRunning \in BOOLEAN /\ listening \in BOOLEAN
    /\ unprocessed \in Seq(Patterns) /\ inflight \in SUBSET Patterns
    /\ backlog \in Seq(Message)
    /\ worker \in [Workers -> WorkerPc]
    /\ pattern \in [Workers -> Patterns \cup {NoPattern}]
    /\ success \in [Workers -> BOOLEAN] /\ leaving \in [Workers -> BOOLEAN]
    /\ spread \in [Workers -> Nat]
    /\ mapped \in [Chunks -> BOOLEAN] /\ lines \in [Chunks -> Counts]
    /\ mid \in [BucketPatterns -> Counts \cup {NoFile}]
    /\ output \in [BucketPatterns -> Counts \cup {NoFile}]
    /\ confirmed \in SUBSET Patterns
    /\ failures \in 0..MaxFailures /\ sortFailures \in 0..MaxSortFailures
    /\ crashes \in 0..MaxCrashes

\* The intermediate directory is empty: a job appends to what it finds there.
Init ==
    /\ mapOnly = FALSE /\ splitValue = 0
    /\ pc = "start"
    /\ serverThread = "none" /\ serverIsRunning = FALSE /\ listening = FALSE
    /\ unprocessed = <<>> /\ inflight = {} /\ backlog = <<>>
    /\ worker = [w \in Workers |-> "none"]
    /\ pattern = [w \in Workers |-> NoPattern]
    /\ success = [w \in Workers |-> FALSE]
    /\ leaving = [w \in Workers |-> FALSE]
    /\ spread = [w \in Workers |-> 0]
    /\ mapped = [c \in Chunks |-> FALSE]
    /\ lines = [c \in Chunks |-> [v \in Words |-> 0]]
    /\ mid = [b \in BucketPatterns |-> NoFile]
    /\ output = [b \in BucketPatterns |-> NoFile] /\ confirmed = {}
    /\ failures = 0 /\ sortFailures = 0 /\ crashes = 0

Mapping == pc \in {"stageMap", "spawnMap", "waitMap"}
Step(from, to) == pc = from /\ pc' = to

\* publishWordCountPairs(): the tokens of a chunk that become a pair, in order, and
\* those of them that come behind the token i.
PairsOf(c) == {i \in DOMAIN Tokens[c] : Word[Tokens[c][i]] # Empty}
PairsBehind(c, i) == {j \in PairsOf(c) : j > i}

\* The bucket file of a chunk a word goes to.
BucketOf(v) == Hash[v] % splitValue

\* cat *.b.mapped | sort | group-by-key.py: the values of each word of bucket b, one
\* from each line of it, which aggregateAndPublishWordCount() counts.
LinesOf(v) == UNION {{c} \X (1..lines[c][v]) : c \in Chunks}
Grouped(b) == [v \in Words |-> IF BucketOf(v) = b THEN Cardinality(LinesOf(v)) ELSE 0]

-----------------------------------------------------------------------------
(* The main thread: run() and the destructor.                              *)

\* The constructor: settings are made, the socket is bound and the server thread
\* created; or an exception ends the program.
Start ==
    /\ pc = "start"
    /\ \E inv \in Invocations :
          IF Starts(inv)
          THEN /\ mapOnly' = MapOnly(inv) /\ splitValue' = SplitValue(inv)
               /\ pc' = "stageMap"
               /\ serverThread' = "created" /\ listening' = TRUE
               /\ UNCHANGED serverIsRunning
          ELSE pc' = "failed" /\ UNCHANGED server
    /\ UNCHANGED <<queues, backlog, workers, files, confirmed, bounds>>

\* The orders in which readdir may list a set.
Listings(S) == {s \in [1..Cardinality(S) -> S] : \A c \in S : \E i \in DOMAIN s : s[i] = c}

\* stageFiles(inputPath, unprocessed)
StageMap ==
    /\ Step("stageMap", "spawnMap")
    /\ unprocessed' \in Listings(Chunks)
    /\ UNCHANGED <<server, inflight, backlog, workers, files, confirmed, bounds>>

\* The loop of pool.schedule: every worker is on its way to its first request.
SpawnWorkers(from, to) ==
    /\ Step(from, to)
    /\ worker' = [w \in Workers |-> "request"]
    /\ UNCHANGED <<server, queues, backlog, pattern, success, leaving, spread,
                   files, confirmed, bounds>>

SpawnMappers == SpawnWorkers("spawnMap", "waitMap")

\* pool.wait(): each thunk has seen its ssh command return.  The pool is a library
\* of which assign6 has the header; its wait() is taken to come back then.
PoolWait(from, to) ==
    /\ Step(from, to)
    /\ \A w \in Workers : worker[w] = "exited"
    /\ UNCHANGED <<server, queues, backlog, workers, files, confirmed, bounds>>

WaitMappers == PoolWait("waitMap", IF mapOnly THEN "bringDown" ELSE "clear")

\* unprocessed.clear(), and then one push_back per bucket.
ClearUnprocessed ==
    /\ Step("clear", "stageReduce")
    /\ unprocessed' = <<>>
    /\ confirmed' = {}
    /\ UNCHANGED <<server, inflight, backlog, workers, files, bounds>>

\* Mutant: the last bucket is not staged.
StageReduceFewer ==
    /\ Step("stageReduce", "spawnReduce")
    /\ unprocessed' = unprocessed \o [i \in 1..(splitValue - 1) |-> i - 1]
    /\ UNCHANGED <<server, inflight, backlog, workers, files, confirmed, bounds>>

StageReduce ==
    /\ Step("stageReduce", "spawnReduce")
    /\ unprocessed' = unprocessed \o [i \in 1..splitValue |-> i - 1]
    /\ UNCHANGED <<server, inflight, backlog, workers, files, confirmed, bounds>>

SpawnReducers == SpawnWorkers("spawnReduce", "waitReduce")

WaitReducers == PoolWait("waitReduce", "bringDown")

\* Mutant: the socket is shut down, and the flag of the accept loop forgotten.
BringDownSocketOnly ==
    /\ Step("bringDown", "join")
    /\ listening' = FALSE
    /\ UNCHANGED <<serverThread, serverIsRunning, settings, queues, backlog,
                   workers, files, confirmed, bounds>>

\* bringDownServer()
BringDownServer ==
    /\ Step("bringDown", "join")
    /\ serverIsRunning' = FALSE /\ listening' = FALSE
    /\ UNCHANGED <<serverThread, settings, queues, backlog, workers, files,
                   confirmed, bounds>>

JoinServer ==
    /\ Step("join", "ended")
    /\ serverThread = "stopped"
    /\ UNCHANGED <<server, queues, backlog, workers, files, confirmed, bounds>>

-----------------------------------------------------------------------------
(* The server thread: orchestrateWorkers().                                *)

ServerStarts ==
    /\ serverThread = "created"
    /\ serverThread' = "accepting" /\ serverIsRunning' = TRUE
    /\ UNCHANGED <<pc, listening, settings, queues, backlog, workers, files,
                   confirmed, bounds>>

\* accept has come back, with a connection or because of the shutdown.
ServerStops ==
    /\ serverThread = "accepting" /\ ~serverIsRunning
    /\ serverThread' = "stopped"
    /\ UNCHANGED <<pc, serverIsRunning, listening, settings, queues, backlog,
                   workers, files, confirmed, bounds>>

\* The message handleRequest is given next.  A listening socket that was shut
\* down gives no more, and accept fails at once, again and again.
Receives(type) ==
    /\ serverThread = "accepting" /\ serverIsRunning /\ listening
    /\ backlog # <<>> /\ Head(backlog).type = type
    /\ backlog' = Tail(backlog)

\* The answer goes to the worker that asked, unless that one is gone.
Reply(w, label, p) ==
    IF w # Nobody
    THEN /\ worker' = [worker EXCEPT ![w] = label]
         /\ pattern' = [pattern EXCEPT ![w] = p]
    ELSE UNCHANGED <<worker, pattern>>

\* WORKER_READY, surfaceNextFilePattern() true: JOB_START.
HandleReadyStart ==
    /\ Receives("ready") /\ unprocessed # <<>>
    /\ unprocessed' = Tail(unprocessed)
    /\ inflight' = inflight \cup {Head(unprocessed)}
    /\ Reply(Head(backlog).from, IF Mapping THEN "process" ELSE "sort", Head(unprocessed))
    /\ UNCHANGED <<pc, server, success, leaving, spread, files,
                   confirmed, bounds>>

\* WORKER_READY, surfaceNextFilePattern() false: SERVER_DONE.
HandleReadyDone ==
    /\ Receives("ready") /\ unprocessed = <<>>
    /\ Reply(Head(backlog).from, "exited", NoPattern)
    /\ UNCHANGED <<pc, server, queues, success, leaving, spread, files,
                   confirmed, bounds>>

\* JOB_SUCCEEDED: markFilePatternAsProcessed()
HandleSucceeded ==
    /\ Receives("succeeded")
    /\ inflight' = inflight \ {Head(backlog).pattern}
    /\ confirmed' = confirmed \cup {Head(backlog).pattern}
    /\ UNCHANGED <<pc, server, unprocessed, workers, files, bounds>>

\* Mutant: the pattern that failed stays in flight.
HandleFailedKeepsInflight ==
    /\ Receives("failed")
    /\ unprocessed' = Append(unprocessed, Head(backlog).pattern)
    /\ UNCHANGED <<pc, server, inflight, workers, files, confirmed, bounds>>

\* JOB_FAILED: rescheduleFilePattern()
HandleFailed ==
    /\ Receives("failed")
    /\ inflight' = inflight \ {Head(backlog).pattern}
    /\ unprocessed' = Append(unprocessed, Head(backlog).pattern)
    /\ UNCHANGED <<pc, server, workers, files, confirmed, bounds>>

\* receiveMessage() finds no message of the protocol: the connection of a worker
\* that was lost before it wrote a line.
HandleUnknown ==
    /\ Receives("unknown")
    /\ UNCHANGED <<pc, server, queues, workers, files, confirmed, bounds>>

-----------------------------------------------------------------------------
(* The workers: map(), reduce(), requestInput(), notifyServer().           *)

\* from is who waits for an answer on the connection.
Sends(from, t, p) == Append(backlog, [type |-> t, from |-> from, pattern |-> p])

Request(w) ==
    /\ worker[w] = "request"
    /\ backlog' = Sends(w, "ready", NoPattern)
    /\ worker' = [worker EXCEPT ![w] = "await"]
    /\ UNCHANGED <<pc, server, queues, pattern, success, leaving, spread, files,
                   confirmed, bounds>>

\* processInput() of a mapper: the output file is opened for writing, and stays
\* only if the executable succeeds.
Processed(w, ok, kept) ==
    /\ worker[w] = "process"
    /\ worker' = [worker EXCEPT ![w] = "open"]
    /\ success' = [success EXCEPT ![w] = ok]
    /\ mapped' = [mapped EXCEPT ![pattern[w]] = kept]
    /\ UNCHANGED <<pc, server, queues, backlog, pattern, leaving, spread, lines,
                   results, confirmed, sortFailures, crashes>>

ProcessOK(w) == Processed(w, TRUE, TRUE) /\ UNCHANGED failures

\* Mutant: an executable that fails leaves its output behind.
ProcessFailsDirty(w) ==
    /\ failures < MaxFailures /\ failures' = failures + 1
    /\ Processed(w, FALSE, TRUE)

ProcessFails(w) ==
    /\ failures < MaxFailures /\ failures' = failures + 1
    /\ Processed(w, FALSE, FALSE)

\* map() opens the output, whether or not the executable succeeded; one that is
\* missing reads as an empty one.
OpenOutput(w) ==
    /\ worker[w] = "open"
    /\ worker' = [worker EXCEPT ![w] =
          IF mapped[pattern[w]] /\ PairsOf(pattern[w]) # {} THEN "spread" ELSE "report"]
    /\ UNCHANGED <<pc, server, queues, backlog, pattern, success, leaving, spread,
                   files, confirmed, bounds>>

\* One pair, to the end of its bucket file, which is opened for it and closed.
Spread(w) ==
    LET c == pattern[w]  rest == PairsBehind(c, spread[w])
    IN /\ worker[w] = "spread"
       /\ \E i \in rest :
             /\ \A j \in rest : i <= j
             /\ lines' = [lines EXCEPT ![c][Word[Tokens[c][i]]] = @ + 1]
             /\ spread' = [spread EXCEPT ![w] = IF rest = {i} THEN 0 ELSE i]
             /\ worker' = [worker EXCEPT ![w] = IF rest = {i} THEN "report" ELSE "spread"]
       /\ UNCHANGED <<pc, server, queues, backlog, pattern, success, leaving,
                      mapped, results, confirmed, bounds>>

\* A file of a bucket is written.  (A chunk rescheduled after unprocessed.clear()
\* is sorted like a bucket, into files of its own that nothing reads.)
Written(file, p, counts) ==
    IF p \in DOMAIN file THEN [file EXCEPT ![p] = counts] ELSE file

\* sortandgroup() and the mid file it writes.
Sort(w) ==
    /\ worker[w] = "sort"
    /\ worker' = [worker EXCEPT ![w] = "reduce"]
    /\ mid' = Written(mid, pattern[w], Grouped(pattern[w]))
    /\ UNCHANGED <<pc, server, queues, backlog, pattern, success, leaving, spread,
                   mapped, lines, output, confirmed, bounds>>

\* sortandgroup() fails in a reducer, which reports that and returns.  The shell
\* has made the mid file, and nothing removes it.
SortFails(w) ==
    /\ worker[w] = "sort" /\ sortFailures < MaxSortFailures
    /\ worker' = [worker EXCEPT ![w] = "report"]
    /\ success' = [success EXCEPT ![w] = FALSE]
    /\ leaving' = [leaving EXCEPT ![w] = TRUE]
    /\ mid' = Written(mid, pattern[w], [v \in Words |-> 0])
    /\ sortFailures' = sortFailures + 1
    /\ UNCHANGED <<pc, server, queues, backlog, pattern, spread, mapped, lines,
                   output, confirmed, failures, crashes>>

\* processInput() of a reducer, and remove(mid.c_str()).
Reduced(w, ok) ==
    /\ worker[w] = "reduce"
    /\ worker' = [worker EXCEPT ![w] = "report"]
    /\ success' = [success EXCEPT ![w] = ok]
    /\ output' = Written(output, pattern[w], IF ok THEN mid[pattern[w]] ELSE NoFile)
    /\ mid' = Written(mid, pattern[w], NoFile)
    /\ UNCHANGED <<pc, server, queues, backlog, pattern, leaving, spread, mapped,
                   lines, confirmed, sortFailures, crashes>>

ReduceOK(w) == Reduced(w, TRUE) /\ UNCHANGED failures

ReduceFails(w) ==
    /\ failures < MaxFailures /\ failures' = failures + 1
    /\ Reduced(w, FALSE)

\* What follows notifyServer(), which waits for no answer.
Notified(w) ==
    /\ worker' = [worker EXCEPT ![w] = CASE leaving[w] -> "exited"
                                         [] Mapping    -> "remove"
                                         [] OTHER      -> "request"]
    /\ pattern' = IF Mapping THEN pattern ELSE [pattern EXCEPT ![w] = NoPattern]
    /\ leaving' = [leaving EXCEPT ![w] = FALSE]
    /\ success' = [success EXCEPT ![w] = FALSE]

Verdict(w) == IF success[w] THEN "succeeded" ELSE "failed"

\* Mutant: the report no longer knows the pattern.
ReportNothing(w) ==
    /\ worker[w] = "report"
    /\ backlog' = Sends(Nobody, Verdict(w), NoPattern) /\ Notified(w)
    /\ UNCHANGED <<pc, server, queues, spread, files, confirmed, bounds>>

Report(w) ==
    /\ worker[w] = "report"
    /\ backlog' = Sends(Nobody, Verdict(w), pattern[w]) /\ Notified(w)
    /\ UNCHANGED <<pc, server, queues, spread, files, confirmed, bounds>>

\* remove(output.c_str()), after the report, when the chunk may already be in
\* the hands of another mapper.
RemoveOutput(w) ==
    /\ worker[w] = "remove"
    /\ worker' = [worker EXCEPT ![w] = "request"]
    /\ mapped' = [mapped EXCEPT ![pattern[w]] = FALSE]
    /\ pattern' = [pattern EXCEPT ![w] = NoPattern]
    /\ UNCHANGED <<pc, server, queues, backlog, success, leaving, spread, lines,
                   results, confirmed, bounds>>

\* The worker is lost, or ssh never reaches its machine: spawnWorker() logs
\* the status and returns.  What it has sent stays in the backlog, and what it
\* has written in the files; it may have connected, and sent nothing.
Crash(w) ==
    /\ worker[w] \notin {"none", "exited"} /\ crashes < MaxCrashes
    /\ \/ backlog' = [i \in DOMAIN backlog |->
                         IF backlog[i].from = w THEN [backlog[i] EXCEPT !.from = Nobody]
                         ELSE backlog[i]]
       \/ worker[w] # "await" /\ backlog' = Sends(Nobody, "unknown", NoPattern)
    /\ worker' = [worker EXCEPT ![w] = "exited"]
    /\ pattern' = [pattern EXCEPT ![w] = NoPattern]
    /\ leaving' = [leaving EXCEPT ![w] = FALSE]
    /\ success' = [success EXCEPT ![w] = FALSE]
    /\ spread' = [spread EXCEPT ![w] = 0]
    /\ crashes' = crashes + 1
    /\ UNCHANGED <<pc, server, queues, files, confirmed, failures, sortFailures>>

-----------------------------------------------------------------------------
Main == \/ Start \/ StageMap \/ SpawnMappers \/ WaitMappers
        \/ ClearUnprocessed \/ StageReduce \/ SpawnReducers \/ WaitReducers
        \/ BringDownServer \/ JoinServer

HandleRequest == \/ HandleReadyStart \/ HandleReadyDone
                 \/ HandleSucceeded \/ HandleFailed \/ HandleUnknown

Server == ServerStarts \/ ServerStops \/ HandleRequest

Work(w) == \/ Request(w) \/ Report(w)
           \/ ProcessOK(w) \/ OpenOutput(w) \/ Spread(w) \/ RemoveOutput(w)
           \/ Sort(w) \/ ReduceOK(w)
Fails(w) == ProcessFails(w) \/ SortFails(w) \/ ReduceFails(w)

Next == Main \/ Server \/ \E w \in Workers : Work(w) \/ Fails(w) \/ Crash(w)

Spec == Init /\ [][Next]_vars

\* The threads of the server and the workers are scheduled; nothing has to fail.
FairSpec == /\ Spec
            /\ WF_vars(Main) /\ WF_vars(Server)
            /\ \A w \in Workers : WF_vars(Work(w) \/ Fails(w))

-----------------------------------------------------------------------------
(* Properties.                                                             *)

\* The patterns of the phase that is going on.
Buckets == 0..(splitValue - 1)
Current == IF pc = "waitMap" THEN Chunks
           ELSE IF pc = "waitReduce" THEN Buckets ELSE {}
Queued == {unprocessed[i] : i \in DOMAIN unprocessed}

Reported(p) == {i \in DOMAIN backlog : backlog[i].pattern = p}
Holders(p) == {w \in Workers : pattern[w] = p /\ worker[w] # "remove"}
Accounts(p) == Cardinality(Reported(p)) + Cardinality(Holders(p))

\* While workers run, and until one is lost, each pattern of the phase is in
\* exactly one place: queued (once), in flight, or confirmed.  And one in flight
\* is with one worker, or its one report is on the way: one that nobody is going
\* to report is never processed, and only the loss of a worker leaves one such;
\* one that two report would be processed twice.
PatternsConserved ==
    /\ pc \in {"waitMap", "waitReduce"} /\ crashes = 0 =>
          /\ Queued \cup inflight \cup confirmed = Current
          /\ Queued \cap inflight = {} /\ Queued \cap confirmed = {}
          /\ inflight \cap confirmed = {}
          /\ Cardinality(Queued) = Len(unprocessed)
    /\ \A p \in inflight : Accounts(p) <= 1
    /\ Cardinality({p \in inflight : Accounts(p) = 0}) <= crashes

\* The reference: where a word is in a chunk, and how often it is there and in a
\* set of chunks.
Places(c, v) == {i \in DOMAIN Tokens[c] : Word[Tokens[c][i]] = v}
Occurs(c, v) == Cardinality(Places(c, v))
Total(S, v) == Cardinality(UNION {{c} \X Places(c, v) : c \in S})

\* What the job is for: the count in the output of a confirmed bucket is how
\* often the word is in the input, but for chunks lost, each to a failure or a
\* crash; and no word is ever counted twice, although the bucket files are
\* appended to and chunks are mapped again.  (When every worker has been lost
\* the chunks still queued are mapped by nobody, and the reducers run all the
\* same.)
CountsAreRight ==
    crashes < Cardinality(Workers) =>
      \E S \in SUBSET Chunks :
        /\ Cardinality(Chunks \ S) <= failures + crashes
        /\ \A b \in confirmed \ Chunks : \A v \in {u \in Words : BucketOf(u) = b} :
              output[b] # NoFile /\ output[b][v] \in Total(S, v)..Total(Chunks, v)

\* With a worker left over, what each lost worker, and each reducer that leaves
\* because its sort failed, costs a phase is at most one pattern.
AlmostComplete(phase) ==
    crashes + sortFailures < Cardinality(Workers)
        => Cardinality(phase \ confirmed) <= crashes + sortFailures

\* When "Mapping of all input chunks now complete." is logged every chunk has
\* been confirmed, however often the executables failed, and its pairs are in
\* the buckets or have cost a failure or a crash; when "Reducing of all input
\* chunks now complete." is, every bucket of numMappers * numReducers has been
\* reduced.
PhasesComplete ==
    [][/\ pc = "waitMap" /\ pc' # "waitMap" =>
             /\ AlmostComplete(Chunks)
             /\ crashes = 0 => unprocessed = <<>> /\ inflight = {}
             /\ crashes < Cardinality(Workers) =>
                   Cardinality({c \in Chunks : \E v \in Words : lines[c][v] # Occurs(c, v)})
                       <= failures + crashes
       /\ pc = "waitReduce" /\ pc' # "waitReduce" => AlmostComplete(Buckets)]_vars

\* markFilePatternAsProcessed() "Acknowledges that the worker spinning on the
\* remote machine ... managed to fully process the supplied file pattern"
\* (mapreduce-server.cc): the pairs of a confirmed chunk are in the buckets.
ConfirmedMeansEmitted ==
    Mapping => \A c \in Chunks \cap confirmed : \A v \in Words : lines[c][v] = Occurs(c, v)

\* However the server is started, it refuses, or the whole job ends, with and
\* without the reduce phase: every worker is told to exit, each phase ends, and
\* the server thread answers the destructor, as long as there is a worker it had
\* to answer before.  (If every worker is lost before that thread sets its flag,
\* the destructor may have cleared it already, and the join never returns.)
JobEnds == <>(pc \in {"failed", "ended"})
=============================================================================
