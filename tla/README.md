# A verification project for the CS110 systems

The repository holds seven assignments of a systems course, each a program of
its own: a reader of Unix V6 disk images, process plumbing and a farm of
workers, a shell with job control, a thread pool under a web crawler, a caching
HTTP proxy, a MapReduce framework, and a tunnelling proxy. What they share is
that their difficulty lies in the order of events: signals that interrupt,
threads that interleave, processes that end, messages that come late. This
directory models that part of them in TLA+, checks it with TLC and proves some
of it with TLAPS.

## Inventory

| Component | State | Operations | What is hard | What makes it correct |
|---|---|---|---|---|
| `ThreadPool` (assign4) | two queues under `qlock`, `jobNum` under `jobNumLock`, three semaphores, a condition variable, thread handles | `schedule`, `wait`, the destructor, the loops of `dispatcher` and `worker` | four kinds of threads; unlocked reads of `jobNum`; an empty queue as the order to exit; thunks that schedule thunks | FIFO, each thunk once, one per worker; `wait` comes back exactly when all is done; the destructor ends |
| Farm (assign2) | `workers[]` with their flags, `numWorkersAvailable`, the mask, the pipes | `spawnAllWorkers`, the broadcast loop, the SIGCHLD handler, waiting, closing | the handler interrupts everything that is not masked; one signal for several halts; inherited descriptors | the counter and the flags agree; no halt is missed; every number is factored and the farm ends, unless a line without a number aborts it |
| Subprocess, pipeline (assign2) | descriptors of two pipes | `subprocess`, `pipeline` | a descriptor left open keeps a reader waiting | each process holds exactly the ends it uses |
| MapReduce (assign6) | `unprocessed`, `inflight`, `serverIsRunning`, the listening socket; workers on other machines; the shared files | `run`, both spawn functions, `handleRequest` and what it calls, the loops of mappers and reducers, the destructor; the command line and the configuration | failures and retries, lost workers, reports on connections of their own, a flag written by two threads | every pattern is queued, in flight or confirmed; the counts in the output are those of the input; the job ends |
| `stsh` (assign3) | the job list, the signal mask, the terminal's group, the processes | `createJob`, `transferControl`, `fg bg slay halt cont`, three signal handlers | handlers interrupt the shell and each other; reports of siblings in any order | the list says what the processes do; one foreground job; the prompt comes back, with the terminal |
| Crawler (assign4: `archive.cc`, `whitelist.cc`) | `hasurl` under `docLock`, the robots.txt cache, a pool | `download`, `downloadWeb`, `canAccess` | an insertion without the lock that the search takes; thunks that schedule thunks over a cyclic graph; downloads that fail | every reachable document that may be accessed is indexed; the crawl ends |
| Index (assign4: `index.cc`, `document.cc`) | the map of documents under `indexLock`, and the files on disk | `addDocument`, `dumpMetadata`, loading, queries | the program ended between two writes; a list that is written anew each time | what is served is what will be loaded; what is listed was stored; what is indexed is shown |
| Crawl log (assign4: `log.cc`) | start times under a lock of its own | notes before and after a download | | |
| HTTP proxy (assign5; its main loop is in assign7 too) | a pool, the 997 locks of the cache, the connections | `serviceRequest`, `forwardRequestToProxy`, `cacheHTTP` | two locked sections per request with the network between; exceptions that end the process | no lock is kept; every request ends |
| HTTP cache (assign5, assign7; the two `cache.cc` are the same) | a directory per request hash, with one file named for its times | `containsCacheEntry`, `cacheEntry`, `clear` | expiry, `maxAge` of -1 and 0, a next run with other arguments, the process ended between two calls | one whole file per directory; an entry that is served has not expired |
| Tunnelling proxy (assign7) | the two sockets of a request with a stream each, and an epoll set | `serviceRequest`, `proxyPackets` | either side ends first, or one direction of it; bytes in buffers that epoll does not see; a wait of 30 seconds | what one side writes reaches the other, in order, and the tunnel ends |
| Unix V6 reader (assign1) | a disk image (never written) | `inode_iget`, `inode_indexlookup`, `file_getblock`, `directory_findname`, `pathname_lookup`, checksums | boundaries of the addressing schemes, names without terminator, removed entries, unreadable sectors | what is printed is what the disk holds |
| HTTP messages (assign5, assign7) | a request and a response | ingesting and printing header and payload, the blacklist, what may be cached | lines of one name, continuation lines, two formats of payload, a server that stops half way | the server is asked what the client asked, the client and the cache get what the server answered |
| Parsers, sockets, names | none that outlives a call | | | |
| Test programs | | clients of the above | | |

How they interact: the crawler, the proxy and the MapReduce server hand thunks
to a `ThreadPool` (the crawler's thunks schedule others); the farm starts its
workers through `subprocess`; the proxy keeps an HTTP cache under its own
locks; the MapReduce server starts each worker by a thunk that blocks in
`system`, and talks to it by messages; `stsh` talks to its processes by signals
and learns of them through `waitpid`.

`PROJECT.json` lists every component with its files and its status, and the
hazards, each at its line, with the properties that watch it.

## Modules

| Module | Models |
|---|---|
| `FifoExecutor` | what `thread-pool.h` promises, without threads |
| `ThreadPool` | `thread-pool.cc` |
| `ThreadPoolProofs`, `FarmProofs`, `StshProofs`, `ArchiveProofs`, `ProxyProofs`, `TunnelProofs`, `MapReduceProofs`, `UnixFSProofs` | proofs about the module of that name |
| `Farm` | `farm.cc` with `subprocess.cc` and `factor.py` |
| `MapReduceSetup` | the command line and configuration of the MapReduce server |
| `MapReduce` | server, mapper, reducer, worker and the word count executables |
| `Stsh` | `stsh.cc`, `stsh-job-list.cc`, `stsh-job.h`, `stsh-signal.cc` |
| `ProxySetup` | the command line of the two proxies |
| `Proxy` | `request-handler.cc`, `cache.cc`, `proxy.cc`, `main.cc` of assign5 |
| `Messages` | `header.cc`, `payload.cc`, `request.cc`, `response.cc`, `blacklist.cc` of assign5, and the order in which `request-handler.cc` uses them |
| `Tunnel` | `request-handler.cc`, `proxy.cc`, `client-socket.cc`, `main.cc` of assign7 |
| `Archive` | `archive.cc`, `whitelist.cc`, `index.cc`, `document.cc` |
| `UnixFS` | all of assign1 |
| `MC*` | instances for TLC: one module per model, one `.cfg` per run |

Definitions called *Mutant* in the modules are variants of the action they
precede, with a bug a programmer could have written there. No specification
uses them; they show that the property they are listed with in `PROJECT.json`
notices that bug.

### ThreadPool

A critical section is one step, because every access to the queues is under
`qlock` and every write of `jobNum` under `jobNumLock`; what the code does
between two locks is separate steps. So `schedule` is three steps
(`ScheduleCount`, `SchedulePush`, `ScheduleSignal`), and the end of a thunk is
five (`WorkerReturn`, `WorkerRelease`, `WorkerDiscount`, `WorkerCheck`,
`WorkerNotify`). The reads of `jobNum` without its lock (`WaitTest`,
`WorkerCheck`) are steps too: an aligned `size_t` is read in one access in any
build of this code. `cv.wait` is its test and its sleep (`WaitTest`,
`WaitBlock`), and may wake up for no reason (`SpuriousWakeup`). The owner calls
`schedule`, `wait` and the destructor in any order; a thunk may schedule others
at any time. `stage` is a history variable: it records how far each thunk has
come.

*Fairness.* Weak fairness of the dispatcher, of each worker and of the owner
inside a call: the operating system runs every thread that can run, and thunks
return. Nothing obliges the owner to call, or a spurious wakeup to happen.

### Farm

The parent's `main` is a sequence of labels, one per line that reads or writes
shared state or the mask; the handler is entered whenever SIGCHLD is pending and
not blocked, and then runs alone, one `waitpid` per step. `sigsuspend` gives the
mask up and takes it back in one step, as the kernel does. A child halts, is
resumed, reads a number, factors it and halts again; it sees the end of its
input when no process holds a write end of its pipe, and since `subprocess`
closes only its own ends, those are the parent and every child spawned later.
A line may be a number, or end the loop (`ReadEnd`: no line is left, or there is
something behind its number, `farm.cc:91`), or hold no number (`Abort`): `stoll`
throws at line 90, nothing catches it, and the farm is gone with its numbers. The
children that have asked to be killed with their parent (`ChildStarts`,
`factor.py:7`) then are; one that has not come to that line yet goes on, halts
itself, and nobody resumes it. `FarmEnds` therefore says: aborted, or done with
every number factored.
*Fairness*: parent and children are scheduled.

### MapReduce

The server thread handles one connection at a time, to its end, so that a call
of `handleRequest` is one step and the connections are a queue. The main thread
takes the steps of `run` and of the destructor, which runs next to the server
thread. A worker asks, waits, processes, spreads (mappers), reports, removes
its output and asks again. `ProcessFails`, `SortFails` and `Crash` are the
executable that returns nonzero, the `sort` that fails and the worker that is
lost, each bounded by a constant. The files hold what the word count puts in
them: `mapped` the output of a chunk, `lines` how often each of its words was
appended to the bucket files, `mid` and `output` the grouped values and the
counts of a bucket. Tokens are turned into words and words hashed into buckets
by functions that are constants. The pool is represented by what `pool.wait`
means here (every worker's command has returned). assign6 takes its pool from a
library of which only the header is at hand; that its `wait` returns is assumed
of it, and not taken from `ThreadPool`, whose `wait` may not. The code starts
`kNumWorkerThreads` workers, not `numMappers` as its comment says; `Workers` is
that set.

`Invocations` are the ways the server is started: its options in the order
`getopt_long` gives them, the configuration files that can be opened, and the
ports that are free. `MapReduceSetup` says which of them are accepted, and
`Start` either goes on with their number of buckets or ends the program.
*Fairness*: the two threads and the workers are scheduled; failures need not
happen.

### Stsh

One thread runs the commands; handlers are frames on a stack, each with the mask
to restore. A handler may be interrupted by another one whose signal is not
blocked, as SA_RESTART with an empty `sa_mask` allows. `childHandler` is one
step per `waitpid`. `createJob` forks and records in separate steps.
The kernel's side is what each process is doing (`kern`) and what `waitpid`
would say next (`note`; a later change replaces an earlier one that was not
collected, as in Linux). Any process may exit at any time and stop of itself.
`Sessions` are what a run of the shell consists of: the builtins that are used,
how many keys are typed, how many processes stop of themselves, and whether
stdin is a terminal; under `stsh-driver` it is a pipe, and `tcsetpgrp` fails
with ENOTTY, which is ignored.
Left out: the pipes of a pipeline and redirection, the race between the
parent's `setpgid` and the child's `exec`, an `exec` that fails, and what a
reference to an erased job would touch.
*Fairness*: the shell runs while it is inside a command or a handler, signals
that are not blocked are delivered, and every process ends in the end
(`PromptReturns` speaks of commands whose processes do).

### Proxy

A thread of the pool serves one request; its label says how far
`serviceRequest` has come. Taking a lock, giving it back, each call that
changes a directory of the cache, connecting and receiving are steps of their
own, because the process may end, or another thread look, between any two. A
directory is the set of its files; a file is the two times its name holds, and
whether it was written to its end. `Valid` and `ExpirationTime` are
`cachedEntryIsValid` and `getExpirationTime` with their arithmetic, -1 and 0
for `--max-age` included. A handler is declared `throw()`, so that an exception
which leaves it ends the process (`Throws`), as ^C does (`KillProxyServer`).
`Launch` is a start, the first or a later one, with any of `CommandLines`:
options take effect as they are read, so that `--clear-cache` empties the cache
even if a later option is refused or the port is taken. `Sum` wraps around at
`LongMax`. A request for a blacklisted server is `Forbid`; one whose
first line could not be read has the method `none`, and throws where it
connects. `opened` and `ttl` in a file are history, for `HitsAreFresh`.

*Fairness*: the threads of the pool run, and origin servers answer or hang up.
The mutexes are not fair, so that `RequestsEnd` speaks of the time after
clients have left off; while requests keep coming they may overtake one for
ever. Nothing obliges the clock to go on.

### Messages

A stream is a sequence of units: request or status line, field lines and their
continuations, empty lines, the sizes of chunks, and bytes. Reading it is an
operator that returns what is left, as `getline` and `read` leave the stream.
An exchange goes through `serviceRequest` and `forwardRequestToProxy` as a
sequence of reads and prints; where they block on a peer that sends no more
the exchange stays. Names are compared in lower case, a header is a function
from names (a `std::map`), a value is a sequence of words.

### Tunnel

Each direction has a place for a byte with the kernel, in the get area of one
stream, in the put area of the other, with the kernel again, and with the other
end; `proxyPackets` moves bytes between the middle ones, one `read`, `readsome`,
`write` or `flush` per step. `iosockstream` and the sockets are external, modelled
from their use: a get area is filled by one `read()`, `readsome` on an empty get
area may or may not look at the socket, and a stream has one state for both
directions. The ends send, receive, stop sending, and go, at any time.

*Fairness*: the thread runs, and an end that is there reads what it is sent;
nobody has to send, or to leave. Silence is the 30 seconds of `epoll_wait`.

### UnixFS

An image is given as its inodes with their kind and data, and `Layout` is what
format the headers give it on disk; a sector number is represented by what the
sector is for. The layers from `diskimg_readsector` to `pathname_lookup` are
operators which return `Failed` where the code returns -1. The two dumps are
steps, an inode or a directory entry at a time, with the stack of
`DumpPathAndChildren`. A name of 14 characters has no terminator, and what
`strcmp` finds behind it is chosen (`MayMatch`, `MustMatch`); so is what is read
where the code reads before an array (inode 0). A checksum is represented by the
contents it is of. `InodesListed` and `PathsListed` compare what is printed with
the image itself.

The code trusts the disk, and so does the model as far as it has to:
`WellFormed` says that there is a root, that no file is longer than its tables
have room for, and that the entries in use of a directory have different names
and name allocated inodes. Entries that were removed, names of any length,
sectors that cannot be read, large files that are small and trees with links
and cycles are all well formed. `FailedAssumption` says that -1 is none of the
values a call returns when it succeeds.

### Archive

The pool is what `FifoExecutor` says of it: a queue of URLs, workers that take
the first, and a `wait` that does not return while anything is queued or running
(`WaitReturns`). That it does return then is not assumed: the pool is the one of
`thread-pool.cc`, which may lose the wakeup (run `pool_wait`), and the crawl then
never leaves `archive.cc:27`. So `CrawlEnds` says that the queue runs empty and
the workers come to rest, and `CrawlIsComplete` what has been found once `wait`
has returned. A step
of `downloadWeb` is what a lock protects, or a download. `addDocument` holds
`indexLock` over several writes, and each of them is a step: truncating the
document's file, writing it, truncating `documents-list`, each line of it, and
giving the lock back; with `--mem-only` (`KeepOnly`) there is none of them.
The code does not look whether opening and writing these files succeeded
(`index.cc:63-65`); the model takes it that they do, so that `ListIsTrue` says
nothing of a full disk.
`Crash` ends the program anywhere and `Restart` loads what is listed. `ServeOnly`
is `main` without `--download`. `Shown` is the document the server shows for a
link, whose escapes the code resolves first (`Decoded`).

`hasurl.find` is called under `docLock` and `hasurl.insert` without it. What a
race of the two does to the set is chosen among what it can do: an insertion
may be lost, and a search may miss what is there (`MaxLost` bounds how often).
`fetched`, `stored` and `impolite` are history.

*Fairness*: the threads run; downloads end, since they have a timeout. There is
none for the return of `wait`, nor for crashes and restarts.

## Runs

`CHECK_DEADLOCK FALSE` everywhere: each of these programs ends.

| Run | Bounds | Shows |
|---|---|---|
| `pool` | 2 workers, 3 thunks | the counter and the tokens, `wait`, and that the pool implements `FifoExecutor`; under fairness every thunk runs, the destructor ends and a sleeper is woken. One thunk more than workers, so that the dispatcher has to wait |
| `pool_wait` | 1 worker, 1 thunk | `WaitReturns` fails: the lost wakeup |
| `farm` | 3 CPUs, up to 4 numbers | no halt is missed, no number goes to a running worker, the farm ends with every number factored or is aborted. A worker is used twice, and the chain of inherited descriptors has length two |
| `mr` | 3 workers, 2 chunks of 3 and 2 tokens with 2 words between them, 2 buckets; one failure, one failing `sort` and one lost worker; 18 ways to start, 2 of them good, one with `--map-only` | patterns are conserved and accounted for, the counts are right, both phases lose at most what failed, the server refuses or the job ends |
| `mr_remove` | 1 chunk | `ConfirmedMeansEmitted` fails |
| `stsh` | 2 jobs of up to 2 processes in four sessions: `fg bg cont` and one process that stops of itself, `slay halt cont`, no builtins and a stop, and one key with `bg` where stdin is a pipe | one foreground job at most, without keys or without a terminal; without keys, the list says what the processes do, jobs stay listed, a running job keeps the terminal, every command returns |
| `stsh_fg` | 1 job of up to 2 processes | `FgKeepsTerminal` fails |
| `proxy` | 2 requests, 1 hash and 1 lock, ten command lines, responses that may live 0 or 2 seconds, a clock up to 3, two starts | one whole file per directory, no directory changes under a request, no hit is too old, every request ends |
| `archive` | 2 threads, 5 URLs on 2 hosts, one failure, one lost race, one crash, with and without `--mem-only` | the queue runs empty and the workers come to rest; once `wait` returns the crawl is complete, and shown; the list on disk is what is served, and what is listed was stored |
| `unixfs` | 3 sectors of 2 inodes, 2 units to a sector, 3 addresses to an inode, 2 to a table; every size from 0 to 16 units; every root of up to 3 entries; trees of 3 levels; 11 choices of unreadable sectors | what is printed is true and complete; the dump fails only on a removed entry or a tree that is too deep |
| `tunnel` | 3 bytes up behind the header, 2 down, get areas of 2 bytes, room for 1 byte with the kernel | no byte is lost, doubled, crossed or reordered; what is held back; the tunnel ends |
| `messages` | headers of up to 3 lines out of 5 kinds, both ways; 6 payloads with a length or without, and a chunked one cut off anywhere | the server is asked what the client asked; the client is answered, and the cache holds, what the server said |

Why the bounds are enough: the code treats workers, thunks, chunks, requests and
jobs alike, and every comparison is between two of them or of a counter with
zero or with a total. Two of a kind show interference, a third shows a
bystander, and one more item than workers shows waiting. For the safety
properties that are theorems (see [Proofs](#proofs)) there are no bounds. In
`proxy` one hash is the case in which requests meet at all: directories of
different hashes have nothing in common, and a request never holds two locks, so
that hashes which share a lock only wait longer. Its times are chosen so that
`--max-age` is what decides in one behaviour and the response's own age in
another, and the clock passes both. The site of `archive` has a cycle, a page
that two pages link to, one whose URL has an escape, one that robots.txt
disallows and one that is not on the whitelist. The sizes of `unixfs` pass every
boundary there is: none, one and two levels of tables, a last sector that is
full and one that is not, a directory in two sectors and one with more entries
than `GetDirEntries` has room for; that real tables are longer changes where a
boundary is, not what happens there. In `tunnel` the get area holds less than is
sent, so that it is filled more than once, and the kernel blocks a flush. Three
header lines are the fewest in which a name comes twice with a continuation in
either place.

### Where the code disagrees with its documentation

Shown by runs, with the trace TLC finds:

* `pool_wait`: `notify_all` is called without `lk`; between the predicate and
  the sleep of `wait` it reaches nobody, and `wait` never returns.
* `mr_remove`: the output is removed after the report; it may be the next
  mapper's.
* `stsh_fg`: a job that `fg` continues may lose the terminal while running.

Also in the models, where the actions that do it say so, but in no run:

* Farm: a line without a number aborts it (`farm.cc:90`). A child that has not yet
  come to the `prctl` of `factor.py:7` is not killed then; it halts itself and
  stays, which is what the comment at `factor.py:4-6` says is avoided.
* MapReduce: SERVER_DONE is sent when nothing is queued, not when all is
  confirmed, so that the last failed pattern may be retried by the worker that
  failed, alone. A reducer whose `sort` fails leaves after its report; if the
  others have been sent home its bucket is never reduced, and the log says it
  was. The server thread sets `serverIsRunning` when it starts: if every worker
  was lost before it did, the destructor may already have cleared the flag, and
  its join never returns (`JobEnds` is checked with fewer losses than workers, and
  says nothing of this case). When every mapper is lost the chunks still queued
  are dropped, the reducers run, and the log says that all is complete (which is
  why `CountsAreRight` and `PhasesComplete` speak of fewer losses than workers).
  `--mapper ""` may be followed by a name, and `--map-only` still needs
  `--reducer`.
* `stsh`: the handlers of ^C and ^Z unblock SIGCHLD (`stsh.cc:143`) inside
  `createJob`: an assertion fails, or a job that has ended stays in the foreground
  (and is why `ListIsReal` and `PromptReturns` speak of sessions without keys).
  At a terminal there may even be two foreground jobs, although
  `stsh-job-list.h:67` counts on one: the report of a process that ends between
  `fork` and `addProcess` is dropped, the job is listed as running for ever, giving
  it the terminal fails with an exception, and the prompt returns with that job in
  the foreground while the next command starts another. `AtMostOneForeground`
  therefore leaves out sessions that have both keys and a terminal. The
  two-argument form of `cont` does the opposite of the other.
* Proxy: a request that hits the cache is answered, then forwarded and answered
  again. An exception ends the whole proxy, although `proxy.cc` says that it
  ignores one bad connection. A file that was half written when the proxy was
  ended is a hit for the next run, which is why `OneWholeFile` asks for whole
  files only up to then. With a `--max-age` near the largest `long` the sum in
  `cachedEntryIsValid` overflows and nothing is ever a hit, although `cache.h`
  takes any positive number.
* Messages: of header lines with one name only the last is kept, in both
  directions: all but one `Set-Cookie` are lost, and a `no-store` before
  another `Cache-Control`. A payload that ends with the connection is lost. One
  that is cut off is filled up with zeros. A POST is forwarded with its header
  and without its payload, and its hash changes on the way. A URL that does not
  begin with `http://` loses its first seven characters. Trailers are dropped.
* Tunnel: whatever the method, the header is read and thrown away. A connection
  that is closed before its first line ends the whole proxy. If the server
  cannot be reached the client is told 200 all the same. An end that stops
  sending closes both directions, and what is on its way is lost. A single byte
  is held back until more comes in that direction, and so is what the client
  sent right behind its header.
* Crawler: of two threads that download one URL, the map keeps the first
  document and the file gets the last. Ended while the list is written, the
  index forgets documents it had. A page that could not be downloaded is
  indexed as an empty one. When a robots.txt cannot be had it is taken for one
  that disallows nothing. A page whose URL has an escape is indexed with it,
  looked for without, and never shown.
* Unix V6 reader: the last inode of a disk is never dumped. A removed entry
  fails an assertion. A path with a name of 14 characters may not be found, and
  each level of directories takes 160 KB of stack.

Seen in the code and outside the models: the parent's `setpgid` may come after
the child's `exec` and fail, and the child never calls it; `createJob`, `fg`
and `bg` keep references into the job list that a handler may erase; a failed
`exec` throws in the child, which goes on as a second shell; ^C before the
foreground job has a process raises SIGINT in the shell itself, again and again;
`processNum` 0, and `close(fds[0][0])` with one command, read outside their
arrays. A chunk whose name does not end in `.input` is appended to the file it
is read from, for ever; a second job into one intermediate directory doubles
its counts; an executable with an absolute path is confirmed and then looked
for below the working directory. A second proxy started with `--clear-cache` empties
the cache of the first. The tunnel closes its descriptors twice. A page is logged
as empty when `parseHtml` throws, although its contents and links stay set; that
takes an allocation that fails. `generateFilename` writes a digest of 20 bytes
into 16. A client that is silent blocks a thread of the
pool in assign7, and one that connects to the MapReduce server blocks its only
one.

## Proofs

Every proof module `XProofs` extends its model `X`, and ends in the theorems of
this table. They hold for all values of the constants that satisfy the named
assumptions, and of the specification without fairness.

| Module | Assumptions | Theorems, and the properties they state |
|---|---|---|
| `ThreadPoolProofs` | `WorkersAssumption`, `JobsAssumption`, `ThreadsAssumption`: finite sets of workers (at least one) and thunks | `TypeCorrect` (`TypeOK`), `JobNumCorrect` (`JobNumCounts`), `WaitCorrect` (`WaitMeansDone`), `NoEarlyExitCorrect` (`NoEarlyExit`), `DispatchCorrect` (`DispatchedHaveWorkers`), `ImplementsExecutorCorrect` (`ImplementsExecutor`) |
| `FarmProofs` | `NumCPUsAssumption`, `MaxInputsAssumption`: at least one worker, any number of lines | `TypeCorrect` (`TypeOK`), `AvailableCountsCorrect`, `FeedsHaltedWorkerCorrect`, `NoHaltMissedCorrect` |
| `StshProofs` | `BoundsAssumption`: any number of jobs and size of pipelines, any set of sessions | `ListIsRealCorrect`, `JobStaysListedCorrect`, `AtMostOneForegroundCorrect`, `RunningJobKeepsTerminalCorrect` |
| `ArchiveProofs` | `SiteAssumption`, `ThreadsAssumption`: any site, whitelist and threads | `TypeCorrect`, `ListIsTrueCorrect`, `CrawlIsCompleteCorrect` |
| `ProxyProofs` | `CommandLineAssumption`, `CacheAssumption`, `FreeAssumption`: any requests, hashes, locks and command lines; a clock below `LongMax` | `DirectoryStaysPutCorrect`, `OneWholeFileCorrect`, `HitsAreFreshCorrect` |
| `TunnelProofs` | `TunnelAssumption`: any bytes, any room in the buffers | `NothingLostCorrect`, `HeldBackCorrect` |
| `MapReduceProofs` | `ChunksAssumption`, `WorkersAssumption`, `BoundsAssumption`: finite sets of chunks and workers (at least one), any words, buckets and tokens | `TypeCorrect` (`TypeOK`), `PatternsConservedCorrect`, `CountsAreRightCorrect`, `PhasesCompleteCorrect` |
| `UnixFSProofs` | `SizesAssumption`, `ImagesAssumption`, `FailedAssumption`: any well-formed images, any sizes of inodes, sectors and tables, any unreadable sectors and command lines | `UnixFSTypeCorrect`, `InodesListedCorrect`, `PathsListedCorrect`, `FailsOnlyOnCorrect` |

Where no property is named, it has the name of the theorem without `Correct`.
(`UnixFSTypeCorrect` is about `TypeInv` of the proof module.)
Each module has one inductive invariant `IInv` (for the last two theorems of
`MapReduceProofs` it is `IInv /\ CountInv /\ LeftInv`), the conjunction of named
parts, with a lemma per part (or per part and kind of step). Every part was
checked by TLC on the bounds of the module's run, and beyond them where that was
feasible.

**ThreadPool.** `JobNumCounts` is not inductive: a worker decrements `jobNum` for
the thunk in its local `f`, and only `Located` (every thunk is where its stage
says it is, and in one place only) shows that this thunk was outstanding until
then. `WaitCorrect` is an action property and follows from `IInv` in the state
before: when `jobNum` is zero no place can hold a thunk (`ZeroMeansQuiet`).
`NoEarlyExit` needs to know why a thread that has taken a token finds its queue
empty. `TokenInv` balances the semaphores: the tokens of `hasJob`, with the
workers that hold one, are the dispatched thunks and the destructor's tokens; the
same for `jobReady`; and `hasWorker` counts the workers that are not engaged.
With `Calm` (past the destructor's wait nothing appears any more) a thread that
finds its queue empty must hold a token of the destructor. `DispatchCorrect` is
the balance of `hasWorker`. The refinement maps the two queues of the pool, one
behind the other, to the one queue of `FifoExecutor`; moving a thunk from one to
the other is a stutter, and `Located` tells which thunks are running.

**Farm.** The mask is a function of the label of `main` (`MaskInv`), so that the
handler cannot come between a fork and the entry in `workers[]` (`SpawnInv`), nor
between the search for a worker and its end. The flags then say which workers
have halted and been reported (`HaltInv`), and the worker that was picked stays
such a one until it is continued (`FeedInv`), although SIGCHLD is let in before
that.

**stsh.** Without ^C and ^Z no handler runs in `createJob` (`KeptOutInv`), so that
a process is in the list before its first report; a report says what the
process is (`ReportInv`), and the list is right but for reports (`SeenInv`,
`RealInv`). A job that has been created then has a process that has not ended
(`AliveInv`), the terminal can be given to it, and `transferControl` waits until
nothing is in the foreground (`FgInv`). `AtMostOneForegroundCorrect` speaks of
sessions without keys, or without a terminal: `AtMostOneForeground` itself has
that condition (`Single`). Without it the property is false, and the attempt to
prove it showed the way to two foreground jobs that is described
[above](#where-the-code-disagrees-with-its-documentation). `TerminalInv` carries
the last theorem: in sessions without `fg`, a job that has been taken out of the
foreground has no process that runs or is about to.

**Crawler.** For the files: who writes the list has the lock (`LockInv`), and has
written its document before (`StoredInv`), so that the list names stored
documents wherever the program is ended (`ListInv`). For the crawl: a URL that is
to be found is in the index, or in the queue, in the hands of a thread, or among
the links that a thread has yet to schedule (`CrawlInv`); a thread that gives a
URL up because `hasurl` has it leaves it to a thread that has not
(`HasurlInv`). That is where the unlocked insertion could hurt, and does not:
what it loses makes a page be downloaded twice, never not at all. What a
robots.txt said when it was read (`RobotsInv`) is why nothing impolite is fetched
(`PoliteInv`).

**Proxy.** A request that is in a directory holds the lock of its hash (`LockInv`),
so that what it knows of the directory stays true (`DirectoryInv`); a file
enters an empty directory (`SingleInv`), under a name that tells its age
(`FileInv`), and when the proxy is not running nobody is in a directory
(`UpInv`). The theorems therefore include ^C and exceptions at any label, and
the next run with other arguments.

**Tunnel.** While both streams are good, what has arrived, what is in the four
places between, and what is to be sent is in this order what there was to send
(`BalanceInv`). When one fails that is lost, and what has arrived stays a prefix
of it (`PrefixInv`), since nothing is flushed any more (`FedInv`). For the second
theorem, a byte can stay in a put area only when it came alone (`HeldInv`), and a
get area is empty when the thread waits, but for what came with the header
(`AheadInv`).

**MapReduce.** A pattern in flight is with one worker or in one report
(`AccountInv`), unless a worker was lost with it, or before the answer with it
came (`LostInv`). A worker's messages are handled in order, so that one that is
told to exit has had its reports handled (`ReportInv`), and if no worker is lost
the second phase starts with nothing in flight and no message left (`PhaseInv`).
For `CountsAreRight`: a chunk is spread once at most, by a worker that then
reports success, since one that fails reports without spreading; so its lines
are never more than its words (`LinesInv`), and no retry counts a word twice.
They may be fewer, as `mr_remove` shows: a worker reports before it removes its
output, and the next attempt at a chunk that failed may lose what it has just
written. That takes a failure: all chunks but those of a set `F`, no larger than
the number of failures, are whole when they are reported (`FaultInv`). When the
mappers are through each was lost or told to exit, the latter when the queue was
empty; only chunks of `F` are queued after that. With a worker that was not
lost, the chunks that are not whole when the reducers start are thus as many as
failures and losses, at most (`LossInv`). After that the bucket files do not
change, no reducer works on a confirmed bucket (`DoneInv`), and its output is
what was grouped (`ResultInv`). The counts are sums over chunks; they are
compared as sizes of sets of pairs, one of which contains the other, or is
mapped into it one to one.

For `PhasesComplete`: who reports comes back for more, unless it is lost, or
leaves because its `sort` failed. So, counting from any message in the backlog
on, the patterns in flight that no worker at work has are no more than the
workers who have still to ask from there on, and the losses (`ChargeInv`; the
count has to be made from every message on, since a report is only handled
before the question of its own worker). When nothing is queued and a worker is
told to exit, its question is behind it, and each pattern in flight has another
worker or a loss of its own. From then on (`StayInv`) whatever fails is queued
for one of those who are left.

**Unix V6 reader.** Most of the proof is about the operators. A layer that
succeeds reads back what `Layout` has put there, and it fails only on a sector of
the inode that cannot be read (`InodeFound`, `SectorFound`, `BlockFound`); the
blocks of a file, cut where the file ends, are its contents (`Contents`); a name
that has its terminator is found at its first entry (`NameFound`). The lemmas
about blocks split a unit's place into block and offset, and a block's number into
table and offset, so that they hold for any sizes.
Then the walk. Each call on the stack that goes through its entries is about the
directory that its path leads to, and has printed its line (`OpenedInv`); the
calls are one below the other in the tree (`StackInv`, `LevelInv`), which is why an
overflow means that many levels. Lines are therefore true (`LineInv`). Nothing is
printed twice, because the path of any line below a call begins with the path of
the call and the name of an entry it has taken up, and the names of the entries in
use differ (`OnceInv`); everything is printed, because each entry that a call has
taken up and that a lookup finds has its line, but for the one it is at
(`ListedInv`, `RootInv`). The condition on names without terminator stays: what a
lookup in such a path finds is chance, and the proof has no more to say of it than
`PathsListed` has. `-i` is a loop, and `InodeInv` says what it has printed.
That the data of a file are what its blocks hold, and where a path leads, is an
induction over sequences. A theorem with an operator for a parameter cannot be
used; instead the numbers for which a claim fails are a set, and a non-empty set
of numbers has a least element (`LeastElement`, `SetInduction`, from
`WellFoundedInduction`). `pathname_lookup` and `Denoted` are recursive functions
for the same reason.

*Only model-checked.* Everything under fairness (the liveness properties of all
modules), since liveness and ENABLED are out of the prover's reach. `Messages`,
whose three properties compare the results of whole passes over a stream, folds
and recursive functions, with a reference that is one too: each pass would need
an induction over data like those of `UnixFS`, which has not been done. The two
`Setup` modules are tables of cases.

## Plan

1. *Done*: `ThreadPool` with `FifoExecutor`, `Farm`, `MapReduce` with its start
   and its word counts, `Stsh`, `Proxy` with its cache and its start, `Archive`
   with its index and what it serves, `Messages`, `Tunnel`, `UnixFS`.
2. *Done*: the proofs listed above; every safety property of `ThreadPool`, `Farm`,
   `Stsh`, `Archive`, `Proxy`, `Tunnel`, `MapReduce` and `UnixFS` is a theorem,
   but for those that runs show to fail.
3. If there is more to model: the pipes and the `setpgid` race of `Stsh`, and the
   other uses of `subprocess`.

## Not modelled

The crawl log, which nothing depends on; `pipeline.c` and the parts of
`subprocess` the farm does not use; the shell's grammar; the factorization; the
choice of machines and the names of files in assign6; HTML, the regular
expressions of lists and blacklists, and the wording of messages. Code that is
never called: `PrintDirectory` in assign1, `forwardRequestToProxy` and the cache
in assign7, `epoll-set`. Library work: sockets, SHA-1, the web server library.
What the operating system promises (signal delivery, `waitpid`, pipes, process
groups, sockets) is modelled where a component depends on it, from how the code
uses it.
