-------------------------------- MODULE Farm --------------------------------
(***************************************************************************)
(* The farm of assign2 (farm.cc): a parent that feeds numbers to one       *)
(* self-halting factor.py per CPU, and learns from SIGCHLD which of them   *)
(* have halted again.  The parent is one thread that its signal handler    *)
(* interrupts; the children are processes of their own (subprocess.cc,     *)
(* factor.py), each reading its numbers from a pipe.                       *)
(*                                                                         *)
(* A number is one line in a pipe.  A line that starts with a number and   *)
(* has more after it ends the parent's loop as the end of the input does;  *)
(* a line that does not start with one (or is empty, or out of range) ends *)
(* the parent: stoll throws and nothing catches.  Apart from what that     *)
(* does to the children, none is killed from outside.                      *)
(***************************************************************************)
EXTENDS Integers, FiniteSets

CONSTANTS NumCPUs,     \* kNumCPUs, the number of workers
          MaxInputs    \* bound: lines the parent is given

ASSUME NumCPUsAssumption == NumCPUs \in Nat \ {0}
ASSUME MaxInputsAssumption == MaxInputs \in Nat

Workers == 1..NumCPUs            \* in the order in which they are spawned

VARIABLES
    \* the parent
    pc,          \* where its main program is
    cur,         \* its loop variable i, or the worker it picked
    available,   \* workers[i].available
    assigned,    \* workers[i].sp holds the child's pid and descriptor
    numWorkersAvailable,
    supplyOpen,  \* workers[i].sp.supplyfd is open
    sent,        \* history: numbers written
    \* the kernel's view of the parent's signals
    blocked,     \* SIGCHLD is in the mask
    pending,     \* SIGCHLD has been raised and not delivered
    handling,    \* markWorkersAsAvailable is running
    \* the children
    state,
    unreported,  \* has halted, and waitpid has not told so
    pipe,        \* lines in the child's stdin
    factored     \* history: numbers factored

main == <<pc, cur, available, assigned, numWorkersAvailable, supplyOpen, sent>>
signals == <<blocked, pending, handling>>
children == <<state, unreported, pipe, factored>>
vars == <<main, signals, children>>

States == {"absent", "starting", "halting", "stopped", "reading", "factoring",
           "exited", "reaped", "killed"}
Labels == {"spawnBlock", "fork", "assign", "spawnUnblock", "read",
           "getBlock", "getTest", "getSuspended", "pick", "getUnblock",
           "write", "mark", "countBlock", "count", "countUnblock", "continue",
           "waitBlock", "waitTest", "waitSuspended", "waitUnblock",
           "ignore", "closeFd", "closeContinue", "reap", "done", "aborted"}

TypeOK ==
    /\ pc \in Labels /\ cur \in Workers
    /\ available \in [Workers -> BOOLEAN] /\ assigned \in [Workers -> BOOLEAN]
    /\ supplyOpen \in [Workers -> BOOLEAN]
    /\ numWorkersAvailable \in 0..NumCPUs /\ sent \in 0..MaxInputs
    /\ blocked \in BOOLEAN /\ pending \in BOOLEAN /\ handling \in BOOLEAN
    /\ state \in [Workers -> States] /\ unreported \in [Workers -> BOOLEAN]
    /\ pipe \in [Workers -> Nat] /\ factored \in Nat

\* main() has installed the handler; no child exists.
Init ==
    /\ pc = "spawnBlock" /\ cur = 1
    /\ available = [w \in Workers |-> FALSE]
    /\ assigned = [w \in Workers |-> FALSE]
    /\ supplyOpen = [w \in Workers |-> FALSE]
    /\ numWorkersAvailable = 0 /\ sent = 0
    /\ blocked = FALSE /\ pending = FALSE /\ handling = FALSE
    /\ state = [w \in Workers |-> "absent"]
    /\ unreported = [w \in Workers |-> FALSE]
    /\ pipe = [w \in Workers |-> 0] /\ factored = 0

\* The parent's program is at label from and goes on to label to; it runs only
\* while its handler does not.
Step(from, to) == pc = from /\ ~handling /\ pc' = to

\* sigprocmask with SIGCHLD.
Mask(from, to, b) ==
    /\ Step(from, to)
    /\ blocked' = b
    /\ UNCHANGED <<cur, available, assigned, numWorkersAvailable, supplyOpen,
                   sent, pending, handling, children>>

-----------------------------------------------------------------------------
(* spawnAllWorkers()                                                       *)

\* Mutant: the spawning is not masked, so that a halt may precede workers[i].
SpawnUnmasked == Mask("spawnBlock", "fork", FALSE)

SpawnBlock == Mask("spawnBlock", "fork", TRUE)

\* subprocess(): the child starts with its own pipe as stdin.  It is not yet at
\* the first line of factor.py.
SpawnFork ==
    /\ Step("fork", "assign")
    /\ state' = [state EXCEPT ![cur] = "starting"]
    /\ supplyOpen' = [supplyOpen EXCEPT ![cur] = TRUE]
    /\ UNCHANGED <<cur, available, assigned, numWorkersAvailable, sent, signals,
                   unreported, pipe, factored>>

\* workers[i] = worker(...)
SpawnAssign ==
    /\ Step("assign", "spawnUnblock")
    /\ assigned' = [assigned EXCEPT ![cur] = TRUE]
    /\ available' = [available EXCEPT ![cur] = FALSE]
    /\ UNCHANGED <<cur, numWorkersAvailable, supplyOpen, sent, signals, children>>

SpawnUnblock ==
    /\ Step("spawnUnblock", IF cur < NumCPUs THEN "spawnBlock" ELSE "read")
    /\ cur' = IF cur < NumCPUs THEN cur + 1 ELSE cur
    /\ blocked' = FALSE
    /\ UNCHANGED <<available, assigned, numWorkersAvailable, supplyOpen, sent,
                   pending, handling, children>>

-----------------------------------------------------------------------------
(* broadcastNumbersToWorkers() and getAvailableWorker()                    *)

ReadNumber ==
    /\ sent < MaxInputs
    /\ Step("read", "getBlock")
    /\ UNCHANGED <<cur, available, assigned, numWorkersAvailable, supplyOpen,
                   sent, signals, children>>

\* The end of the input, or a line with something after its number.
ReadEnd ==
    /\ Step("read", "waitBlock")
    /\ UNCHANGED <<cur, available, assigned, numWorkersAvailable, supplyOpen,
                   sent, signals, children>>

\* A line stoll finds no number in: the uncaught exception terminates the parent.
\* The kernel kills the children that have asked for it (see ChildStarts); the
\* rest have no parent any more that would wait for them or feed them.
Abort ==
    /\ Step("read", "aborted")
    /\ state' = [w \in Workers |-> IF state[w] = "starting" THEN "starting" ELSE "killed"]
    /\ supplyOpen' = [w \in Workers |-> FALSE]
    /\ unreported' = [w \in Workers |-> FALSE]
    /\ pending' = FALSE
    /\ pipe' = [w \in Workers |-> 0]
    /\ UNCHANGED <<cur, available, assigned, numWorkersAvailable, sent, blocked,
                   handling, factored>>

GetBlock == Mask("getBlock", "getTest", TRUE)

\* sigsuspend(&oldmask) lets SIGCHLD in until a handler has run.
GetTest ==
    /\ Step("getTest", IF numWorkersAvailable = 0 THEN "getSuspended" ELSE "pick")
    /\ blocked' = (numWorkersAvailable # 0)
    /\ UNCHANGED <<cur, available, assigned, numWorkersAvailable, supplyOpen,
                   sent, pending, handling, children>>

\* Mutant: the workers are used in turn, whether halted or not.
PickInTurn(w) ==
    /\ Step("pick", "getUnblock")
    /\ w = (cur % NumCPUs) + 1
    /\ cur' = w
    /\ UNCHANGED <<available, assigned, numWorkersAvailable, supplyOpen, sent,
                   signals, children>>

\* The first worker whose flag is set; num is uninitialised if there is none.
Pick(w) ==
    /\ Step("pick", "getUnblock")
    /\ IF \E v \in Workers : available[v]
       THEN available[w] /\ \A v \in 1..(w - 1) : ~available[v]
       ELSE TRUE
    /\ cur' = w
    /\ UNCHANGED <<available, assigned, numWorkersAvailable, supplyOpen, sent,
                   signals, children>>

GetUnblock == Mask("getUnblock", "write", FALSE)

Write ==
    /\ Step("write", "mark")
    /\ pipe' = [pipe EXCEPT ![cur] = @ + 1]
    /\ sent' = sent + 1
    /\ UNCHANGED <<cur, available, assigned, numWorkersAvailable, supplyOpen,
                   signals, state, unreported, factored>>

\* Mutant: the flag of the worker that has been fed stays set.
MarkNothing ==
    /\ Step("mark", "countBlock")
    /\ UNCHANGED <<cur, available, assigned, numWorkersAvailable, supplyOpen, sent,
                   signals, children>>

MarkBusy ==
    /\ Step("mark", "countBlock")
    /\ available' = [available EXCEPT ![cur] = FALSE]
    /\ UNCHANGED <<cur, assigned, numWorkersAvailable, supplyOpen, sent, signals,
                   children>>

CountBlock == Mask("countBlock", "count", TRUE)

\* Mutant: the counter is not taken down.
CountNothing ==
    /\ Step("count", "countUnblock")
    /\ UNCHANGED <<cur, available, assigned, numWorkersAvailable, supplyOpen, sent,
                   signals, children>>

CountDown ==
    /\ Step("count", "countUnblock")
    /\ numWorkersAvailable' = numWorkersAvailable - 1
    /\ UNCHANGED <<cur, available, assigned, supplyOpen, sent, signals, children>>

CountUnblock == Mask("countUnblock", "continue", FALSE)

\* kill(pid, SIGCONT): a halted child resumes, and is no longer one that
\* waitpid reports; the kernel raises SIGCHLD for that as well.
Resume(w) ==
    IF state[w] = "stopped"
    THEN /\ state' = [state EXCEPT ![w] = "reading"]
         /\ unreported' = [unreported EXCEPT ![w] = FALSE]
         /\ pending' = TRUE
    ELSE UNCHANGED <<state, unreported, pending>>

Continue ==
    /\ Step("continue", "read")
    /\ Resume(cur)
    /\ UNCHANGED <<cur, available, assigned, numWorkersAvailable, supplyOpen,
                   sent, blocked, handling, pipe, factored>>

-----------------------------------------------------------------------------
(* waitForAllWorkers()                                                     *)

WaitBlock == Mask("waitBlock", "waitTest", TRUE)

WaitTest ==
    /\ Step("waitTest", IF numWorkersAvailable < NumCPUs THEN "waitSuspended"
                                                        ELSE "waitUnblock")
    /\ blocked' = ~(numWorkersAvailable < NumCPUs)
    /\ UNCHANGED <<cur, available, assigned, numWorkersAvailable, supplyOpen,
                   sent, pending, handling, children>>

WaitUnblock == Mask("waitUnblock", "ignore", FALSE)

-----------------------------------------------------------------------------
(* closeAllWorkers()                                                       *)

\* signal(SIGCHLD, SIG_DFL): the handler runs no more (see HandlerEnter).
IgnoreChildren ==
    /\ Step("ignore", "closeFd")
    /\ cur' = 1
    /\ pending' = FALSE
    /\ UNCHANGED <<available, assigned, numWorkersAvailable, supplyOpen, sent,
                   blocked, handling, children>>

CloseSupply ==
    /\ Step("closeFd", "closeContinue")
    /\ supplyOpen' = [supplyOpen EXCEPT ![cur] = FALSE]
    /\ UNCHANGED <<cur, available, assigned, numWorkersAvailable, sent, signals,
                   children>>

\* Mutant: the last worker is left out.
CloseContinueFewer ==
    /\ Step("closeContinue", IF cur + 1 < NumCPUs THEN "closeFd" ELSE "reap")
    /\ cur' = IF cur + 1 < NumCPUs THEN cur + 1 ELSE cur
    /\ Resume(cur)
    /\ UNCHANGED <<available, assigned, numWorkersAvailable, supplyOpen, sent,
                   blocked, handling, pipe, factored>>

CloseContinue ==
    /\ Step("closeContinue", IF cur < NumCPUs THEN "closeFd" ELSE "reap")
    /\ cur' = IF cur < NumCPUs THEN cur + 1 ELSE cur
    /\ Resume(cur)
    /\ UNCHANGED <<available, assigned, numWorkersAvailable, supplyOpen, sent,
                   blocked, handling, pipe, factored>>

\* waitpid(-1, NULL, 0) waits for an exit and not for a halt.
Reap(w) ==
    /\ Step("reap", "reap")
    /\ state[w] = "exited"
    /\ state' = [state EXCEPT ![w] = "reaped"]
    /\ UNCHANGED <<cur, available, assigned, numWorkersAvailable, supplyOpen,
                   sent, signals, unreported, pipe, factored>>

ReapEnd ==
    /\ Step("reap", "done")
    /\ \A w \in Workers : state[w] = "reaped"
    /\ UNCHANGED <<cur, available, assigned, numWorkersAvailable, supplyOpen,
                   sent, signals, children>>

-----------------------------------------------------------------------------
(* markWorkersAsAvailable(), the handler of SIGCHLD                        *)

Installed == pc \notin {"closeFd", "closeContinue", "reap", "done", "aborted"}

HandlerEnter ==
    /\ Installed /\ pending /\ ~blocked /\ ~handling
    /\ pending' = FALSE /\ handling' = TRUE
    /\ UNCHANGED <<main, blocked, children>>

\* One turn of its loop: a child waitpid(-1, NULL, WNOHANG|WUNTRACED) reports.
HandlerReport(w) ==
    /\ handling /\ unreported[w]
    /\ unreported' = [unreported EXCEPT ![w] = FALSE]
    /\ IF assigned[w]
       THEN /\ available' = [available EXCEPT ![w] = TRUE]
            /\ numWorkersAvailable' = numWorkersAvailable + 1
       ELSE UNCHANGED <<available, numWorkersAvailable>>
    /\ UNCHANGED <<pc, cur, assigned, supplyOpen, sent, signals, state, pipe,
                   factored>>

\* waitpid has nothing to report.  A sigsuspend that was interrupted returns.
HandlerLeave ==
    /\ handling /\ \A w \in Workers : ~unreported[w]
    /\ handling' = FALSE
    /\ pc' = IF pc = "getSuspended" THEN "getTest"
             ELSE IF pc = "waitSuspended" THEN "waitTest" ELSE pc
    /\ blocked' = (blocked \/ pc \in {"getSuspended", "waitSuspended"})
    /\ UNCHANGED <<cur, available, assigned, numWorkersAvailable, supplyOpen,
                   sent, pending, children>>

-----------------------------------------------------------------------------
(* factor.py --self-halting                                                *)

Alive(w) == state[w] \notin {"absent", "exited", "reaped", "killed"}

\* Who could still write to w's pipe: the parent, and every child spawned
\* later, which inherited the parent's end (subprocess closes only its own).
Writers(w) == (IF supplyOpen[w] THEN {0} ELSE {})
                  \cup {v \in Workers : v > w /\ Alive(v)}

\* prctl(PR_SET_PDEATHSIG, SIGKILL): to be killed when the parent terminates.
\* Nothing is sent for a parent that has terminated already.
ChildStarts(w) ==
    /\ state[w] = "starting"
    /\ state' = [state EXCEPT ![w] = "halting"]
    /\ UNCHANGED <<main, signals, unreported, pipe, factored>>

ChildHalts(w) ==
    /\ state[w] = "halting"
    /\ state' = [state EXCEPT ![w] = "stopped"]
    /\ unreported' = [unreported EXCEPT ![w] = TRUE]
    /\ pending' = Installed
    /\ UNCHANGED <<main, blocked, handling, pipe, factored>>

ChildReads(w) ==
    /\ state[w] = "reading" /\ pipe[w] > 0
    /\ state' = [state EXCEPT ![w] = "factoring"]
    /\ pipe' = [pipe EXCEPT ![w] = @ - 1]
    /\ UNCHANGED <<main, signals, unreported, factored>>

ChildFactors(w) ==
    /\ state[w] = "factoring"
    /\ state' = [state EXCEPT ![w] = "halting"]
    /\ factored' = factored + 1
    /\ UNCHANGED <<main, signals, unreported, pipe>>

\* raw_input sees the end of the file.
ChildExits(w) ==
    /\ state[w] = "reading" /\ pipe[w] = 0 /\ Writers(w) = {}
    /\ state' = [state EXCEPT ![w] = "exited"]
    /\ pending' = Installed
    /\ UNCHANGED <<main, blocked, handling, unreported, pipe, factored>>

-----------------------------------------------------------------------------
Spawn == SpawnBlock \/ SpawnFork \/ SpawnAssign \/ SpawnUnblock
GetAvailable == GetBlock \/ GetTest \/ GetUnblock \/ \E w \in Workers : Pick(w)
Broadcast == \/ ReadNumber \/ ReadEnd \/ Abort \/ Write \/ MarkBusy
             \/ CountBlock \/ CountDown \/ CountUnblock \/ Continue
WaitForAll == WaitBlock \/ WaitTest \/ WaitUnblock
CloseAll == \/ IgnoreChildren \/ CloseSupply \/ CloseContinue
            \/ ReapEnd \/ \E w \in Workers : Reap(w)
Handler == \/ HandlerEnter \/ HandlerLeave
           \/ \E w \in Workers : HandlerReport(w)
Parent == Spawn \/ GetAvailable \/ Broadcast \/ WaitForAll \/ CloseAll \/ Handler
Child(w) == \/ ChildStarts(w) \/ ChildHalts(w)
            \/ ChildReads(w) \/ ChildFactors(w) \/ ChildExits(w)

Next == Parent \/ \E w \in Workers : Child(w)

Spec == Init /\ [][Next]_vars

\* The operating system runs every process that can run.
FairSpec == Spec /\ WF_vars(Parent) /\ \A w \in Workers : WF_vars(Child(w))

-----------------------------------------------------------------------------
(* Properties.                                                             *)

\* From the choice of a worker to its SIGCONT.
Feeding == pc \in {"getUnblock", "write", "mark", "countBlock", "count",
                   "countUnblock", "continue"}
\* Between workers[i].available = false and numWorkersAvailable--.
Uncounted == pc \in {"countBlock", "count"}

\* The counter the parent sleeps on agrees with the flags it searches: but for
\* the two lines between the updates, whenever the handler interrupts.
AvailableCounts ==
    numWorkersAvailable = Cardinality({w \in Workers : available[w]})
                              + (IF Uncounted THEN 1 ELSE 0)

\* A number is written only to a halted worker with nothing to read, whose halt
\* has been reported: a worker that was still running would halt on top of it.
FeedsHaltedWorker ==
    /\ pc = "write" => pipe[cur] = 0
    /\ Feeding => /\ state[cur] = "stopped" /\ ~unreported[cur]

\* No halt is missed: once it has been reported, a halted worker is available,
\* or it is the one being fed (the comment in spawnAllWorkers asks what happens
\* when SIGCHLD comes before workers[i] is assigned).
NoHaltMissed ==
    \A w \in Workers :
        state[w] = "stopped" /\ ~unreported[w] /\ Installed
            => available[w] \/ (Feeding /\ cur = w)

\* The farm ends, with every number factored, unless a line that is no number
\* aborts it: although each worker holds the write ends of those before it open,
\* the ends of file reach them all.
FarmEnds == <>(pc = "aborted" \/ (pc = "done" /\ factored = sent))
=============================================================================
