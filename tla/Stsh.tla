-------------------------------- MODULE Stsh --------------------------------
(***************************************************************************)
(* The shell of assign3 (stsh.cc, stsh-job-list.cc): one thread that runs  *)
(* createJob, the builtins and transferControl, the handlers of SIGCHLD,   *)
(* SIGINT and SIGTSTP that interrupt it and each other, the job list they  *)
(* share, and the processes of the jobs with what the kernel has to report *)
(* of them.                                                                *)
(*                                                                         *)
(* Signals.  A handler is a frame on a stack, with the mask the kernel     *)
(* puts back when it returns.  The first sigprocmask of a handler goes     *)
(* with its entry and the last one of childHandler with its return.        *)
(*                                                                         *)
(* Processes.  <<n, i>> is the i-th process of job n.  A running process   *)
(* may exit at any time, which stands for every cause there is, and stop   *)
(* of itself a bounded number of times.  The child's setpgid is taken to   *)
(* precede what is sent to its group, and a job a reference was taken to   *)
(* before a handler erased it is not touched through that reference.       *)
(***************************************************************************)
EXTENDS Integers, Sequences, FiniteSets

CONSTANTS MaxJobs,   \* bound: jobs that are created
          MaxSize,   \* bound: commands of a pipeline
          Sessions   \* what the user and the processes may do, see Session

\* keys and stops are bounds: how often ^C or ^Z is typed, and how many times
\* processes stop of themselves.  terminal says that stdin is one (under
\* stsh-driver it is a pipe).
Session == [builtins : SUBSET {"fg", "bg", "slay", "halt", "cont"},
            keys : Nat, stops : Nat, terminal : BOOLEAN]

ASSUME BoundsAssumption ==
    /\ MaxJobs \in Nat \ {0} /\ MaxSize \in Nat \ {0}
    /\ Sessions \subseteq Session

JobNums == 1..MaxJobs
Procs == JobNums \X (1..MaxSize)
NoJob == 0                       \* as the terminal's group: the shell itself
KeySignals == {"INT", "TSTP"}
Signals == KeySignals \cup {"CHLD"}

VARIABLES
    session,     \* which of Sessions it is
    pc, cur,     \* where the shell's thread is, and the job the call is about
    index,       \* its loop variable
    copy,        \* processes of the job that fg or bg goes through
    wanted,      \* commands in the pipeline being created
    joblist,     \* joblist.jobs, its absent jobs included
    next,        \* joblist.next
    mask, pending, stack,      \* blocked and raised signals, running handlers
    kern,        \* "none", "running", "stopped", "exited" or "reaped", each process
    note,        \* what waitpid would report of it
    terminal,    \* the job whose group has the terminal
    keys, stops  \* how much of each bound is used

shell == <<pc, cur, index, copy, wanted>>
jobs == <<joblist, next>>
signals == <<mask, pending, stack>>
procs == <<kern, note>>
bounds == <<session, keys, stops>>
vars == <<shell, jobs, signals, procs, terminal, bounds>>

NoProcess == [state |-> "absent", processes |-> <<>>]

Init ==
    /\ session \in Sessions
    /\ pc = "repl" /\ cur = NoJob /\ index = 1 /\ copy = 0 /\ wanted = 0
    /\ joblist = [n \in JobNums |-> NoProcess] /\ next = 1
    /\ mask = {} /\ pending = {} /\ stack = <<>>
    /\ kern = [p \in Procs |-> "none"] /\ note = [p \in Procs |-> "none"]
    /\ terminal = NoJob
    /\ keys = 0 /\ stops = 0

-----------------------------------------------------------------------------
(* The job list.                                                           *)

Contains(n) == joblist[n].state # "absent"
Foreground == {n \in JobNums : joblist[n].state = "foreground"}
HasForeground == Foreground # {}
TheForeground == CHOOSE n \in Foreground : \A m \in Foreground : n <= m
Listed(p) == p[2] \in DOMAIN joblist[p[1]].processes
ListedState(p) == joblist[p[1]].processes[p[2]]
ProcsOf(n) == {n} \X DOMAIN joblist[n].processes
\* getGroupID(): of its leader, and 0, which is the shell's own, while it has none.
GroupOf(n) == IF joblist[n].processes = <<>> THEN NoJob ELSE n

SetState(n, s) == joblist' = [joblist EXCEPT ![n].state = s]

\* Mutant: one stopped process sends its job to the background.
SynchronizedAnyStopped(job, ps) ==
    LET Some(S) == \E i \in DOMAIN ps : ps[i] \in S
    IN IF ~Some({"running", "stopped"}) THEN NoProcess
       ELSE [state |-> IF Some({"stopped"}) THEN "background" ELSE job.state,
             processes |-> ps]

\* A job whose processes have the states ps, after synchronize().
Synchronized(job, ps) ==
    LET Some(S) == \E i \in DOMAIN ps : ps[i] \in S
    IN IF ~Some({"running", "stopped"}) THEN NoProcess
       ELSE [state |-> IF Some({"running"}) THEN job.state ELSE "background",
             processes |-> ps]

-----------------------------------------------------------------------------
(* The kernel: kill, and what it does to a process by default.             *)

After(s, k) ==
    IF s = "CONT" /\ k = "stopped" THEN "running"
    ELSE IF s \in {"STOP", "TSTP"} /\ k = "running" THEN "stopped"
    ELSE IF \/ s \in {"EXIT", "INT", "KILL"} /\ k = "running"
            \/ s = "KILL" /\ k = "stopped"
         THEN "exited"
    ELSE k

ReportOf(k) == IF k = "running" THEN "continued" ELSE k

\* Signal s for the processes P; the parent learns of each change.
Kill(P, s, raised) ==
    LET Hit == {p \in P : After(s, kern[p]) # kern[p]}
    IN /\ kern' = [p \in Procs |-> IF p \in Hit THEN After(s, kern[p]) ELSE kern[p]]
       /\ note' = [p \in Procs |-> IF p \in Hit THEN ReportOf(After(s, kern[p]))
                                                ELSE note[p]]
       /\ pending' = raised \cup (IF Hit # {} THEN {"CHLD"} ELSE {})

ProcessExits(p) ==
    /\ kern[p] = "running"
    /\ Kill({p}, "EXIT", pending)
    /\ UNCHANGED <<shell, jobs, mask, stack, terminal, bounds>>

ProcessStops(p) ==
    /\ kern[p] = "running" /\ stops < session.stops
    /\ Kill({p}, "STOP", pending)
    /\ stops' = stops + 1
    /\ UNCHANGED <<shell, jobs, mask, stack, terminal, session, keys>>

\* ^C or ^Z while the terminal is the shell's (or stsh-driver's kill).  What
\* it does to processes still in the shell's group, ProcessExits and
\* ProcessStops may do.
Key(s) ==
    /\ keys < session.keys /\ terminal = NoJob /\ s \notin pending
    /\ pending' = pending \cup {s}
    /\ keys' = keys + 1
    /\ UNCHANGED <<shell, jobs, mask, stack, procs, terminal, session, stops>>

-----------------------------------------------------------------------------
(* The handlers.                                                           *)

Delivered(s) == s \in pending /\ s \notin mask /\ pc # "aborted"
Running(handler) == stack # <<>> /\ stack[Len(stack)].handler = handler
Push(handler) == stack' = Append(stack, [handler |-> handler, saved |-> mask])

\* The handler that runs returns, and with the last one a sigsuspend.
Return ==
    LET saved == stack[Len(stack)].saved
        woken == Len(stack) = 1 /\ pc = "suspended"
    IN /\ stack' = SubSeq(stack, 1, Len(stack) - 1)
       /\ mask' = IF woken THEN saved \cup {"CHLD"} ELSE saved
       /\ pc' = IF woken THEN "loop" ELSE pc

ChildEnter ==
    /\ Delivered("CHLD")
    /\ Push("child")
    /\ mask' = mask \cup Signals
    /\ pending' = pending \ {"CHLD"}
    /\ UNCHANGED <<shell, jobs, procs, terminal, bounds>>

ToListed(report) == IF report = "exited" THEN "terminated"
                    ELSE IF report = "continued" THEN "running"
                    ELSE "stopped"

Reported(p) ==
    /\ Running("child") /\ note[p] # "none"
    /\ note' = [note EXCEPT ![p] = "none"]
    /\ kern' = IF note[p] = "exited" THEN [kern EXCEPT ![p] = "reaped"] ELSE kern

\* Mutant: a stop is not told from an exit.
ChildUpdateNoStop(p) ==
    /\ Reported(p) /\ Listed(p)
    /\ joblist' = [joblist EXCEPT ![p[1]] =
           Synchronized(@, [@.processes EXCEPT ![p[2]] =
               IF note[p] = "continued" THEN "running" ELSE "terminated"])]
    /\ UNCHANGED <<shell, next, signals, terminal, bounds>>

\* Mutant: the state of the process is set and the job not synchronized.
ChildUpdateOnly(p) ==
    /\ Reported(p) /\ Listed(p)
    /\ joblist' = [joblist EXCEPT ![p[1]].processes[p[2]] = ToListed(note[p])]
    /\ UNCHANGED <<shell, next, signals, terminal, bounds>>

\* A turn of childHandler's loop, for a process that is in the list.
ChildUpdate(p) ==
    /\ Reported(p) /\ Listed(p)
    /\ joblist' = [joblist EXCEPT ![p[1]] =
           Synchronized(@, [@.processes EXCEPT ![p[2]] = ToListed(note[p])])]
    /\ UNCHANGED <<shell, next, signals, terminal, bounds>>

\* And for one that is not: the handler returns, and the report is lost.
ChildUnknown(p) ==
    /\ Reported(p) /\ ~Listed(p)
    /\ Return
    /\ UNCHANGED <<cur, index, copy, wanted, jobs, pending, terminal, bounds>>

ChildReturn ==
    /\ Running("child") /\ \A p \in Procs : note[p] = "none"
    /\ Return
    /\ UNCHANGED <<cur, index, copy, wanted, jobs, pending, procs, terminal, bounds>>

\* intHandler and tstpHandler, up to their SIG_UNBLOCK of SIGCHLD.  A job with
\* no process yet has group 0, which is the shell's own.
KeyEnter(s) ==
    /\ Delivered(s) /\ HasForeground
    /\ Push("key")
    /\ mask' = (mask \cup {s}) \ {"CHLD"}
    /\ LET n == TheForeground
       IN Kill(ProcsOf(n), s, IF GroupOf(n) = NoJob THEN pending ELSE pending \ {s})
    /\ UNCHANGED <<shell, jobs, terminal, bounds>>

\* The early return: nothing has changed but that a sigsuspend ends.
KeyIgnored(s) ==
    /\ Delivered(s) /\ ~HasForeground
    /\ pending' = pending \ {s}
    /\ IF pc = "suspended" /\ stack = <<>>
       THEN pc' = "loop" /\ mask' = mask \cup {"CHLD"}
       ELSE UNCHANGED <<pc, mask>>
    /\ UNCHANGED <<cur, index, copy, wanted, jobs, stack, procs, terminal, bounds>>

KeyReturn ==
    /\ Running("key")
    /\ Return
    /\ UNCHANGED <<cur, index, copy, wanted, jobs, pending, procs, terminal, bounds>>

-----------------------------------------------------------------------------
(* createJob()                                                             *)

\* The shell's own program goes on from one label to another.
Step(from, to) == pc = from /\ stack = <<>> /\ pc' = to

\* Mutant: the children are not kept out while the job is built.
BeginUnmasked(k, bg) ==
    /\ next <= MaxJobs
    /\ Step("repl", IF bg THEN "background" ELSE "fork")
    /\ joblist' = [joblist EXCEPT ![next] = [state |-> "foreground", processes |-> <<>>]]
    /\ cur' = next /\ next' = next + 1
    /\ wanted' = k /\ index' = 1
    /\ UNCHANGED <<copy, signals, procs, terminal, bounds>>

Begin(k, bg) ==
    /\ next <= MaxJobs
    /\ Step("repl", IF bg THEN "background" ELSE "fork")
    /\ mask' = mask \cup {"CHLD"}
    /\ joblist' = [joblist EXCEPT ![next] = [state |-> "foreground", processes |-> <<>>]]
    /\ cur' = next /\ next' = next + 1
    /\ wanted' = k /\ index' = 1
    /\ UNCHANGED <<copy, pending, stack, procs, terminal, bounds>>

ToBackground ==
    /\ Step("background", "fork")
    /\ SetState(cur, "background")
    /\ UNCHANGED <<cur, index, copy, wanted, next, signals, procs, terminal, bounds>>

Fork ==
    /\ Step("fork", "add")
    /\ kern' = [kern EXCEPT ![<<cur, index>>] = "running"]
    /\ UNCHANGED <<cur, index, copy, wanted, jobs, signals, note, terminal, bounds>>

\* job.addProcess(); a job that a handler has erased is gone from the list.
AddProcess ==
    /\ Step("add", IF index < wanted THEN "fork" ELSE "created")
    /\ joblist' = IF Contains(cur)
                  THEN [joblist EXCEPT ![cur].processes = Append(@, "running")]
                  ELSE joblist
    /\ index' = index + 1
    /\ UNCHANGED <<cur, copy, wanted, next, signals, procs, terminal, bounds>>

\* assert(joblist.containsJob(jobNum))
Created ==
    /\ Step("created", IF Contains(cur) THEN "transfer" ELSE "aborted")
    /\ mask' = mask \ {"CHLD"}
    /\ UNCHANGED <<cur, index, copy, wanted, jobs, pending, stack, procs, terminal,
                   bounds>>

-----------------------------------------------------------------------------
(* transferControl()                                                       *)

Transfer ==
    /\ Step("transfer", IF HasForeground THEN "give" ELSE "block")
    /\ UNCHANGED <<cur, index, copy, wanted, jobs, signals, procs, terminal, bounds>>

\* tcsetpgrp() to the foreground job, if there still is one; a group without
\* processes makes it fail, and the exception ends the command.
Give ==
    LET reachable == /\ HasForeground
                     /\ \E p \in ProcsOf(TheForeground) : kern[p] # "reaped"
    IN /\ Step("give", IF reachable \/ ~session.terminal THEN "block" ELSE "repl")
       /\ terminal' = IF reachable /\ session.terminal THEN TheForeground ELSE terminal
       /\ UNCHANGED <<cur, index, copy, wanted, jobs, signals, procs, bounds>>

Block ==
    /\ Step("block", "loop")
    /\ mask' = mask \cup {"CHLD"}
    /\ UNCHANGED <<cur, index, copy, wanted, jobs, pending, stack, procs, terminal,
                   bounds>>

Suspend ==
    /\ HasForeground
    /\ Step("loop", "suspended")
    /\ mask' = mask \ {"CHLD"}
    /\ UNCHANGED <<cur, index, copy, wanted, jobs, pending, stack, procs, terminal,
                   bounds>>

\* Mutant: what ends a sigsuspend is not looked at.
LoopEndsAnyway ==
    /\ Step("loop", "take")
    /\ UNCHANGED <<cur, index, copy, wanted, jobs, signals, procs, terminal, bounds>>

LoopEnds ==
    /\ ~HasForeground
    /\ Step("loop", "take")
    /\ UNCHANGED <<cur, index, copy, wanted, jobs, signals, procs, terminal, bounds>>

Take ==
    /\ Step("take", "repl")
    /\ terminal' = NoJob
    /\ mask' = mask \ {"CHLD"}
    /\ UNCHANGED <<cur, index, copy, wanted, jobs, pending, stack, procs, bounds>>

-----------------------------------------------------------------------------
(* userFg(), userBg(): the processes are looked up once, nothing masked.   *)

UserFg(n) ==
    /\ "fg" \in session.builtins /\ Contains(n)
    /\ Step("repl", "set")
    /\ cur' = n /\ copy' = Len(joblist[n].processes)
    /\ UNCHANGED <<index, wanted, jobs, signals, procs, terminal, bounds>>

\* Only a job that is still there, and in the background, is changed.
FgSet ==
    /\ Step("set", "continue")
    /\ IF joblist[cur].state = "background"
       THEN SetState(cur, "foreground") ELSE UNCHANGED joblist
    /\ index' = 1
    /\ UNCHANGED <<cur, copy, wanted, next, signals, procs, terminal, bounds>>

FgContinue ==
    /\ Step("continue", IF index < copy THEN "continue" ELSE "transfer")
    /\ Kill({<<cur, index>>}, "CONT", pending)
    /\ index' = index + 1
    /\ UNCHANGED <<cur, copy, wanted, jobs, mask, stack, terminal, bounds>>

UserBg(n) ==
    /\ "bg" \in session.builtins /\ Contains(n)
    /\ Step("repl", "resume")
    /\ IF joblist[n].state = "foreground"
       THEN SetState(n, "background") ELSE UNCHANGED joblist
    /\ cur' = n /\ copy' = Len(joblist[n].processes) /\ index' = 1
    /\ UNCHANGED <<wanted, next, signals, procs, terminal, bounds>>

BgContinue ==
    /\ Step("resume", IF index < copy THEN "resume" ELSE "repl")
    /\ Kill({<<cur, index>>}, "CONT", pending)
    /\ index' = index + 1
    /\ UNCHANGED <<cur, copy, wanted, jobs, mask, stack, terminal, bounds>>

-----------------------------------------------------------------------------
(* userSlay(), userHalt(), userCont().  Their two-argument forms refuse    *)
(* the last process of a job (slay, halt), and halt reads its second       *)
(* argument for both.                                                      *)

Forms == {"one", "two"}
Named(p, form) == Listed(p) /\ (form = "two" => p[2] < Len(joblist[p[1]].processes))

UserSlay(p, form) ==
    /\ "slay" \in session.builtins /\ Named(p, form)
    /\ Step("repl", "repl")
    /\ Kill({p}, "KILL", pending)
    /\ UNCHANGED <<cur, index, copy, wanted, jobs, mask, stack, terminal, bounds>>

UserHalt(p, form) ==
    /\ "halt" \in session.builtins /\ Named(p, form)
    /\ form = "two" => p[1] = p[2]
    /\ ListedState(p) # "stopped"
    /\ Step("repl", "repl")
    /\ Kill({p}, "TSTP", pending)
    /\ UNCHANGED <<cur, index, copy, wanted, jobs, mask, stack, terminal, bounds>>

\* The two-argument form tests for the opposite of the other one.
Continues(p, form) ==
    IF form = "one" THEN ListedState(p) # "running" ELSE ListedState(p) # "stopped"

UserCont(p, form) ==
    /\ "cont" \in session.builtins /\ Listed(p)
    /\ Step("repl", "repl")
    /\ IF Continues(p, form)
       THEN Kill({p}, "CONT", pending) /\ SetState(p[1], "background")
       ELSE UNCHANGED <<procs, pending, joblist>>
    /\ UNCHANGED <<cur, index, copy, wanted, next, mask, stack, terminal, bounds>>

-----------------------------------------------------------------------------
CreateJob == \/ \E k \in 1..MaxSize, bg \in BOOLEAN : Begin(k, bg)
             \/ ToBackground \/ Fork \/ AddProcess \/ Created
TransferControl == Transfer \/ Give \/ Block \/ Suspend \/ LoopEnds \/ Take
Builtin == \/ \E n \in JobNums : UserFg(n) \/ UserBg(n)
           \/ FgSet \/ FgContinue \/ BgContinue
           \/ \E p \in Procs, form \in Forms :
                  UserSlay(p, form) \/ UserHalt(p, form) \/ UserCont(p, form)
Handlers == \/ ChildEnter \/ ChildReturn \/ KeyReturn
            \/ \E p \in Procs : ChildUpdate(p) \/ ChildUnknown(p)
            \/ \E s \in KeySignals : KeyEnter(s) \/ KeyIgnored(s)
Shell == CreateJob \/ TransferControl \/ Builtin \/ Handlers
World == \/ \E p \in Procs : ProcessExits(p) \/ ProcessStops(p)
         \/ \E s \in KeySignals : Key(s)

Next == Shell \/ World

Spec == Init /\ [][Next]_vars

\* The shell runs while it is inside a command or a handler, signals that are
\* not blocked are delivered, and no process runs for ever.
Busy == pc # "repl" \/ stack # <<>>
FairSpec == /\ Spec
            /\ WF_vars(Busy /\ Shell) /\ WF_vars(Handlers)
            /\ \A p \in Procs : WF_vars(ProcessExits(p))

-----------------------------------------------------------------------------
(* Properties.                                                             *)

\* Nobody types ^C or ^Z, or there is no terminal to give to a job.
Single == session.keys = 0 \/ ~session.terminal

\* In such a session at most one job is in the foreground: intHandler, tstpHandler
\* and transferControl act on the first they find, and stsh-job-list.h:67 counts on
\* it.  With ^C or ^Z at a terminal there may be two, since their handlers unblock
\* SIGCHLD in createJob and the terminal cannot be given to a job that has ended.
AtMostOneForeground == Single => Cardinality(Foreground) <= 1

\* No report is lost: what the list says of a process is what it is doing, but
\* for what waitpid has still to report, and a process that was never reaped
\* is in the list.  With ^C or ^Z during createJob it is not so: their handlers
\* let SIGCHLD in between fork and addProcess.
ListIsReal == session.keys = 0 =>
    \A p \in Procs :
        /\ Listed(p) /\ note[p] = "none" =>
              \/ kern[p] = "reaped" /\ ListedState(p) = "terminated"
              \/ kern[p] = ListedState(p)
        /\ ~Listed(p) /\ ~(pc = "add" /\ p = <<cur, index>>)
              => kern[p] \in {"none", "reaped"}

\* The assertion of createJob: the job that was added is in the list when its
\* processes have been (stsh.cc:327).  The handlers of ^C and ^Z let SIGCHLD
\* in, so it is not true of sessions in which they run.
JobStaysListed == session.keys = 0 => pc # "aborted"

\* transferControl keeps the terminal away from the shell until every process
\* of the job in the foreground has stopped or ended, unless fg has put it
\* there (see the finding).
LeavesNoneRunning ==
    \A n \in JobNums : terminal = n /\ terminal' = NoJob
                         => \A p \in ProcsOf(n) : note[p] # "none" \/ kern[p] # "running"
RunningJobKeepsTerminal ==
    [][session.builtins \cap {"fg"} = {} => LeavesNoneRunning]_vars

\* userFg as its comment has it: the same with fg.
FgKeepsTerminal == [][LeavesNoneRunning]_vars

\* Every command comes back to the prompt when its processes have stopped or
\* ended, whatever order their reports come in, with the terminal and with no
\* job in the foreground: otherwise the next ^C goes to a job the user has left.
PromptReturns == session.keys = 0 =>
    []<>(pc = "repl" /\ terminal = NoJob /\ ~HasForeground)
=============================================================================
