------------------------------ MODULE StshProofs ------------------------------
(***************************************************************************)
(* Proofs about Stsh for any number of jobs, any size of pipelines and any *)
(* sessions.                                                               *)
(*                                                                         *)
(* The argument.  Without ^C and ^Z nothing interrupts createJob           *)
(* (KeptOutInv), so every process is listed before its first report, a     *)
(* report says what the process is (ReportInv), and the list is right but  *)
(* for reports (SeenInv, RealInv).  A job that is done with being created  *)
(* then has a process that has not ended (AliveInv); the terminal can be   *)
(* given to it, so transferControl waits for the job in the foreground,    *)
(* and the next command finds none there (FgInv).                          *)
(*                                                                         *)
(* Without fg a job that loses the foreground has no listed process that   *)
(* runs, and gets none while it has the terminal: what is sent to a        *)
(* process to continue it was sent to jobs in the background (TerminalInv).*)
(***************************************************************************)
EXTENDS Stsh, FiniteSetTheorems, WellFoundedInduction, TLAPS

Labels == {"repl", "background", "fork", "add", "created", "aborted", "transfer", "give", "block",
           "loop", "suspended", "take", "set", "continue", "resume"}
Creating == {"background", "fork", "add", "created"}
Adding == {"background", "fork", "add"}
Waiting == {"block", "loop", "suspended", "take"}

ProcessStates == {"running", "stopped", "terminated"}
Job == [state : {"absent", "foreground", "background"}, processes : Seq(ProcessStates)]

TypeOK ==
    /\ session \in Session /\ pc \in Labels
    /\ cur \in 0..MaxJobs /\ index \in Nat /\ copy \in 0..MaxSize /\ wanted \in 0..MaxSize
    /\ joblist \in [JobNums -> Job] /\ next \in 1..(MaxJobs + 1)
    /\ pending \subseteq Signals
    /\ kern \in [Procs -> {"none", "running", "stopped", "exited", "reaped"}]
    /\ note \in [Procs -> {"none", "continued", "stopped", "exited"}]
    /\ terminal \in 0..MaxJobs /\ keys \in Nat

\* The jobs there are.
SizesInv == \A n \in JobNums :
    /\ Len(joblist[n].processes) <= MaxSize
    /\ joblist[n].state = "absent" => joblist[n].processes = <<>>
    /\ n >= next => joblist[n].state = "absent"

\* The job that is created, and how far it has come, or that fg or bg is about.
CreateInv ==
    /\ pc \in Creating => cur = next - 1 /\ cur \in JobNums
    /\ pc = "background" => index = 1 /\ Contains(cur)
    /\ pc \in Adding => /\ index \in 1..wanted
                        /\ Contains(cur) => Len(joblist[cur].processes) = index - 1
    /\ pc \in {"set", "continue", "resume"} => cur \in JobNums
    /\ pc \in {"continue", "resume"} => index \in 1..MaxSize

JobInv == SizesInv /\ CreateInv

\* The processes there are, while their job is created.
Forked(p) ==
    /\ p[1] >= next => kern[p] = "none"
    /\ pc \in {"background", "fork"} /\ p[1] = cur /\ p[2] >= index => kern[p] = "none"
    /\ pc = "add" /\ p[1] = cur /\ p[2] > index => kern[p] = "none"
    /\ pc = "add" /\ p[1] = cur /\ p[2] = index => kern[p] # "none"
ForkInv == \A p \in Procs : Forked(p)

\* What waitpid has to report of a process is what it is.
Reports(p) ==
    /\ note[p] # "none" => /\ kern[p] \in {"running", "stopped", "exited"}
                           /\ note[p] = ReportOf(kern[p])
    /\ kern[p] = "exited" => note[p] = "exited"
ReportInv == \A p \in Procs : Reports(p)

\* What the list says of a process was so, and of one that runs it is so.
Seen(p) == Listed(p) =>
    /\ kern[p] # "none"
    /\ ListedState(p) = "terminated" => kern[p] = "reaped"
    /\ kern[p] = "running" /\ note[p] = "none" => ListedState(p) = "running"
SeenInv == \A p \in Procs : Seen(p)

\* Nobody interrupts createJob, and the process it has forked is as it was made.
AloneInv == session.keys = 0 =>
    /\ pending \cap KeySignals = {} /\ pc # "aborted"
    /\ pc \in Creating => stack = <<>> /\ "CHLD" \in mask /\ Contains(cur)
BuiltInv == session.keys = 0 =>
    (pc = "add" /\ note[<<cur, index>>] = "none" => kern[<<cur, index>>] = "running")
KeptOutInv == AloneInv /\ BuiltInv

Matches(p) == \/ kern[p] = "reaped" /\ ListedState(p) = "terminated"
              \/ kern[p] = ListedState(p)
Outside(p) == ~(pc = "add" /\ p = <<cur, index>>)

\* The list is right, but for what is still to be reported.
Real(p) == /\ Listed(p) /\ note[p] = "none" => Matches(p)
           /\ ~Listed(p) /\ Outside(p) => kern[p] \in {"none", "reaped"}
RealInv == session.keys = 0 => \A p \in Procs : Real(p)

HasLive(n) == \E i \in DOMAIN joblist[n].processes :
                  joblist[n].processes[i] \in {"running", "stopped"}

\* A job that has been created is in the list while a process of it lives.
Alive(n) == Contains(n) => HasLive(n) \/ (pc \in Adding /\ n = cur)
AliveInv == session.keys = 0 => \A n \in JobNums : Alive(n)

\* The job in the foreground is the one the command is about.
FgInv == /\ pc = "take" => Foreground = {}
         /\ Single => /\ Foreground \subseteq {cur}
                      /\ pc \in {"repl", "resume"} => Foreground = {}

\* Without fg, what nobody has continued: the jobs in the foreground, and the
\* one that has the terminal.
NoneContinued == \A p \in Procs : p[1] \in Foreground \cup {terminal} => note[p] # "continued"
NoneRunning == terminal # NoJob /\ terminal \notin Foreground =>
                   \A i \in DOMAIN joblist[terminal].processes :
                       joblist[terminal].processes[i] # "running"
TerminalInv ==
    /\ pc \notin Waiting => terminal = NoJob
    /\ "fg" \notin session.builtins =>
          /\ pc \notin {"set", "continue"} /\ (pc = "resume" => cur \notin Foreground)
          /\ NoneContinued /\ NoneRunning

IInv == /\ TypeOK /\ JobInv /\ ForkInv /\ ReportInv /\ SeenInv /\ KeptOutInv /\ RealInv /\ AliveInv
        /\ FgInv /\ TerminalInv

-----------------------------------------------------------------------------
(* What the steps do.                                                      *)

\* A signal has hit some of the processes P: what changes is running or
\* stopped, and is reported.
Struck(P, s) ==
    /\ kern' \in [Procs -> {"none", "running", "stopped", "exited", "reaped"}]
    /\ note' \in [Procs -> {"none", "continued", "stopped", "exited"}]
    /\ \A p \in Procs :
          \/ kern'[p] = kern[p] /\ note'[p] = note[p]
          \/ /\ p \in P /\ kern[p] \in {"running", "stopped"}
             /\ kern'[p] \in {"running", "stopped", "exited"} \ {kern[p]}
             /\ note'[p] = ReportOf(kern'[p])
             /\ kern'[p] = "running" => s = "CONT"

\* kill() strikes some of those it is for.
LEMMA Killed ==
    ASSUME TypeOK, NEW P, NEW s, NEW raised, Kill(P, s, raised)
    PROVE  Struck(P, s) /\ raised \subseteq pending' /\ pending' \subseteq raised \cup {"CHLD"}
<1> DEFINE Hit == {p \in P : After(s, kern[p]) # kern[p]}
<1>1. /\ kern' = [p \in Procs |-> IF p \in Hit THEN After(s, kern[p]) ELSE kern[p]]
      /\ note' = [p \in Procs |-> IF p \in Hit THEN ReportOf(After(s, kern[p])) ELSE note[p]]
      /\ pending' = raised \cup (IF Hit # {} THEN {"CHLD"} ELSE {})
  BY DEF Kill
<1>2. \A p \in Hit : /\ kern[p] \in {"running", "stopped"}
                     /\ After(s, kern[p]) \in {"running", "stopped", "exited"} \ {kern[p]}
                     /\ After(s, kern[p]) = "running" => s = "CONT"
  BY DEF After
<1>3. /\ kern \in [Procs -> {"none", "running", "stopped", "exited", "reaped"}]
      /\ note \in [Procs -> {"none", "continued", "stopped", "exited"}]
  BY DEF TypeOK
<1> HIDE DEF Hit
<1>4. Hit \subseteq P
  BY DEF Hit
<1>5. ASSUME NEW p \in Procs, p \in Hit
      PROVE  /\ kern'[p] = After(s, kern[p]) /\ note'[p] = ReportOf(kern'[p])
             /\ kern'[p] \in {"running", "stopped", "exited"}
             /\ note'[p] \in {"continued", "stopped", "exited"}
  BY <1>1, <1>2, <1>5 DEF ReportOf
<1>6. ASSUME NEW p \in Procs, p \notin Hit PROVE kern'[p] = kern[p] /\ note'[p] = note[p]
  BY <1>1, <1>6
<1>7. kern' \in [Procs -> {"none", "running", "stopped", "exited", "reaped"}]
  BY <1>1, <1>3, <1>5, <1>6
<1>8. note' \in [Procs -> {"none", "continued", "stopped", "exited"}]
  BY <1>1, <1>3, <1>5, <1>6
<1> QED
  BY <1>1, <1>2, <1>4, <1>5, <1>6, <1>7, <1>8 DEF Struck

\* If there are foreground jobs, the first of them is one.
LEMMA FirstOfThem ==
    ASSUME HasForeground
    PROVE  TheForeground \in Foreground
<1>1. Foreground \subseteq Nat /\ Foreground # {}
  BY BoundsAssumption DEF HasForeground, Foreground, JobNums
<1>2. OpToRel(<, Nat) = {ss \in Nat \X Nat : ss[1] < ss[2]}
  BY DEF OpToRel
<1>3. \E n \in Foreground : \A m \in Foreground : ~(<<m, n>> \in OpToRel(<, Nat))
  BY <1>1, NatLessThanWellFounded, WFMin
<1>4. PICK n \in Foreground :
         \A m \in Foreground : ~(<<m, n>> \in {ss \in Nat \X Nat : ss[1] < ss[2]})
  BY <1>2, <1>3, Zenon
<1>5. ASSUME NEW m \in Foreground, m < n PROVE FALSE
  <2>1. <<m, n>> \in Nat \X Nat /\ <<m, n>>[1] = m /\ <<m, n>>[2] = n
    BY <1>1
  <2> QED
    BY <1>4, <1>5, <2>1
<1>6. \A m \in Foreground : n <= m
  BY <1>1, <1>5
<1> QED
  BY <1>6 DEF TheForeground

\* A handler returns to where the shell was, or ends a sigsuspend.
LEMMA Returned ==
    ASSUME Return
    PROVE  pc' = pc \/ (pc = "suspended" /\ pc' = "loop")
BY DEF Return

\* A process that is listed is listed with a job.
LEMMA ListedJob ==
    ASSUME TypeOK, JobInv, NEW p \in Procs, Listed(p)
    PROVE  /\ p[1] \in JobNums /\ joblist[p[1]] \in Job /\ p[2] \in 1..Len(joblist[p[1]].processes)
           /\ joblist[p[1]].processes # <<>> /\ joblist[p[1]].state \in {"foreground", "background"}
<1>1. p[1] \in JobNums /\ joblist[p[1]] \in Job
  BY DEF Procs, TypeOK
<1>2. joblist[p[1]].processes \in Seq(ProcessStates)
  BY <1>1 DEF Job
<1>3. p[2] \in 1..Len(joblist[p[1]].processes)
  BY <1>2 DEF Listed
<1>4. joblist[p[1]].processes # <<>>
  BY <1>2, <1>3
<1> QED
  BY <1>1, <1>3, <1>4 DEF JobInv, SizesInv, Job

\* The processes of the job in the foreground.
LEMMA OfOne ==
    ASSUME TypeOK, JobInv, HasForeground
    PROVE  ProcsOf(TheForeground) \subseteq Procs
<1>1. TheForeground \in JobNums
  BY FirstOfThem DEF Foreground
<1>2. /\ joblist[TheForeground].processes \in Seq(ProcessStates)
      /\ Len(joblist[TheForeground].processes) <= MaxSize
  BY <1>1 DEF TypeOK, Job, JobInv, SizesInv
<1> QED
  BY <1>1, <1>2, BoundsAssumption DEF ProcsOf, Procs

\* The list after a report: an entry of a job changes, and the job is gone when
\* all its processes have ended.
Updated(p) ==
    LET n == p[1]
        before == joblist[n].processes
        after == [before EXCEPT ![p[2]] = ToListed(note[p])]
    IN /\ p[2] \in DOMAIN before /\ after \in Seq(ProcessStates) /\ Len(after) = Len(before)
       /\ ToListed(note[p]) \in ProcessStates
       /\ \E job \in Job :
             /\ joblist' = [joblist EXCEPT ![n] = job]
             /\ \/ /\ job.state = "absent" /\ job.processes = <<>>
                   /\ \A i \in DOMAIN after : after[i] = "terminated"
                \/ /\ job.processes = after
                   /\ \E i \in DOMAIN after : after[i] \in {"running", "stopped"}
                   /\ \/ job.state = joblist[n].state
                      \/ job.state = "background" /\ \A i \in DOMAIN after : after[i] # "running"

\* ChildUpdate does that.
LEMMA ChildUpdated ==
    ASSUME TypeOK, NEW p \in Procs, ChildUpdate(p)
    PROVE  Updated(p)
<1> DEFINE n == p[1]
           before == joblist[n].processes
           after == [before EXCEPT ![p[2]] = ToListed(note[p])]
           job == Synchronized(joblist[n], after)
           Some(S) == \E i \in DOMAIN after : after[i] \in S
<1>1. n \in JobNums /\ joblist \in [JobNums -> Job] /\ joblist[n] \in Job
  BY DEF TypeOK, Procs
<1>2. before \in Seq(ProcessStates) /\ joblist[n].state \in {"absent", "foreground", "background"}
  BY <1>1 DEF Job
<1>3. ToListed(note[p]) \in ProcessStates
  BY DEF ToListed, ProcessStates
<1>4. p[2] \in DOMAIN before /\ joblist' = [joblist EXCEPT ![n] = job]
  BY DEF ChildUpdate, Listed
<1>5. after \in Seq(ProcessStates) /\ Len(after) = Len(before) /\ DOMAIN after = 1..Len(after)
  BY <1>2, <1>3, <1>4
<1> HIDE DEF after, before
<1>6. job = IF ~Some({"running", "stopped"}) THEN NoProcess
            ELSE [state |-> IF Some({"running"}) THEN joblist[n].state ELSE "background",
                  processes |-> after]
  BY DEF Synchronized
<1>7. CASE ~Some({"running", "stopped"})
  <2>1. job = NoProcess
    BY <1>6, <1>7
  <2>2. \A i \in DOMAIN after : after[i] = "terminated"
    BY <1>5, <1>7 DEF ProcessStates
  <2>3. job \in Job /\ job.state = "absent" /\ job.processes = <<>>
    BY <2>1 DEF NoProcess, Job
  <2> QED
    BY <1>3, <1>4, <1>5, <2>2, <2>3 DEF Updated, after, before
<1>8. CASE Some({"running", "stopped"})
  <2>1. CASE Some({"running"})
    <3>1. job = [state |-> joblist[n].state, processes |-> after]
      BY <1>6, <1>8, <2>1
    <3>2. job \in Job /\ job.state = joblist[n].state /\ job.processes = after
      BY <1>2, <1>5, <3>1 DEF Job
    <3> QED
      BY <1>3, <1>4, <1>5, <1>8, <3>2 DEF Updated, after, before
  <2>2. CASE ~Some({"running"})
    <3>1. job = [state |-> "background", processes |-> after]
      BY <1>6, <1>8, <2>2
    <3>2. job \in Job /\ job.state = "background" /\ job.processes = after
      BY <1>2, <1>5, <3>1 DEF Job
    <3>3. \A i \in DOMAIN after : after[i] # "running"
      BY <2>2
    <3> QED
      BY <1>3, <1>4, <1>5, <1>8, <3>2, <3>3 DEF Updated, after, before
  <2> QED
    BY <2>1, <2>2
<1> QED
  BY <1>7, <1>8

\* Most steps leave the jobs with the processes they have, or without any.
ListKept ==
    \A n \in JobNums :
       \/ joblist'[n].state = "absent" /\ joblist'[n].processes = <<>>
       \/ /\ Len(joblist'[n].processes) = Len(joblist[n].processes)
          /\ joblist'[n].state = "absent" <=> joblist[n].state = "absent"
KeepsBare(n) == joblist[n].processes = <<>> => joblist'[n].state = joblist[n].state

\* SetState does, and changes the state of one job.
LEMMA StateKept ==
    ASSUME TypeOK, NEW n \in JobNums, NEW s \in {"foreground", "background"}, SetState(n, s),
           joblist[n].state # "absent"
    PROVE  /\ ListKept
           /\ \A m \in JobNums : /\ joblist'[m].processes = joblist[m].processes
                                 /\ joblist'[m].state = IF m = n THEN s ELSE joblist[m].state
<1>1. joblist \in [JobNums -> Job] /\ joblist[n] \in Job
  BY DEF TypeOK
<1>2. joblist' = [joblist EXCEPT ![n] = [joblist[n] EXCEPT !.state = s]]
  BY DEF SetState
<1>3. joblist'[n].processes = joblist[n].processes /\ joblist'[n].state = s
  BY <1>1, <1>2 DEF Job
<1>4. \A m \in JobNums \ {n} : joblist'[m] = joblist[m]
  BY <1>1, <1>2
<1> QED
  BY <1>3, <1>4 DEF ListKept

\* ChildUpdate does.
LEMMA UpdateKept ==
    ASSUME TypeOK, JobInv, NEW p \in Procs, ChildUpdate(p)
    PROVE  ListKept /\ \A n \in JobNums : KeepsBare(n)
<1>1. Updated(p) /\ p[1] \in JobNums
  BY ChildUpdated DEF Procs
<1>2. joblist[p[1]].state # "absent" /\ joblist[p[1]].processes # <<>>
  BY <1>1 DEF JobInv, SizesInv, Updated
<1>3. PICK job \in Job :
         /\ joblist' = [joblist EXCEPT ![p[1]] = job]
         /\ \/ job.state = "absent" /\ job.processes = <<>>
            \/ /\ Len(job.processes) = Len(joblist[p[1]].processes)
               /\ job.state # "absent"
  BY <1>1, <1>2 DEF Updated
<1> QED
  BY <1>1, <1>2, <1>3 DEF TypeOK, ListKept, KeepsBare

\* A process is its job and its place in it.
LEMMA Pair ==
    ASSUME NEW p \in Procs
    PROVE  p[1] \in JobNums /\ p[2] \in 1..MaxSize /\ p = <<p[1], p[2]>>
BY DEF Procs

\* A report and what becomes of the entries of the list.
Relists(p) ==
    /\ note[p] # "none" /\ note'[p] = "none"
    /\ kern'[p] = IF note[p] = "exited" THEN "reaped" ELSE kern[p]
    /\ \A q \in Procs \ {p} : kern'[q] = kern[q] /\ note'[q] = note[q]
    /\ \A q \in Procs :
          LET state == IF q = p THEN ToListed(note[p]) ELSE ListedState(q)
          IN /\ Listed(q)' => Listed(q) /\ ListedState(q)' = state
             /\ Listed(q) => Listed(q)' \/ state = "terminated"

\* ChildUpdate does that.
LEMMA Relisted ==
    ASSUME TypeOK, NEW p \in Procs, ChildUpdate(p)
    PROVE  Relists(p)
<1> USE Pair
<1>1. /\ kern \in [Procs -> {"none", "running", "stopped", "exited", "reaped"}]
      /\ note \in [Procs -> {"none", "continued", "stopped", "exited"}]
      /\ joblist \in [JobNums -> Job]
  BY DEF TypeOK
<1>2. /\ note[p] # "none" /\ note' = [note EXCEPT ![p] = "none"]
      /\ kern' = IF note[p] = "exited" THEN [kern EXCEPT ![p] = "reaped"] ELSE kern
  BY DEF ChildUpdate, Reported
<1> DEFINE n == p[1]
           before == joblist[n].processes
           after == [before EXCEPT ![p[2]] = ToListed(note[p])]
<1>3. /\ p[2] \in DOMAIN before
      /\ \E job \in Job :
            /\ joblist' = [joblist EXCEPT ![n] = job]
            /\ \/ job.processes = <<>> /\ \A i \in DOMAIN after : after[i] = "terminated"
               \/ job.processes = after
  BY ChildUpdated DEF Updated
<1>4. PICK job \in Job :
         /\ joblist' = [joblist EXCEPT ![n] = job]
         /\ \/ job.processes = <<>> /\ \A i \in DOMAIN after : after[i] = "terminated"
            \/ job.processes = after
  BY <1>3
<1>5. DOMAIN after = DOMAIN before /\ n \in JobNums
  OBVIOUS
<1>6. \A i \in DOMAIN before : after[i] = IF i = p[2] THEN ToListed(note[p]) ELSE before[i]
  OBVIOUS
<1> HIDE DEF after
<1>7. ASSUME NEW q \in Procs, q[1] # n
      PROVE  (Listed(q)' <=> Listed(q)) /\ ListedState(q)' = ListedState(q) /\ q # p
  BY <1>1, <1>4, <1>7 DEF Listed, ListedState
<1>8. ASSUME NEW q \in Procs, q[1] = n
      PROVE  LET state == IF q = p THEN ToListed(note[p]) ELSE ListedState(q)
             IN /\ Listed(q)' => Listed(q) /\ ListedState(q)' = state
                /\ Listed(q) => Listed(q)' \/ state = "terminated"
  <2>1. q = p <=> q[2] = p[2]
    BY <1>8
  <2>2. joblist'[n] = job
    BY <1>1, <1>4, <1>5
  <2>3. Listed(q) => after[q[2]] = IF q = p THEN ToListed(note[p]) ELSE ListedState(q)
    BY <1>6, <1>8, <2>1 DEF Listed, ListedState
  <2>4. CASE job.processes = after
    BY <1>5, <1>8, <2>2, <2>3, <2>4 DEF Listed, ListedState
  <2>5. CASE job.processes = <<>> /\ \A i \in DOMAIN after : after[i] = "terminated"
    <3>1. ~Listed(q)'
      BY <1>8, <2>2, <2>5 DEF Listed
    <3>2. Listed(q) => after[q[2]] = "terminated"
      BY <1>5, <1>8, <2>5 DEF Listed
    <3> QED
      BY <2>3, <3>1, <3>2
  <2> QED
    BY <1>4, <2>4, <2>5
<1> QED
  BY <1>1, <1>2, <1>7, <1>8 DEF Relists

\* addProcess() adds one to a job that is in the list.
LEMMA Added ==
    ASSUME TypeOK, AddProcess, cur \in JobNums
    PROVE  \A n \in JobNums :
              \/ (n # cur \/ ~Contains(cur)) /\ joblist'[n] = joblist[n]
              \/ /\ n = cur /\ Contains(cur)
                 /\ Len(joblist'[n].processes) = Len(joblist[n].processes) + 1
                 /\ joblist'[n].processes = Append(joblist[n].processes, "running")
                 /\ joblist'[n].state = joblist[n].state
<1>1. joblist \in [JobNums -> Job] /\ joblist[cur] \in Job
  BY DEF TypeOK
<1>2. Len(Append(joblist[cur].processes, "running")) = Len(joblist[cur].processes) + 1
  BY <1>1 DEF Job
<1>3. CASE Contains(cur)
  <2>1. joblist' = [joblist EXCEPT ![cur] =
                       [joblist[cur] EXCEPT !.processes = Append(@, "running")]]
    BY <1>3 DEF AddProcess
  <2>2. /\ joblist'[cur].processes = Append(joblist[cur].processes, "running")
        /\ joblist'[cur].state = joblist[cur].state
    BY <1>1, <2>1 DEF Job
  <2> QED
    BY <1>1, <1>2, <1>3, <2>1, <2>2
<1>4. CASE ~Contains(cur)
  BY <1>4 DEF AddProcess
<1> QED
  BY <1>3, <1>4

\* A process that addProcess() lists is the one that was forked last.
LEMMA AddedLists ==
    ASSUME TypeOK, JobInv, AddProcess
    PROVE  /\ cur \in JobNums /\ <<cur, index>> \in Procs
           /\ \A q \in Procs :
                 /\ Listed(q) => Listed(q)'
                 /\ q = <<cur, index>> /\ Contains(cur) => Listed(q)' /\ ~Listed(q)
                 /\ Listed(q)' => \/ Listed(q) /\ ListedState(q)' = ListedState(q)
                                  \/ q = <<cur, index>> /\ ListedState(q)' = "running"
<1> USE Pair
<1>1. /\ cur \in JobNums /\ index \in 1..MaxSize
      /\ Contains(cur) => Len(joblist[cur].processes) = index - 1
  <2>1. wanted \in 0..MaxSize /\ MaxSize \in Nat
    BY BoundsAssumption DEF TypeOK
  <2>2. /\ cur \in JobNums /\ index \in 1..wanted
        /\ Contains(cur) => Len(joblist[cur].processes) = index - 1
    BY DEF AddProcess, Step, JobInv, CreateInv, Creating, Adding
  <2> QED
    BY <2>1, <2>2
<1>2. \A n \in JobNums : joblist[n].processes \in Seq(ProcessStates)
  BY DEF TypeOK, Job
<1>3. \A n \in JobNums :
         \/ (n # cur \/ ~Contains(cur)) /\ joblist'[n] = joblist[n]
         \/ /\ n = cur /\ Contains(cur)
            /\ joblist'[n].processes = Append(joblist[n].processes, "running")
  BY <1>1, Added
<1>4. ASSUME NEW q \in Procs, q[1] # cur \/ ~Contains(cur)
      PROVE  (Listed(q)' <=> Listed(q)) /\ ListedState(q)' = ListedState(q)
  BY <1>3, <1>4 DEF Listed, ListedState
<1>5. ASSUME Contains(cur)
      PROVE  LET before == joblist[cur].processes
                 after == joblist'[cur].processes
             IN /\ DOMAIN before = 1..(index - 1) /\ DOMAIN after = 1..index
                /\ after[index] = "running" /\ \A i \in 1..(index - 1) : after[i] = before[i]
  BY <1>1, <1>2, <1>3, <1>5 DEF ProcessStates
<1>6. ASSUME NEW q \in Procs, q[1] = cur, Contains(cur)
      PROVE  /\ Listed(q) => Listed(q)' /\ ListedState(q)' = ListedState(q)
             /\ Listed(q)' => Listed(q) \/ (q = <<cur, index>> /\ ListedState(q)' = "running")
             /\ q = <<cur, index>> => Listed(q)' /\ ~Listed(q)
  <2> DEFINE before == joblist[cur].processes
             after == joblist'[cur].processes
  <2>1. (Listed(q) <=> q[2] \in DOMAIN before) /\ (Listed(q)' <=> q[2] \in DOMAIN after)
    BY <1>6 DEF Listed
  <2>2. ListedState(q) = before[q[2]] /\ ListedState(q)' = after[q[2]]
    BY <1>6 DEF ListedState
  <2>3. q = <<cur, index>> <=> q[2] = index
    BY <1>6
  <2> QED
    BY <1>1, <1>5, <1>6, <2>1, <2>2, <2>3
<1>7. <<cur, index>> \in Procs /\ <<cur, index>>[1] = cur
  BY <1>1 DEF Procs
<1>8. ASSUME NEW q \in Procs
      PROVE  /\ Listed(q) => Listed(q)'
             /\ q = <<cur, index>> /\ Contains(cur) => Listed(q)' /\ ~Listed(q)
             /\ Listed(q)' => \/ Listed(q) /\ ListedState(q)' = ListedState(q)
                              \/ q = <<cur, index>> /\ ListedState(q)' = "running"
  BY <1>4, <1>6, <1>7
<1> QED
  BY <1>1, <1>7, <1>8

\* What a step does to the processes and to what the list says of them.
ListsSame == \A q \in Procs : (Listed(q)' <=> Listed(q)) /\ ListedState(q)' = ListedState(q)
\* createJob starts with a job of its own, and adds what it has forked.
MovesOn ==
    /\ session' = session /\ next' >= next
    /\ pc = "add" \/ pc' = "add" => UNCHANGED <<pc, cur, index>>
    /\ pc' \in {"background", "fork"} =>
          (pc \in {"background", "fork"} /\ UNCHANGED <<cur, index>>) \/ cur' = next
Strikes(P, s) == Struck(P, s) /\ ListsSame /\ MovesOn
Affects ==
    \/ \E P \in SUBSET Procs, s \in {"EXIT", "STOP", "INT", "TSTP", "CONT", "KILL"} : Strikes(P, s)
    \/ Fork \/ AddProcess
    \/ \E p \in Procs : ChildUpdate(p) \/ ChildUnknown(p)

\* Nobody is struck when nothing is done to the processes.
LEMMA NoneStruck ==
    ASSUME TypeOK, UNCHANGED procs, ListsSame, MovesOn
    PROVE  Affects
<1>1. Struck({}, "EXIT")
  BY DEF TypeOK, procs, Struck
<1> QED
  BY <1>1 DEF Strikes, Affects

\* Jobs that keep their processes, or are gone, are as alive as before.
StaysAdding == pc \in Adding => pc' \in Adding /\ cur' = cur
SameProcesses(n) == joblist'[n].processes = joblist[n].processes

\* Such a step keeps a job alive.
LEMMA AliveKept ==
    ASSUME AliveInv, NEW n \in JobNums, session.keys = 0, StaysAdding, SameProcesses(n),
           Contains(n)' => Contains(n)
    PROVE  Alive(n)'
<1>1. Alive(n) /\ (HasLive(n)' <=> HasLive(n))
  BY DEF AliveInv, HasLive, SameProcesses
<1> QED
  BY <1>1 DEF Alive, StaysAdding

\* A job in the foreground that has been created has a process to give the
\* terminal to.
LEMMA ReapedNotAll ==
    ASSUME IInv, HasForeground, session.keys = 0, pc \notin Adding,
           \A p \in ProcsOf(TheForeground) : kern[p] = "reaped"
    PROVE  FALSE
<1>1. TheForeground \in Foreground /\ TheForeground \in JobNums
  BY FirstOfThem DEF Foreground
<1>2. PICK i \in DOMAIN joblist[TheForeground].processes :
         joblist[TheForeground].processes[i] \in {"running", "stopped"}
  BY <1>1 DEF IInv, AliveInv, Alive, HasLive, Contains, Foreground
<1> DEFINE p == <<TheForeground, i>>
<1>3. p \in ProcsOf(TheForeground) /\ p \in Procs
  BY <1>2, OfOne DEF ProcsOf, IInv
<1>4. Listed(p) /\ ListedState(p) \in {"running", "stopped"}
  BY <1>2 DEF Listed, ListedState
<1>5. Real(p) /\ Reports(p) /\ kern[p] = "reaped"
  BY <1>3 DEF IInv, RealInv, ReportInv
<1> HIDE DEF p
<1> QED
  BY <1>4, <1>5 DEF Real, Matches, Reports

\* Only what is sent to continue a process is reported so.
NewNotes(P) == \A p \in Procs \ P : note'[p] = "continued" => note[p] = "continued"

\* A signal that hits P makes new notes there, if it is CONT.
LEMMA StruckNotes ==
    ASSUME NEW P, NEW s, Struck(P, s)
    PROVE  NewNotes(P) /\ (s # "CONT" => NewNotes({}))
BY DEF Struck, NewNotes, ReportOf

\* While the shell has the terminal, only jobs in the foreground matter.
LEMMA AtPrompt ==
    ASSUME NoneContinued, NEW P, NewNotes(P), terminal' = NoJob,
           Foreground' \subseteq Foreground, \A p \in P : p[1] \notin Foreground'
    PROVE  NoneContinued' /\ NoneRunning'
BY DEF NoneContinued, NoneRunning, NewNotes, Procs, JobNums, NoJob

-----------------------------------------------------------------------------
(* The steps.                                                              *)

\* Every variable keeps its type.
LEMMA TypeOKStep ==
    ASSUME IInv, Next
    PROVE  TypeOK'
<1> USE BoundsAssumption
<1> USE DEF IInv, Step, vars, shell, jobs, signals, procs, bounds, TypeOK, Labels, Signals,
           KeySignals, Job, Procs, JobNums, NoJob, ProcessStates
<1>1. ASSUME NEW p \in Procs, ProcessExits(p) PROVE TypeOK'
  <2>1. Struck({p}, "EXIT") /\ pending' \subseteq pending \cup {"CHLD"}
    BY <1>1, Killed DEF ProcessExits
  <2> QED
    BY <1>1, <2>1 DEF ProcessExits, Struck
<1>2. ASSUME NEW p \in Procs, ProcessStops(p) PROVE TypeOK'
  <2>1. Struck({p}, "STOP") /\ pending' \subseteq pending \cup {"CHLD"}
    BY <1>2, Killed DEF ProcessStops
  <2> QED
    BY <1>2, <2>1 DEF ProcessStops, Struck
<1>3. ASSUME NEW s \in KeySignals, Key(s) PROVE TypeOK'
  BY <1>3 DEF Key
<1>4. CASE ChildEnter
  BY <1>4 DEF ChildEnter, Delivered, Push
<1>5. CASE ChildReturn
  <2>1. pc' = pc \/ (pc = "suspended" /\ pc' = "loop")
    BY <1>5, Returned DEF ChildReturn
  <2> QED
    BY <1>5, <2>1 DEF ChildReturn
<1>6. CASE KeyReturn
  <2>1. pc' = pc \/ (pc = "suspended" /\ pc' = "loop")
    BY <1>6, Returned DEF KeyReturn
  <2> QED
    BY <1>6, <2>1 DEF KeyReturn
<1>7. ASSUME NEW p \in Procs, ChildUpdate(p) PROVE TypeOK'
  <2>1. Updated(p)
    BY <1>7, ChildUpdated
  <2>2. PICK job \in Job : joblist' = [joblist EXCEPT ![p[1]] = job]
    BY <2>1 DEF Updated
  <2>3. joblist' \in [JobNums -> Job]
    BY <2>2
  <2> QED
    BY <1>7, <2>3 DEF ChildUpdate, Reported
<1>8. ASSUME NEW p \in Procs, ChildUnknown(p) PROVE TypeOK'
  <2>1. pc' = pc \/ (pc = "suspended" /\ pc' = "loop")
    BY <1>8, Returned DEF ChildUnknown
  <2> QED
    BY <1>8, <2>1 DEF ChildUnknown, Reported
<1>9. ASSUME NEW s \in KeySignals, KeyEnter(s) PROVE TypeOK'
  <2>1. Struck(ProcsOf(TheForeground), s) /\ pending' \subseteq pending \cup {"CHLD"}
    BY <1>9, Killed DEF KeyEnter
  <2> QED
    BY <1>9, <2>1 DEF KeyEnter, Delivered, Push, Struck
<1>10. ASSUME NEW s \in KeySignals, KeyIgnored(s) PROVE TypeOK'
  BY <1>10 DEF KeyIgnored, Delivered
<1>11. ASSUME NEW k \in 1..MaxSize, NEW bg \in BOOLEAN, Begin(k, bg) PROVE TypeOK'
  BY <1>11 DEF Begin
<1>12. CASE ToBackground
  BY <1>12 DEF ToBackground, SetState
<1>13. CASE Fork
  BY <1>13 DEF Fork
<1>14. CASE AddProcess
  <2>1. cur \in JobNums /\ index \in Nat
    BY <1>14 DEF AddProcess, JobInv, CreateInv, Creating
  <2>2. Append(joblist[cur].processes, "running") \in Seq(ProcessStates)
    BY <2>1
  <2>3. joblist' \in [JobNums -> Job]
    <3>1. [joblist[cur] EXCEPT !.processes = Append(@, "running")] \in Job
      BY <2>1, <2>2 DEF Job
    <3>2. \/ joblist' = [joblist EXCEPT ![cur].processes = Append(@, "running")]
          \/ joblist' = joblist
      BY <1>14 DEF AddProcess
    <3> QED
      BY <2>1, <3>1, <3>2
  <2> QED
    BY <1>14, <2>1, <2>3, SMTT(30) DEF AddProcess
<1>15. CASE Created
  BY <1>15 DEF Created
<1>16. CASE Transfer
  BY <1>16 DEF Transfer
<1>17. CASE Block
  BY <1>17 DEF Block
<1>18. CASE Suspend
  BY <1>18 DEF Suspend
<1>19. CASE LoopEnds
  BY <1>19 DEF LoopEnds
<1>20. CASE Take
  BY <1>20 DEF Take
<1>21. CASE Give
  <2>1. HasForeground => TheForeground \in JobNums
    BY FirstOfThem DEF Foreground
  <2>2. terminal' \in 0..MaxJobs
    BY <1>21, <2>1 DEF Give
  <2>3. pc' \in Labels
    BY <1>21 DEF Give
  <2> QED
    BY <1>21, <2>2, <2>3 DEF Give
<1>22. ASSUME NEW n \in JobNums, UserFg(n) PROVE TypeOK'
  <2>1. Len(joblist[n].processes) \in 0..MaxSize
    BY <1>22 DEF UserFg, JobInv, SizesInv
  <2> QED
    BY <1>22, <2>1 DEF UserFg
<1>23. ASSUME NEW n \in JobNums, UserBg(n) PROVE TypeOK'
  <2>1. n \in JobNums /\ Len(joblist[n].processes) \in 0..MaxSize
    BY <1>23 DEF UserBg, JobInv, SizesInv, CreateInv
  <2>2. [joblist[n] EXCEPT !.state = "foreground"] \in Job
        /\ [joblist[n] EXCEPT !.state = "background"] \in Job
    BY <2>1
  <2>3. joblist' \in [JobNums -> Job]
    BY <1>23, <2>1, <2>2 DEF UserBg, SetState
  <2> QED
    BY <1>23, <2>1, <2>3 DEF UserBg, SetState
<1>24. CASE FgSet
  <2>1. cur \in JobNums /\ Len(joblist[cur].processes) \in 0..MaxSize
    BY <1>24 DEF FgSet, JobInv, SizesInv, CreateInv
  <2>2. [joblist[cur] EXCEPT !.state = "foreground"] \in Job
        /\ [joblist[cur] EXCEPT !.state = "background"] \in Job
    BY <2>1
  <2>3. joblist' \in [JobNums -> Job]
    BY <1>24, <2>1, <2>2 DEF FgSet, SetState
  <2> QED
    BY <1>24, <2>1, <2>3 DEF FgSet, SetState
<1>25. CASE FgContinue
  <2>1. Struck({<<cur, index>>}, "CONT") /\ pending' \subseteq pending \cup {"CHLD"}
    BY <1>25, Killed DEF FgContinue
  <2> QED
    BY <1>25, <2>1 DEF FgContinue, Struck
<1>26. CASE BgContinue
  <2>1. Struck({<<cur, index>>}, "CONT") /\ pending' \subseteq pending \cup {"CHLD"}
    BY <1>26, Killed DEF BgContinue
  <2> QED
    BY <1>26, <2>1 DEF BgContinue, Struck
<1>27. ASSUME NEW p \in Procs, NEW form \in Forms, UserSlay(p, form) PROVE TypeOK'
  <2>1. Struck({p}, "KILL") /\ pending' \subseteq pending \cup {"CHLD"}
    BY <1>27, Killed DEF UserSlay
  <2> QED
    BY <1>27, <2>1 DEF UserSlay, Struck
<1>28. ASSUME NEW p \in Procs, NEW form \in Forms, UserHalt(p, form) PROVE TypeOK'
  <2>1. Struck({p}, "TSTP") /\ pending' \subseteq pending \cup {"CHLD"}
    BY <1>28, Killed DEF UserHalt
  <2> QED
    BY <1>28, <2>1 DEF UserHalt, Struck
<1>29. ASSUME NEW p \in Procs, NEW form \in Forms, UserCont(p, form) PROVE TypeOK'
  <2>1. CASE Continues(p, form)
    <3>1. Struck({p}, "CONT") /\ pending' \subseteq pending \cup {"CHLD"}
      BY <1>29, <2>1, Killed DEF UserCont
    <3>4. p[1] \in JobNums /\ joblist[p[1]] \in Job
      OBVIOUS
    <3>2. p[1] \in JobNums /\ [joblist[p[1]] EXCEPT !.state = "background"] \in Job
      BY <3>4
    <3>3. joblist' \in [JobNums -> Job]
      BY <1>29, <2>1, <3>2 DEF UserCont, SetState
    <3> QED
      BY <1>29, <2>1, <3>1, <3>3 DEF UserCont, Struck
  <2>2. CASE ~Continues(p, form)
    BY <1>29, <2>2 DEF UserCont, procs
  <2> QED
    BY <2>1, <2>2
<1> QED
  BY <1>1, <1>2, <1>3, <1>4, <1>5, <1>6, <1>7, <1>8, <1>9, <1>10, <1>11, <1>12, <1>13, <1>14,
     <1>15, <1>16, <1>17, <1>18, <1>19, <1>20, <1>21, <1>22, <1>23, <1>24, <1>25, <1>26, <1>27,
     <1>28, <1>29
     DEF Next, Shell, World, CreateJob, TransferControl, Builtin, Handlers

\* The jobs keep their sizes, but for the one that is created.
LEMMA SizesInvStep ==
    ASSUME IInv, Next
    PROVE  SizesInv'
<1> USE BoundsAssumption
<1> USE DEF IInv, Step, vars, shell, jobs, signals, procs, bounds, JobInv, SizesInv, CreateInv,
           Contains, Creating, Adding, JobNums
<1> /\ next \in 1..(MaxJobs + 1) /\ wanted \in 0..MaxSize /\ copy \in 0..MaxSize
    /\ index \in Nat /\ cur \in 0..MaxJobs /\ joblist \in [JobNums -> Job]
    /\ \A n \in JobNums : Len(joblist[n].processes) \in Nat
  BY DEF TypeOK, Job
<1>1. ASSUME NEW p \in Procs, ProcessExits(p) \/ ProcessStops(p) PROVE SizesInv'
  BY <1>1 DEF ProcessExits, ProcessStops
<1>2. ASSUME NEW s \in KeySignals, Key(s) PROVE SizesInv'
  BY <1>2 DEF Key
<1>3. CASE ChildEnter
  BY <1>3 DEF ChildEnter, Delivered, Push
<1>4. CASE ChildReturn
  <2>1. pc' = pc \/ (pc = "suspended" /\ pc' = "loop")
    BY <1>4, Returned DEF ChildReturn
  <2> QED
    BY <1>4, <2>1 DEF ChildReturn
<1>5. CASE KeyReturn
  <2>1. pc' = pc \/ (pc = "suspended" /\ pc' = "loop")
    BY <1>5, Returned DEF KeyReturn
  <2> QED
    BY <1>5, <2>1 DEF KeyReturn
<1>6. ASSUME NEW p \in Procs, ChildUpdate(p) PROVE SizesInv'
  <2>1. ListKept /\ \A n \in JobNums : KeepsBare(n)
    BY <1>6, UpdateKept
  <2>2. UNCHANGED <<pc, cur, index, wanted, next>>
    BY <1>6 DEF ChildUpdate
  <2>3. pc = "background" => joblist[cur].processes = <<>> /\ cur \in JobNums
    BY DEF Job
  <2>4. pc = "background" => Contains(cur)'
    BY <2>1, <2>2, <2>3 DEF KeepsBare
  <2> HIDE DEF KeepsBare
  <2> QED
    BY <2>1, <2>2, <2>4 DEF ListKept
<1>7. ASSUME NEW p \in Procs, ChildUnknown(p) PROVE SizesInv'
  <2>1. pc' = pc \/ (pc = "suspended" /\ pc' = "loop")
    BY <1>7, Returned DEF ChildUnknown
  <2> QED
    BY <1>7, <2>1 DEF ChildUnknown, Reported
<1>8. ASSUME NEW s \in KeySignals, KeyEnter(s) PROVE SizesInv'
  BY <1>8 DEF KeyEnter, Delivered, Push
<1>9. ASSUME NEW s \in KeySignals, KeyIgnored(s) PROVE SizesInv'
  BY <1>9 DEF KeyIgnored, Delivered
<1>10. ASSUME NEW k \in 1..MaxSize, NEW bg \in BOOLEAN, Begin(k, bg) PROVE SizesInv'
  BY <1>10 DEF Begin
<1>11. CASE ToBackground
  <2>1. ListKept
    BY <1>11, StateKept DEF ToBackground
  <2> QED
    BY <1>11, <2>1 DEF ToBackground, ListKept
<1>12. CASE Fork
  BY <1>12 DEF Fork
<1>13. CASE AddProcess
  <2>1. \A n \in JobNums :
           \/ (n # cur \/ ~Contains(cur)) /\ joblist'[n] = joblist[n]
           \/ /\ n = cur /\ Contains(cur)
              /\ Len(joblist'[n].processes) = Len(joblist[n].processes) + 1
              /\ joblist'[n].state = joblist[n].state
    <3>1. cur \in JobNums
      BY <1>13 DEF AddProcess
    <3> QED
      BY <1>13, <3>1, Added
  <2>2. /\ pc = "add" /\ pc' = IF index < wanted THEN "fork" ELSE "created"
        /\ index' = index + 1 /\ UNCHANGED <<cur, wanted, next>>
    BY <1>13 DEF AddProcess
  <2>3. cur = next - 1 /\ cur \in JobNums /\ index \in 1..wanted
        /\ (Contains(cur) => Len(joblist[cur].processes) = index - 1)
    BY <2>2
  <2>4. Contains(cur)' => Contains(cur) /\ Len(joblist'[cur].processes) = index
    BY <2>1, <2>2, <2>3
  <2>5. CASE index < wanted
    BY <2>1, <2>2, <2>3, <2>4, <2>5
  <2>6. CASE ~(index < wanted)
    BY <2>1, <2>2, <2>3, <2>6
  <2> QED
    BY <2>5, <2>6
<1>14. CASE Created
  BY <1>14 DEF Created
<1>15. CASE Transfer
  BY <1>15 DEF Transfer
<1>16. CASE Block
  BY <1>16 DEF Block
<1>17. CASE Suspend
  BY <1>17 DEF Suspend
<1>18. CASE LoopEnds
  BY <1>18 DEF LoopEnds
<1>19. CASE Take
  BY <1>19 DEF Take
<1>20. CASE Give
  BY <1>20 DEF Give
<1>21. ASSUME NEW n \in JobNums, UserFg(n) PROVE SizesInv'
  BY <1>21 DEF UserFg
<1>22. ASSUME NEW n \in JobNums, UserBg(n) PROVE SizesInv'
  <2>1. CASE joblist[n].state = "foreground"
    <3>1. ListKept
      BY <1>22, <2>1, StateKept DEF UserBg
    <3> QED
      BY <1>22, <3>1 DEF UserBg, ListKept
  <2>2. CASE ~(joblist[n].state = "foreground")
    BY <1>22, <2>2 DEF UserBg
  <2> QED
    BY <2>1, <2>2
<1>23. CASE FgSet
  <2>1. CASE joblist[cur].state = "background"
    <3>1. ListKept
      BY <1>23, <2>1, StateKept DEF FgSet
    <3> QED
      BY <1>23, <3>1 DEF FgSet, ListKept
  <2>2. CASE ~(joblist[cur].state = "background")
    BY <1>23, <2>2 DEF FgSet
  <2> QED
    BY <2>1, <2>2
<1>24. CASE FgContinue \/ BgContinue
  BY <1>24 DEF FgContinue, BgContinue
<1>25. ASSUME NEW p \in Procs, NEW form \in Forms, UserSlay(p, form) \/ UserHalt(p, form)
      PROVE  SizesInv'
  BY <1>25 DEF UserSlay, UserHalt
<1>26. ASSUME NEW p \in Procs, NEW form \in Forms, UserCont(p, form) PROVE SizesInv'
  <2>1. CASE Continues(p, form)
    <3>1. ListKept
      BY <1>26, <2>1, StateKept, ListedJob DEF UserCont
    <3> QED
      BY <1>26, <3>1 DEF UserCont, ListKept
  <2>2. CASE ~Continues(p, form)
    BY <1>26, <2>2 DEF UserCont
  <2> QED
    BY <2>1, <2>2
<1> QED
  BY <1>1, <1>2, <1>3, <1>4, <1>5, <1>6, <1>7, <1>8, <1>9, <1>10, <1>11, <1>12, <1>13, <1>14,
     <1>15, <1>16, <1>17, <1>18, <1>19, <1>20, <1>21, <1>22, <1>23, <1>24, <1>25, <1>26
     DEF Next, Shell, World, CreateJob, TransferControl, Builtin, Handlers

\* The job that is created is the last.
LEMMA CreateInvStep ==
    ASSUME IInv, Next
    PROVE  CreateInv'
<1> USE BoundsAssumption
<1> USE DEF IInv, Step, vars, shell, jobs, signals, procs, bounds, JobInv, SizesInv, CreateInv,
           Contains, Creating, Adding, JobNums
<1> /\ next \in 1..(MaxJobs + 1) /\ wanted \in 0..MaxSize /\ copy \in 0..MaxSize
    /\ index \in Nat /\ cur \in 0..MaxJobs /\ joblist \in [JobNums -> Job]
    /\ \A n \in JobNums : Len(joblist[n].processes) \in Nat
  BY DEF TypeOK, Job
<1>1. ASSUME NEW p \in Procs, ProcessExits(p) \/ ProcessStops(p) PROVE CreateInv'
  BY <1>1 DEF ProcessExits, ProcessStops
<1>2. ASSUME NEW s \in KeySignals, Key(s) PROVE CreateInv'
  BY <1>2 DEF Key
<1>3. CASE ChildEnter
  BY <1>3 DEF ChildEnter, Delivered, Push
<1>4. CASE ChildReturn
  <2>1. pc' = pc \/ (pc = "suspended" /\ pc' = "loop")
    BY <1>4, Returned DEF ChildReturn
  <2> QED
    BY <1>4, <2>1 DEF ChildReturn
<1>5. CASE KeyReturn
  <2>1. pc' = pc \/ (pc = "suspended" /\ pc' = "loop")
    BY <1>5, Returned DEF KeyReturn
  <2> QED
    BY <1>5, <2>1 DEF KeyReturn
<1>6. ASSUME NEW p \in Procs, ChildUpdate(p) PROVE CreateInv'
  <2>1. ListKept /\ \A n \in JobNums : KeepsBare(n)
    BY <1>6, UpdateKept
  <2>2. UNCHANGED <<pc, cur, index, wanted, next>>
    BY <1>6 DEF ChildUpdate
  <2>3. pc = "background" => joblist[cur].processes = <<>> /\ cur \in JobNums
    BY DEF Job
  <2>4. pc = "background" => Contains(cur)'
    BY <2>1, <2>2, <2>3 DEF KeepsBare
  <2> HIDE DEF KeepsBare
  <2> QED
    BY <2>1, <2>2, <2>4 DEF ListKept
<1>7. ASSUME NEW p \in Procs, ChildUnknown(p) PROVE CreateInv'
  <2>1. pc' = pc \/ (pc = "suspended" /\ pc' = "loop")
    BY <1>7, Returned DEF ChildUnknown
  <2> QED
    BY <1>7, <2>1 DEF ChildUnknown, Reported
<1>8. ASSUME NEW s \in KeySignals, KeyEnter(s) PROVE CreateInv'
  BY <1>8 DEF KeyEnter, Delivered, Push
<1>9. ASSUME NEW s \in KeySignals, KeyIgnored(s) PROVE CreateInv'
  BY <1>9 DEF KeyIgnored, Delivered
<1>10. ASSUME NEW k \in 1..MaxSize, NEW bg \in BOOLEAN, Begin(k, bg) PROVE CreateInv'
  BY <1>10 DEF Begin
<1>11. CASE ToBackground
  <2>1. ListKept
    BY <1>11, StateKept DEF ToBackground
  <2> QED
    BY <1>11, <2>1 DEF ToBackground, ListKept
<1>12. CASE Fork
  BY <1>12 DEF Fork
<1>13. CASE AddProcess
  <2>1. \A n \in JobNums :
           \/ (n # cur \/ ~Contains(cur)) /\ joblist'[n] = joblist[n]
           \/ /\ n = cur /\ Contains(cur)
              /\ Len(joblist'[n].processes) = Len(joblist[n].processes) + 1
              /\ joblist'[n].state = joblist[n].state
    <3>1. cur \in JobNums
      BY <1>13 DEF AddProcess
    <3> QED
      BY <1>13, <3>1, Added
  <2>2. /\ pc = "add" /\ pc' = IF index < wanted THEN "fork" ELSE "created"
        /\ index' = index + 1 /\ UNCHANGED <<cur, wanted, next>>
    BY <1>13 DEF AddProcess
  <2>3. cur = next - 1 /\ cur \in JobNums /\ index \in 1..wanted
        /\ (Contains(cur) => Len(joblist[cur].processes) = index - 1)
    BY <2>2
  <2>4. Contains(cur)' => Contains(cur) /\ Len(joblist'[cur].processes) = index
    BY <2>1, <2>2, <2>3
  <2>5. CASE index < wanted
    BY <2>1, <2>2, <2>3, <2>4, <2>5
  <2>6. CASE ~(index < wanted)
    BY <2>1, <2>2, <2>3, <2>6
  <2> QED
    BY <2>5, <2>6
<1>14. CASE Created
  BY <1>14 DEF Created
<1>15. CASE Transfer
  BY <1>15 DEF Transfer
<1>16. CASE Block
  BY <1>16 DEF Block
<1>17. CASE Suspend
  BY <1>17 DEF Suspend
<1>18. CASE LoopEnds
  BY <1>18 DEF LoopEnds
<1>19. CASE Take
  BY <1>19 DEF Take
<1>20. CASE Give
  BY <1>20 DEF Give
<1>21. ASSUME NEW n \in JobNums, UserFg(n) PROVE CreateInv'
  BY <1>21 DEF UserFg
<1>22. ASSUME NEW n \in JobNums, UserBg(n) PROVE CreateInv'
  <2>1. CASE joblist[n].state = "foreground"
    <3>1. ListKept
      BY <1>22, <2>1, StateKept DEF UserBg
    <3> QED
      BY <1>22, <3>1 DEF UserBg, ListKept
  <2>2. CASE ~(joblist[n].state = "foreground")
    BY <1>22, <2>2 DEF UserBg
  <2> QED
    BY <2>1, <2>2
<1>23. CASE FgSet
  <2>1. CASE joblist[cur].state = "background"
    <3>1. ListKept
      BY <1>23, <2>1, StateKept DEF FgSet
    <3> QED
      BY <1>23, <3>1 DEF FgSet, ListKept
  <2>2. CASE ~(joblist[cur].state = "background")
    BY <1>23, <2>2 DEF FgSet
  <2> QED
    BY <2>1, <2>2
<1>24. CASE FgContinue \/ BgContinue
  BY <1>24 DEF FgContinue, BgContinue
<1>25. ASSUME NEW p \in Procs, NEW form \in Forms, UserSlay(p, form) \/ UserHalt(p, form)
      PROVE  CreateInv'
  BY <1>25 DEF UserSlay, UserHalt
<1>26. ASSUME NEW p \in Procs, NEW form \in Forms, UserCont(p, form) PROVE CreateInv'
  <2>1. CASE Continues(p, form)
    <3>1. ListKept
      BY <1>26, <2>1, StateKept, ListedJob DEF UserCont
    <3> QED
      BY <1>26, <3>1 DEF UserCont, ListKept
  <2>2. CASE ~Continues(p, form)
    BY <1>26, <2>2 DEF UserCont
  <2> QED
    BY <2>1, <2>2
<1> QED
  BY <1>1, <1>2, <1>3, <1>4, <1>5, <1>6, <1>7, <1>8, <1>9, <1>10, <1>11, <1>12, <1>13, <1>14,
     <1>15, <1>16, <1>17, <1>18, <1>19, <1>20, <1>21, <1>22, <1>23, <1>24, <1>25, <1>26
     DEF Next, Shell, World, CreateJob, TransferControl, Builtin, Handlers

\* A step strikes some processes, or it is one of those that change the list.
LEMMA AffectsThem ==
    ASSUME IInv, Next
    PROVE  Affects
<1> USE BoundsAssumption
<1> TypeOK /\ JobInv
  BY DEF IInv
<1> next \in Nat
  BY DEF IInv, TypeOK
<1> USE DEF Step, vars, shell, jobs, signals, procs, bounds
<1>1. ASSUME NEW p \in Procs, ProcessExits(p) PROVE Affects
  <2>1. {p} \subseteq Procs
    OBVIOUS
  <2>2. Struck({p}, "EXIT")
    BY <1>1, Killed DEF ProcessExits
  <2>3. ListsSame /\ MovesOn
    BY <1>1 DEF ProcessExits, ListsSame, Listed, ListedState, MovesOn
  <2>4. Strikes({p}, "EXIT")
    BY <2>2, <2>3 DEF Strikes
  <2> QED
    BY <2>1, <2>4 DEF Affects, KeySignals
<1>2. ASSUME NEW p \in Procs, ProcessStops(p) PROVE Affects
  <2>1. {p} \subseteq Procs
    OBVIOUS
  <2>2. Struck({p}, "STOP")
    BY <1>2, Killed DEF ProcessStops
  <2>3. ListsSame /\ MovesOn
    BY <1>2 DEF ProcessStops, ListsSame, Listed, ListedState, MovesOn
  <2>4. Strikes({p}, "STOP")
    BY <2>2, <2>3 DEF Strikes
  <2> QED
    BY <2>1, <2>4 DEF Affects, KeySignals
<1>3. ASSUME NEW s \in KeySignals, Key(s) PROVE Affects
  <2>1. UNCHANGED <<kern, note>> /\ ListsSame
    BY <1>3 DEF Key, ListsSame, Listed, ListedState
  <2>2. MovesOn
    BY <1>3 DEF Key, MovesOn
  <2> QED
    BY <2>1, <2>2, NoneStruck
<1>4. CASE ChildEnter
  <2>1. UNCHANGED <<kern, note>> /\ ListsSame
    BY <1>4 DEF ChildEnter, Delivered, Push, ListsSame, Listed, ListedState
  <2>2. MovesOn
    BY <1>4 DEF ChildEnter, Delivered, Push, MovesOn
  <2> QED
    BY <2>1, <2>2, NoneStruck
<1>5. CASE ChildReturn
  <2>1. UNCHANGED <<kern, note>> /\ ListsSame
    BY <1>5 DEF ChildReturn, ListsSame, Listed, ListedState
  <2>2. MovesOn
    BY <1>5, Returned DEF ChildReturn, MovesOn
  <2> QED
    BY <2>1, <2>2, NoneStruck
<1>6. CASE KeyReturn
  <2>1. UNCHANGED <<kern, note>> /\ ListsSame
    BY <1>6 DEF KeyReturn, ListsSame, Listed, ListedState
  <2>2. MovesOn
    BY <1>6, Returned DEF KeyReturn, MovesOn
  <2> QED
    BY <2>1, <2>2, NoneStruck
<1>7. ASSUME NEW p \in Procs, ChildUpdate(p) PROVE Affects
  BY <1>7 DEF Affects
<1>8. ASSUME NEW p \in Procs, ChildUnknown(p) PROVE Affects
  BY <1>8 DEF Affects
<1>9. ASSUME NEW s \in KeySignals, KeyEnter(s) PROVE Affects
  <2>1. ProcsOf(TheForeground) \subseteq Procs
    BY <1>9, OfOne DEF KeyEnter
  <2>2. Struck(ProcsOf(TheForeground), s)
    BY <1>9, Killed DEF KeyEnter
  <2>3. ListsSame /\ MovesOn
    BY <1>9 DEF KeyEnter, ListsSame, Listed, ListedState, MovesOn
  <2>4. Strikes(ProcsOf(TheForeground), s)
    BY <2>2, <2>3 DEF Strikes
  <2> QED
    BY <2>1, <2>4 DEF Affects, KeySignals
<1>10. ASSUME NEW s \in KeySignals, KeyIgnored(s) PROVE Affects
  <2>1. UNCHANGED <<kern, note>> /\ ListsSame
    BY <1>10 DEF KeyIgnored, Delivered, ListsSame, Listed, ListedState
  <2>2. MovesOn
    BY <1>10 DEF KeyIgnored, Delivered, MovesOn
  <2> QED
    BY <2>1, <2>2, NoneStruck
<1>11. ASSUME NEW k \in 1..MaxSize, NEW bg \in BOOLEAN, Begin(k, bg) PROVE Affects
  <2>1. next \in JobNums /\ joblist \in [JobNums -> Job] /\ joblist[next].processes = <<>>
    BY <1>11 DEF Begin, IInv, TypeOK, JobInv, SizesInv, JobNums
  <2>2. \A m \in JobNums : joblist'[m].processes = joblist[m].processes
    BY <1>11, <2>1 DEF Begin
  <2>3. ListsSame
    BY <2>2, Pair DEF ListsSame, Listed, ListedState
  <2>4. UNCHANGED <<kern, note>> /\ MovesOn
    BY <1>11 DEF Begin, MovesOn
  <2> QED
    BY <2>3, <2>4, NoneStruck
<1>12. CASE ToBackground
  <2>1. \A m \in JobNums : joblist'[m].processes = joblist[m].processes
    BY <1>12, StateKept DEF ToBackground, IInv, JobInv, CreateInv, Creating, Contains
  <2>2. ListsSame
    BY <2>1, Pair DEF ListsSame, Listed, ListedState
  <2>3. UNCHANGED <<kern, note>> /\ MovesOn
    BY <1>12 DEF ToBackground, MovesOn
  <2> QED
    BY <2>2, <2>3, NoneStruck
<1>13. CASE Fork
  BY <1>13 DEF Affects
<1>14. CASE AddProcess
  BY <1>14 DEF Affects
<1>15. CASE Created
  <2>1. UNCHANGED <<kern, note>> /\ ListsSame
    BY <1>15 DEF Created, ListsSame, Listed, ListedState
  <2>2. MovesOn
    BY <1>15 DEF Created, MovesOn
  <2> QED
    BY <2>1, <2>2, NoneStruck
<1>16. CASE Transfer
  <2>1. UNCHANGED <<kern, note>> /\ ListsSame
    BY <1>16 DEF Transfer, ListsSame, Listed, ListedState
  <2>2. MovesOn
    BY <1>16 DEF Transfer, MovesOn
  <2> QED
    BY <2>1, <2>2, NoneStruck
<1>17. CASE Block
  <2>1. UNCHANGED <<kern, note>> /\ ListsSame
    BY <1>17 DEF Block, ListsSame, Listed, ListedState
  <2>2. MovesOn
    BY <1>17 DEF Block, MovesOn
  <2> QED
    BY <2>1, <2>2, NoneStruck
<1>18. CASE Suspend
  <2>1. UNCHANGED <<kern, note>> /\ ListsSame
    BY <1>18 DEF Suspend, ListsSame, Listed, ListedState
  <2>2. MovesOn
    BY <1>18 DEF Suspend, MovesOn
  <2> QED
    BY <2>1, <2>2, NoneStruck
<1>19. CASE LoopEnds
  <2>1. UNCHANGED <<kern, note>> /\ ListsSame
    BY <1>19 DEF LoopEnds, ListsSame, Listed, ListedState
  <2>2. MovesOn
    BY <1>19 DEF LoopEnds, MovesOn
  <2> QED
    BY <2>1, <2>2, NoneStruck
<1>20. CASE Take
  <2>1. UNCHANGED <<kern, note>> /\ ListsSame
    BY <1>20 DEF Take, ListsSame, Listed, ListedState
  <2>2. MovesOn
    BY <1>20 DEF Take, MovesOn
  <2> QED
    BY <2>1, <2>2, NoneStruck
<1>21. CASE Give
  <2>1. UNCHANGED <<kern, note>> /\ ListsSame
    BY <1>21 DEF Give, ListsSame, Listed, ListedState
  <2>2. MovesOn
    BY <1>21 DEF Give, MovesOn
  <2> QED
    BY <2>1, <2>2, NoneStruck
<1>22. ASSUME NEW n \in JobNums, UserFg(n) PROVE Affects
  <2>1. UNCHANGED <<kern, note>> /\ ListsSame
    BY <1>22 DEF UserFg, ListsSame, Listed, ListedState
  <2>2. MovesOn
    BY <1>22 DEF UserFg, MovesOn
  <2> QED
    BY <2>1, <2>2, NoneStruck
<1>23. ASSUME NEW n \in JobNums, UserBg(n) PROVE Affects
  <2>1. \A m \in JobNums : joblist'[m].processes = joblist[m].processes
    <3>1. CASE joblist[n].state = "foreground"
      BY <1>23, <3>1, StateKept DEF UserBg
    <3>2. CASE ~(joblist[n].state = "foreground")
      BY <1>23, <3>2 DEF UserBg
    <3> QED
      BY <3>1, <3>2
  <2>2. ListsSame
    BY <2>1, Pair DEF ListsSame, Listed, ListedState
  <2>3. UNCHANGED <<kern, note>> /\ MovesOn
    BY <1>23 DEF UserBg, MovesOn
  <2> QED
    BY <2>2, <2>3, NoneStruck
<1>24. CASE FgSet
  <2>1. \A m \in JobNums : joblist'[m].processes = joblist[m].processes
    <3>1. CASE joblist[cur].state = "background"
      BY <1>24, <3>1, StateKept DEF FgSet, IInv, JobInv, CreateInv
    <3>2. CASE ~(joblist[cur].state = "background")
      BY <1>24, <3>2 DEF FgSet
    <3> QED
      BY <3>1, <3>2
  <2>2. ListsSame
    BY <2>1, Pair DEF ListsSame, Listed, ListedState
  <2>3. UNCHANGED <<kern, note>> /\ MovesOn
    BY <1>24 DEF FgSet, MovesOn
  <2> QED
    BY <2>2, <2>3, NoneStruck
<1>25. CASE FgContinue
  <2>1. {<<cur, index>>} \subseteq Procs
    BY <1>25 DEF FgContinue, IInv, JobInv, CreateInv, Procs
  <2>2. Struck({<<cur, index>>}, "CONT")
    BY <1>25, Killed DEF FgContinue
  <2>3. ListsSame /\ MovesOn
    BY <1>25 DEF FgContinue, ListsSame, Listed, ListedState, MovesOn
  <2>4. Strikes({<<cur, index>>}, "CONT")
    BY <2>2, <2>3 DEF Strikes
  <2> QED
    BY <2>1, <2>4 DEF Affects, KeySignals
<1>26. CASE BgContinue
  <2>1. {<<cur, index>>} \subseteq Procs
    BY <1>26 DEF BgContinue, IInv, JobInv, CreateInv, Procs
  <2>2. Struck({<<cur, index>>}, "CONT")
    BY <1>26, Killed DEF BgContinue
  <2>3. ListsSame /\ MovesOn
    BY <1>26 DEF BgContinue, ListsSame, Listed, ListedState, MovesOn
  <2>4. Strikes({<<cur, index>>}, "CONT")
    BY <2>2, <2>3 DEF Strikes
  <2> QED
    BY <2>1, <2>4 DEF Affects, KeySignals
<1>27. ASSUME NEW p \in Procs, NEW form \in Forms, UserSlay(p, form) PROVE Affects
  <2>1. {p} \subseteq Procs
    OBVIOUS
  <2>2. Struck({p}, "KILL")
    BY <1>27, Killed DEF UserSlay
  <2>3. ListsSame /\ MovesOn
    BY <1>27 DEF UserSlay, ListsSame, Listed, ListedState, MovesOn
  <2>4. Strikes({p}, "KILL")
    BY <2>2, <2>3 DEF Strikes
  <2> QED
    BY <2>1, <2>4 DEF Affects, KeySignals
<1>28. ASSUME NEW p \in Procs, NEW form \in Forms, UserHalt(p, form) PROVE Affects
  <2>1. {p} \subseteq Procs
    OBVIOUS
  <2>2. Struck({p}, "TSTP")
    BY <1>28, Killed DEF UserHalt
  <2>3. ListsSame /\ MovesOn
    BY <1>28 DEF UserHalt, ListsSame, Listed, ListedState, MovesOn
  <2>4. Strikes({p}, "TSTP")
    BY <2>2, <2>3 DEF Strikes
  <2> QED
    BY <2>1, <2>4 DEF Affects, KeySignals
<1>29. ASSUME NEW p \in Procs, NEW form \in Forms, UserCont(p, form) PROVE Affects
  <2>1. MovesOn
    BY <1>29 DEF UserCont, MovesOn
  <2>2. CASE Continues(p, form)
    <3>1. Struck({p}, "CONT")
      BY <1>29, <2>2, Killed DEF UserCont
    <3>2. p[1] \in JobNums /\ joblist[p[1]].state # "absent" /\ SetState(p[1], "background")
      BY <1>29, <2>2, ListedJob DEF UserCont, IInv
    <3>3. \A m \in JobNums : joblist'[m].processes = joblist[m].processes
      BY <3>2, StateKept
    <3>4. ListsSame
      BY <3>3, Pair DEF ListsSame, Listed, ListedState
    <3> QED
      BY <2>1, <3>1, <3>4 DEF Strikes, Affects
  <2>3. CASE ~Continues(p, form)
    <3>1. UNCHANGED <<kern, note>> /\ ListsSame
      BY <1>29, <2>3 DEF UserCont, ListsSame, Listed, ListedState
    <3> QED
      BY <2>1, <3>1, NoneStruck
  <2> QED
    BY <2>2, <2>3
<1> QED
  BY <1>1, <1>2, <1>3, <1>4, <1>5, <1>6, <1>7, <1>8, <1>9, <1>10, <1>11, <1>12, <1>13, <1>14,
     <1>15, <1>16, <1>17, <1>18, <1>19, <1>20, <1>21, <1>22, <1>23, <1>24, <1>25, <1>26, <1>27,
     <1>28, <1>29
     DEF Next, Shell, World, CreateJob, TransferControl, Builtin, Handlers

\* Without ^C and ^Z nobody interrupts createJob.
LEMMA AloneInvStep ==
    ASSUME IInv, Next
    PROVE  AloneInv'
<1> USE BoundsAssumption
<1> USE DEF AloneInv, Contains, Creating, Signals, KeySignals, Step, vars, shell, jobs, signals,
           procs, bounds
<1> TypeOK /\ JobInv /\ AloneInv /\ keys \in Nat
  BY DEF IInv, KeptOutInv, TypeOK
<1>1. ASSUME NEW p \in Procs, ProcessExits(p) PROVE AloneInv'
  <2>1. Struck({p}, "EXIT") /\ pending' \subseteq pending \cup {"CHLD"}
    BY <1>1, Killed DEF ProcessExits
  <2> QED
    BY <1>1, <2>1 DEF ProcessExits
<1>2. ASSUME NEW p \in Procs, ProcessStops(p) PROVE AloneInv'
  <2>1. Struck({p}, "STOP") /\ pending' \subseteq pending \cup {"CHLD"}
    BY <1>2, Killed DEF ProcessStops
  <2> QED
    BY <1>2, <2>1 DEF ProcessStops
<1>3. ASSUME NEW s \in KeySignals, Key(s) PROVE AloneInv'
  <2>1. keys < session.keys
    BY <1>3 DEF Key
  <2>2. session.keys # 0 /\ UNCHANGED session
    BY <1>3, <2>1 DEF Key
  <2> QED
    BY <2>2
<1>4. CASE ChildEnter
  BY <1>4 DEF ChildEnter, Delivered, Push
<1>5. CASE ChildReturn
  <2>1. stack # <<>> /\ UNCHANGED <<pending, cur, joblist, session>>
    BY <1>5 DEF ChildReturn, Running
  <2>2. pc' = pc \/ pc' = "loop"
    BY <1>5, Returned DEF ChildReturn
  <2> QED
    BY <2>1, <2>2
<1>6. CASE KeyReturn
  <2>1. stack # <<>> /\ UNCHANGED <<pending, cur, joblist, session>>
    BY <1>6 DEF KeyReturn, Running
  <2>2. pc' = pc \/ pc' = "loop"
    BY <1>6, Returned DEF KeyReturn
  <2> QED
    BY <2>1, <2>2
<1>7. ASSUME NEW p \in Procs, ChildUpdate(p) PROVE AloneInv'
  <2>1. stack # <<>> /\ UNCHANGED <<pc, pending, session>>
    BY <1>7 DEF ChildUpdate, Reported, Running
  <2> QED
    BY <2>1
<1>8. ASSUME NEW p \in Procs, ChildUnknown(p) PROVE AloneInv'
  <2>1. stack # <<>> /\ UNCHANGED <<pending, cur, joblist, session>>
    BY <1>8 DEF ChildUnknown, Reported, Running
  <2>2. pc' = pc \/ pc' = "loop"
    BY <1>8, Returned DEF ChildUnknown
  <2> QED
    BY <2>1, <2>2
<1>9. ASSUME NEW s \in KeySignals, KeyEnter(s) PROVE AloneInv'
  <2>1. s \in pending /\ UNCHANGED session
    BY <1>9 DEF KeyEnter, Delivered
  <2> QED
    BY <2>1
<1>10. ASSUME NEW s \in KeySignals, KeyIgnored(s) PROVE AloneInv'
  BY <1>10 DEF KeyIgnored, Delivered
<1>11. ASSUME NEW k \in 1..MaxSize, NEW bg \in BOOLEAN, Begin(k, bg) PROVE AloneInv'
  <2>1. next \in JobNums /\ joblist \in [JobNums -> Job]
    BY <1>11 DEF Begin, IInv, TypeOK, JobNums
  <2>2. Contains(cur)'
    BY <1>11, <2>1 DEF Begin
  <2> QED
    BY <1>11, <2>2 DEF Begin
<1>12. CASE ToBackground
  <2>1. /\ UNCHANGED <<pending, stack, mask, cur, session>> /\ pc = "background" /\ pc' = "fork"
    BY <1>12 DEF ToBackground
  <2>2. Contains(cur)'
    <3>1. cur \in JobNums /\ joblist[cur].state # "absent" /\ SetState(cur, "background")
      BY <1>12, <2>1 DEF ToBackground, IInv, JobInv, CreateInv
    <3> QED
      BY <2>1, <3>1, StateKept
  <2> QED
    BY <2>1, <2>2
<1>13. CASE Fork
  BY <1>13 DEF Fork
<1>14. CASE AddProcess
  <2>1. /\ UNCHANGED <<pending, stack, mask, cur, session>>
        /\ pc = "add" /\ pc' \in {"fork", "created"}
    BY <1>14 DEF AddProcess
  <2>2. Contains(cur)' <=> Contains(cur)
    <3>1. cur \in JobNums
      BY <2>1 DEF IInv, JobInv, CreateInv
    <3> QED
      BY <1>14, <2>1, <3>1, Added
  <2> QED
    BY <2>1, <2>2
<1>15. CASE Created
  BY <1>15 DEF Created
<1>16. CASE Transfer
  BY <1>16 DEF Transfer
<1>17. CASE Block
  BY <1>17 DEF Block
<1>18. CASE Suspend
  BY <1>18 DEF Suspend
<1>19. CASE LoopEnds
  BY <1>19 DEF LoopEnds
<1>20. CASE Take
  BY <1>20 DEF Take
<1>21. CASE Give
  BY <1>21 DEF Give
<1>22. ASSUME NEW n \in JobNums, UserFg(n) PROVE AloneInv'
  BY <1>22 DEF UserFg
<1>23. ASSUME NEW n \in JobNums, UserBg(n) PROVE AloneInv'
  BY <1>23 DEF UserBg, SetState
<1>24. CASE FgSet
  BY <1>24 DEF FgSet, SetState
<1>25. CASE FgContinue
  <2>1. Struck({<<cur, index>>}, "CONT") /\ pending' \subseteq pending \cup {"CHLD"}
    BY <1>25, Killed DEF FgContinue
  <2> QED
    BY <1>25, <2>1 DEF FgContinue
<1>26. CASE BgContinue
  <2>1. Struck({<<cur, index>>}, "CONT") /\ pending' \subseteq pending \cup {"CHLD"}
    BY <1>26, Killed DEF BgContinue
  <2> QED
    BY <1>26, <2>1 DEF BgContinue
<1>27. ASSUME NEW p \in Procs, NEW form \in Forms, UserSlay(p, form) PROVE AloneInv'
  <2>1. Struck({p}, "KILL") /\ pending' \subseteq pending \cup {"CHLD"}
    BY <1>27, Killed DEF UserSlay
  <2> QED
    BY <1>27, <2>1 DEF UserSlay
<1>28. ASSUME NEW p \in Procs, NEW form \in Forms, UserHalt(p, form) PROVE AloneInv'
  <2>1. Struck({p}, "TSTP") /\ pending' \subseteq pending \cup {"CHLD"}
    BY <1>28, Killed DEF UserHalt
  <2> QED
    BY <1>28, <2>1 DEF UserHalt
<1>29. ASSUME NEW p \in Procs, NEW form \in Forms, UserCont(p, form) PROVE AloneInv'
  <2>1. pending' \subseteq pending \cup {"CHLD"}
    <3>1. CASE Continues(p, form)
      BY <1>29, <3>1, Killed DEF UserCont
    <3>2. CASE ~Continues(p, form)
      BY <1>29, <3>2 DEF UserCont
    <3> QED
      BY <3>1, <3>2
  <2>2. pc' = "repl" /\ UNCHANGED session
    BY <1>29 DEF UserCont
  <2> QED
    BY <2>1, <2>2
<1> QED
  BY <1>1, <1>2, <1>3, <1>4, <1>5, <1>6, <1>7, <1>8, <1>9, <1>10, <1>11, <1>12, <1>13, <1>14,
     <1>15, <1>16, <1>17, <1>18, <1>19, <1>20, <1>21, <1>22, <1>23, <1>24, <1>25, <1>26, <1>27,
     <1>28, <1>29
     DEF Next, Shell, World, CreateJob, TransferControl, Builtin, Handlers

\* A job that has been created keeps a process that has not ended, or is gone.
LEMMA AliveInvStep ==
    ASSUME IInv, Next
    PROVE  AliveInv'
<1> USE BoundsAssumption
<1> USE DEF Step, vars, shell, jobs, signals, procs, bounds
<1> TypeOK /\ JobInv /\ AliveInv
  BY DEF IInv
<1>0. joblist' = joblist /\ session' = session /\ StaysAdding => AliveInv'
  BY AliveKept DEF SameProcesses, Contains, AliveInv
<1>1. ASSUME NEW p \in Procs, ProcessExits(p) PROVE AliveInv'
  <2>1. joblist' = joblist /\ session' = session /\ StaysAdding
    BY <1>1 DEF ProcessExits, StaysAdding, Adding
  <2> QED
    BY <2>1, <1>0
<1>2. ASSUME NEW p \in Procs, ProcessStops(p) PROVE AliveInv'
  <2>1. joblist' = joblist /\ session' = session /\ StaysAdding
    BY <1>2 DEF ProcessStops, StaysAdding, Adding
  <2> QED
    BY <2>1, <1>0
<1>3. ASSUME NEW s \in KeySignals, Key(s) PROVE AliveInv'
  <2>1. joblist' = joblist /\ session' = session /\ StaysAdding
    BY <1>3 DEF Key, StaysAdding, Adding
  <2> QED
    BY <2>1, <1>0
<1>4. CASE ChildEnter
  <2>1. joblist' = joblist /\ session' = session /\ StaysAdding
    BY <1>4 DEF ChildEnter, Delivered, Push, StaysAdding, Adding
  <2> QED
    BY <2>1, <1>0
<1>5. CASE ChildReturn
  <2>1. joblist' = joblist /\ session' = session /\ StaysAdding
    BY <1>5, Returned DEF ChildReturn, StaysAdding, Adding
  <2> QED
    BY <2>1, <1>0
<1>6. CASE KeyReturn
  <2>1. joblist' = joblist /\ session' = session /\ StaysAdding
    BY <1>6, Returned DEF KeyReturn, StaysAdding, Adding
  <2> QED
    BY <2>1, <1>0
<1>7. ASSUME NEW p \in Procs, ChildUpdate(p) PROVE AliveInv'
  <2>1. Updated(p) /\ p[1] \in JobNums
    BY <1>7, ChildUpdated, Pair
  <2>2. UNCHANGED <<session, pc, cur>> /\ StaysAdding
    BY <1>7 DEF ChildUpdate, StaysAdding
  <2>3. PICK job \in Job :
           /\ joblist' = [joblist EXCEPT ![p[1]] = job]
           /\ \/ job.state = "absent"
              \/ \E i \in DOMAIN job.processes : job.processes[i] \in {"running", "stopped"}
    BY <2>1 DEF Updated
  <2>4. joblist'[p[1]] = job /\ \A n \in JobNums \ {p[1]} : joblist'[n] = joblist[n]
    BY <2>1, <2>3 DEF TypeOK
  <2>5. Alive(p[1])'
    BY <2>1, <2>3, <2>4 DEF Alive, Contains, HasLive
  <2>6. ASSUME NEW n \in JobNums \ {p[1]}, session.keys = 0 PROVE Alive(n)'
    BY <2>2, <2>4, <2>6, AliveKept DEF SameProcesses, Contains
  <2> QED
    BY <2>2, <2>5, <2>6 DEF AliveInv
<1>8. ASSUME NEW p \in Procs, ChildUnknown(p) PROVE AliveInv'
  <2>1. joblist' = joblist /\ session' = session /\ StaysAdding
    BY <1>8, Returned DEF ChildUnknown, StaysAdding, Adding
  <2> QED
    BY <2>1, <1>0
<1>9. ASSUME NEW s \in KeySignals, KeyEnter(s) PROVE AliveInv'
  <2>1. joblist' = joblist /\ session' = session /\ StaysAdding
    BY <1>9 DEF KeyEnter, Delivered, Push, StaysAdding, Adding
  <2> QED
    BY <2>1, <1>0
<1>10. ASSUME NEW s \in KeySignals, KeyIgnored(s) PROVE AliveInv'
  <2>1. joblist' = joblist /\ session' = session /\ StaysAdding
    BY <1>10 DEF KeyIgnored, Delivered, StaysAdding, Adding
  <2> QED
    BY <2>1, <1>0
<1>11. ASSUME NEW k \in 1..MaxSize, NEW bg \in BOOLEAN, Begin(k, bg) PROVE AliveInv'
  <2>1. next \in JobNums /\ joblist \in [JobNums -> Job]
    BY <1>11 DEF Begin, IInv, TypeOK, JobNums
  <2>2. \A n \in JobNums \ {next} : joblist'[n] = joblist[n]
    BY <1>11, <2>1 DEF Begin
  <2>3. /\ StaysAdding /\ pc' \in Adding /\ cur' = next /\ session' = session
    BY <1>11 DEF Begin, StaysAdding, Adding
  <2>4. ASSUME NEW n \in JobNums, session.keys = 0, n # next PROVE Alive(n)'
    BY <2>2, <2>3, <2>4, AliveKept DEF SameProcesses, Contains
  <2>5. ASSUME NEW n \in JobNums, n = next PROVE Alive(n)'
    BY <2>3, <2>5 DEF Alive
  <2> QED
    BY <2>3, <2>4, <2>5 DEF AliveInv
<1>12. CASE ToBackground
  <2>1. \A m \in JobNums : SameProcesses(m) /\ (Contains(m)' => Contains(m))
    <3>1. /\ cur \in JobNums /\ joblist[cur].state # "absent"
          /\ SetState(cur, "background") \/ SetState(cur, "foreground")
      BY <1>12 DEF ToBackground, IInv, JobInv, CreateInv, Creating, Contains
    <3>2. ListKept /\ \A m \in JobNums : SameProcesses(m)
      BY <3>1, StateKept DEF SameProcesses
    <3>3. \A m \in JobNums : Contains(m)' => Contains(m)
      BY <3>2 DEF ListKept, Contains
    <3> QED
      BY <3>2, <3>3
  <2>2. session' = session /\ StaysAdding
    BY <1>12 DEF ToBackground, StaysAdding, Adding
  <2>3. ASSUME NEW m \in JobNums, session.keys = 0 PROVE Alive(m)'
    BY <2>1, <2>2, <2>3, AliveKept
  <2> QED
    BY <2>2, <2>3 DEF AliveInv
<1>13. CASE Fork
  <2>1. joblist' = joblist /\ session' = session /\ StaysAdding
    BY <1>13 DEF Fork, StaysAdding, Adding
  <2> QED
    BY <2>1, <1>0
<1>14. CASE AddProcess
  <2>1. cur \in JobNums /\ cur' = cur /\ session' = session
    BY <1>14 DEF AddProcess, IInv, JobInv, CreateInv, Creating
  <2>2. \A n \in JobNums :
           \/ (n # cur \/ ~Contains(cur)) /\ joblist'[n] = joblist[n]
           \/ n = cur /\ joblist'[n].processes = Append(joblist[n].processes, "running")
    BY <1>14, <2>1, Added
  <2>3. joblist[cur].processes \in Seq(ProcessStates)
    BY <2>1 DEF TypeOK, Job
  <2>4. joblist'[cur].processes = Append(joblist[cur].processes, "running") => HasLive(cur)'
    <3>1. LET s == Append(joblist[cur].processes, "running")
          IN Len(s) \in DOMAIN s /\ s[Len(s)] = "running"
      BY <2>3 DEF ProcessStates
    <3> QED
      BY <2>1, <3>1 DEF HasLive
  <2>5. Contains(cur)' => Contains(cur) \/ HasLive(cur)'
    BY <2>1, <2>2, <2>4 DEF Contains
  <2>6. ASSUME NEW n \in JobNums, session.keys = 0 PROVE Alive(n)'
    <3>1. CASE n = cur
      BY <2>1, <2>2, <2>4, <2>5, <3>1 DEF Alive, Contains
    <3>2. CASE n # cur
      <4>1. joblist'[n] = joblist[n]
        BY <2>2, <3>2
      <4>2. (HasLive(n)' <=> HasLive(n)) /\ (Contains(n)' <=> Contains(n))
        BY <4>1 DEF HasLive, Contains
      <4>3. Alive(n)
        BY <2>6 DEF AliveInv
      <4> QED
        BY <3>2, <4>2, <4>3 DEF Alive
    <3> QED
      BY <3>1, <3>2
  <2> QED
    BY <2>1, <2>6 DEF AliveInv
<1>15. CASE Created
  <2>1. joblist' = joblist /\ session' = session /\ StaysAdding
    BY <1>15 DEF Created, StaysAdding, Adding
  <2> QED
    BY <2>1, <1>0
<1>16. CASE Transfer
  <2>1. joblist' = joblist /\ session' = session /\ StaysAdding
    BY <1>16 DEF Transfer, StaysAdding, Adding
  <2> QED
    BY <2>1, <1>0
<1>17. CASE Block
  <2>1. joblist' = joblist /\ session' = session /\ StaysAdding
    BY <1>17 DEF Block, StaysAdding, Adding
  <2> QED
    BY <2>1, <1>0
<1>18. CASE Suspend
  <2>1. joblist' = joblist /\ session' = session /\ StaysAdding
    BY <1>18 DEF Suspend, StaysAdding, Adding
  <2> QED
    BY <2>1, <1>0
<1>19. CASE LoopEnds
  <2>1. joblist' = joblist /\ session' = session /\ StaysAdding
    BY <1>19 DEF LoopEnds, StaysAdding, Adding
  <2> QED
    BY <2>1, <1>0
<1>20. CASE Take
  <2>1. joblist' = joblist /\ session' = session /\ StaysAdding
    BY <1>20 DEF Take, StaysAdding, Adding
  <2> QED
    BY <2>1, <1>0
<1>21. CASE Give
  <2>1. joblist' = joblist /\ session' = session /\ StaysAdding
    BY <1>21 DEF Give, StaysAdding, Adding
  <2> QED
    BY <2>1, <1>0
<1>22. ASSUME NEW n \in JobNums, UserFg(n) PROVE AliveInv'
  <2>1. joblist' = joblist /\ session' = session /\ StaysAdding
    BY <1>22 DEF UserFg, StaysAdding, Adding
  <2> QED
    BY <2>1, <1>0
<1>23. ASSUME NEW n \in JobNums, UserBg(n) PROVE AliveInv'
  <2>1. \A m \in JobNums : SameProcesses(m) /\ (Contains(m)' => Contains(m))
    <3>1. CASE joblist[n].state = "foreground"
      <4>1. /\ n \in JobNums /\ joblist[n].state # "absent"
            /\ SetState(n, "background") \/ SetState(n, "foreground")
        BY <1>23, <3>1 DEF UserBg
      <4>2. ListKept /\ \A m \in JobNums : SameProcesses(m)
        BY <4>1, StateKept DEF SameProcesses
      <4>3. \A m \in JobNums : Contains(m)' => Contains(m)
        BY <4>2 DEF ListKept, Contains
      <4> QED
        BY <4>2, <4>3
    <3>2. CASE ~(joblist[n].state = "foreground")
      BY <1>23, <3>2 DEF UserBg, SameProcesses, Contains
    <3> QED
      BY <3>1, <3>2
  <2>2. session' = session /\ StaysAdding
    BY <1>23 DEF UserBg, StaysAdding, Adding
  <2>3. ASSUME NEW m \in JobNums, session.keys = 0 PROVE Alive(m)'
    BY <2>1, <2>2, <2>3, AliveKept
  <2> QED
    BY <2>2, <2>3 DEF AliveInv
<1>24. CASE FgSet
  <2>1. \A m \in JobNums : SameProcesses(m) /\ (Contains(m)' => Contains(m))
    <3>1. CASE joblist[cur].state = "background"
      <4>1. /\ cur \in JobNums /\ joblist[cur].state # "absent"
            /\ SetState(cur, "background") \/ SetState(cur, "foreground")
        BY <1>24, <3>1 DEF FgSet, IInv, JobInv, CreateInv
      <4>2. ListKept /\ \A m \in JobNums : SameProcesses(m)
        BY <4>1, StateKept DEF SameProcesses
      <4>3. \A m \in JobNums : Contains(m)' => Contains(m)
        BY <4>2 DEF ListKept, Contains
      <4> QED
        BY <4>2, <4>3
    <3>2. CASE ~(joblist[cur].state = "background")
      BY <1>24, <3>2 DEF FgSet, SameProcesses, Contains
    <3> QED
      BY <3>1, <3>2
  <2>2. session' = session /\ StaysAdding
    BY <1>24 DEF FgSet, StaysAdding, Adding
  <2>3. ASSUME NEW m \in JobNums, session.keys = 0 PROVE Alive(m)'
    BY <2>1, <2>2, <2>3, AliveKept
  <2> QED
    BY <2>2, <2>3 DEF AliveInv
<1>25. CASE FgContinue
  <2>1. joblist' = joblist /\ session' = session /\ StaysAdding
    BY <1>25 DEF FgContinue, StaysAdding, Adding
  <2> QED
    BY <2>1, <1>0
<1>26. CASE BgContinue
  <2>1. joblist' = joblist /\ session' = session /\ StaysAdding
    BY <1>26 DEF BgContinue, StaysAdding, Adding
  <2> QED
    BY <2>1, <1>0
<1>27. ASSUME NEW p \in Procs, NEW form \in Forms, UserSlay(p, form) PROVE AliveInv'
  <2>1. joblist' = joblist /\ session' = session /\ StaysAdding
    BY <1>27 DEF UserSlay, StaysAdding, Adding
  <2> QED
    BY <2>1, <1>0
<1>28. ASSUME NEW p \in Procs, NEW form \in Forms, UserHalt(p, form) PROVE AliveInv'
  <2>1. joblist' = joblist /\ session' = session /\ StaysAdding
    BY <1>28 DEF UserHalt, StaysAdding, Adding
  <2> QED
    BY <2>1, <1>0
<1>29. ASSUME NEW p \in Procs, NEW form \in Forms, UserCont(p, form) PROVE AliveInv'
  <2>1. \A m \in JobNums : SameProcesses(m) /\ (Contains(m)' => Contains(m))
    <3>1. CASE Continues(p, form)
      <4>1. /\ p[1] \in JobNums /\ joblist[p[1]].state # "absent"
            /\ SetState(p[1], "background") \/ SetState(p[1], "foreground")
        BY <1>29, <3>1, ListedJob DEF UserCont
      <4>2. ListKept /\ \A m \in JobNums : SameProcesses(m)
        BY <4>1, StateKept DEF SameProcesses
      <4>3. \A m \in JobNums : Contains(m)' => Contains(m)
        BY <4>2 DEF ListKept, Contains
      <4> QED
        BY <4>2, <4>3
    <3>2. CASE ~(Continues(p, form))
      BY <1>29, <3>2 DEF UserCont, SameProcesses, Contains
    <3> QED
      BY <3>1, <3>2
  <2>2. session' = session /\ StaysAdding
    BY <1>29 DEF UserCont, StaysAdding, Adding
  <2>3. ASSUME NEW m \in JobNums, session.keys = 0 PROVE Alive(m)'
    BY <2>1, <2>2, <2>3, AliveKept
  <2> QED
    BY <2>2, <2>3 DEF AliveInv
<1> QED
  BY <1>1, <1>2, <1>3, <1>4, <1>5, <1>6, <1>7, <1>8, <1>9, <1>10, <1>11, <1>12, <1>13, <1>14,
     <1>15, <1>16, <1>17, <1>18, <1>19, <1>20, <1>21, <1>22, <1>23, <1>24, <1>25, <1>26, <1>27,
     <1>28, <1>29
     DEF Next, Shell, World, CreateJob, TransferControl, Builtin, Handlers

\* Only the job the command is about is in the foreground.
LEMMA FgInvStep ==
    ASSUME IInv, Next
    PROVE  FgInv'
<1> USE BoundsAssumption
<1> USE DEF FgInv, Single, Step, vars, shell, jobs, signals, procs, bounds
<1> TypeOK /\ JobInv /\ FgInv
  BY DEF IInv
<1>1. ASSUME NEW p \in Procs, ProcessExits(p) PROVE FgInv'
  <2>1. Foreground' = Foreground /\ session' = session
    BY <1>1 DEF ProcessExits, Foreground
  <2> QED
    BY <1>1, <2>1 DEF ProcessExits
<1>2. ASSUME NEW p \in Procs, ProcessStops(p) PROVE FgInv'
  <2>1. Foreground' = Foreground /\ session' = session
    BY <1>2 DEF ProcessStops, Foreground
  <2> QED
    BY <1>2, <2>1 DEF ProcessStops
<1>3. ASSUME NEW s \in KeySignals, Key(s) PROVE FgInv'
  <2>1. Foreground' = Foreground /\ session' = session
    BY <1>3 DEF Key, Foreground
  <2> QED
    BY <1>3, <2>1 DEF Key
<1>4. CASE ChildEnter
  <2>1. Foreground' = Foreground /\ session' = session
    BY <1>4 DEF ChildEnter, Delivered, Push, Foreground
  <2> QED
    BY <1>4, <2>1 DEF ChildEnter, Delivered, Push
<1>5. CASE ChildReturn
  <2>1. Foreground' = Foreground /\ session' = session
    BY <1>5 DEF ChildReturn, Foreground
  <2> QED
    BY <1>5, <2>1, Returned DEF ChildReturn
<1>6. CASE KeyReturn
  <2>1. Foreground' = Foreground /\ session' = session
    BY <1>6 DEF KeyReturn, Foreground
  <2> QED
    BY <1>6, <2>1, Returned DEF KeyReturn
<1>7. ASSUME NEW p \in Procs, ChildUpdate(p) PROVE FgInv'
  <2>1. UNCHANGED <<session, pc, cur>> /\ p[1] \in JobNums /\ joblist \in [JobNums -> Job]
    BY <1>7, Pair DEF ChildUpdate, TypeOK
  <2>2. PICK job \in Job :
           /\ joblist' = [joblist EXCEPT ![p[1]] = job]
           /\ job.state = "foreground" => joblist[p[1]].state = "foreground"
    BY <1>7, ChildUpdated DEF Updated
  <2>3. Foreground' \subseteq Foreground
    BY <2>1, <2>2 DEF Foreground
  <2> QED
    BY <2>1, <2>3
<1>8. ASSUME NEW p \in Procs, ChildUnknown(p) PROVE FgInv'
  <2>1. Foreground' = Foreground /\ session' = session
    BY <1>8 DEF ChildUnknown, Foreground
  <2> QED
    BY <1>8, <2>1, Returned DEF ChildUnknown
<1>9. ASSUME NEW s \in KeySignals, KeyEnter(s) PROVE FgInv'
  <2>1. Foreground' = Foreground /\ session' = session
    BY <1>9 DEF KeyEnter, Delivered, Push, Foreground
  <2> QED
    BY <1>9, <2>1 DEF KeyEnter, Delivered, Push
<1>10. ASSUME NEW s \in KeySignals, KeyIgnored(s) PROVE FgInv'
  <2>1. Foreground' = Foreground /\ session' = session
    BY <1>10 DEF KeyIgnored, Delivered, Foreground
  <2> QED
    BY <1>10, <2>1 DEF KeyIgnored, Delivered
<1>11. ASSUME NEW k \in 1..MaxSize, NEW bg \in BOOLEAN, Begin(k, bg) PROVE FgInv'
  <2>1. /\ next \in JobNums /\ joblist \in [JobNums -> Job] /\ cur' = next /\ session' = session
        /\ pc = "repl" /\ pc' \in {"background", "fork"}
    BY <1>11 DEF Begin, TypeOK, JobNums
  <2>2. Foreground' \subseteq Foreground \cup {next}
    BY <1>11, <2>1 DEF Begin, Foreground
  <2> QED
    BY <2>1, <2>2
<1>12. CASE ToBackground
  <2>1. cur \in JobNums /\ joblist[cur].state # "absent" /\ SetState(cur, "background")
    BY <1>12 DEF ToBackground, JobInv, CreateInv, Creating, Contains
  <2>2. Foreground' \subseteq Foreground
    BY <2>1, StateKept DEF Foreground
  <2> QED
    BY <1>12, <2>2 DEF ToBackground
<1>13. CASE Fork
  <2>1. Foreground' = Foreground /\ session' = session
    BY <1>13 DEF Fork, Foreground
  <2> QED
    BY <1>13, <2>1 DEF Fork
<1>14. CASE AddProcess
  <2>1. /\ session' = session /\ cur' = cur /\ cur \in JobNums
        /\ pc' \in {"fork", "created"}
    BY <1>14 DEF AddProcess, JobInv, CreateInv, Creating
  <2>2. Foreground' = Foreground
    BY <1>14, <2>1, Added DEF Foreground
  <2> QED
    BY <2>1, <2>2
<1>15. CASE Created
  <2>1. Foreground' = Foreground /\ session' = session
    BY <1>15 DEF Created, Foreground
  <2> QED
    BY <1>15, <2>1 DEF Created
<1>16. CASE Transfer
  <2>1. Foreground' = Foreground /\ session' = session
    BY <1>16 DEF Transfer, Foreground
  <2> QED
    BY <1>16, <2>1 DEF Transfer
<1>17. CASE Block
  <2>1. Foreground' = Foreground /\ session' = session
    BY <1>17 DEF Block, Foreground
  <2> QED
    BY <1>17, <2>1 DEF Block
<1>18. CASE Suspend
  <2>1. Foreground' = Foreground /\ session' = session
    BY <1>18 DEF Suspend, Foreground
  <2> QED
    BY <1>18, <2>1 DEF Suspend
<1>19. CASE LoopEnds
  <2>1. Foreground' = Foreground /\ session' = session
    BY <1>19 DEF LoopEnds, Foreground
  <2> QED
    BY <1>19, <2>1 DEF LoopEnds, HasForeground
<1>20. CASE Take
  <2>1. Foreground' = Foreground /\ session' = session
    BY <1>20 DEF Take, Foreground
  <2> QED
    BY <1>20, <2>1 DEF Take
<1>21. CASE Give
  <2>1. /\ Foreground' = Foreground /\ session' = session /\ cur' = cur /\ pc = "give"
        /\ pc' \in {"block", "repl"}
    BY <1>21 DEF Give, Foreground
  <2>2. ASSUME Single, pc' = "repl" PROVE Foreground = {}
    <3>1. session.terminal
      BY <1>21, <2>2 DEF Give
    <3>2. session.keys = 0
      BY <2>2, <3>1
    <3> SUFFICES ASSUME HasForeground PROVE FALSE
      BY DEF HasForeground
    <3>3. \A p \in ProcsOf(TheForeground) : kern[p] = "reaped"
      BY <1>21, <2>2 DEF Give
    <3> QED
      BY <2>1, <3>2, <3>3, ReapedNotAll DEF Adding
  <2> QED
    BY <2>1, <2>2
<1>22. ASSUME NEW n \in JobNums, UserFg(n) PROVE FgInv'
  <2>1. Foreground' = Foreground /\ session' = session
    BY <1>22 DEF UserFg, Foreground
  <2> QED
    BY <1>22, <2>1 DEF UserFg
<1>23. ASSUME NEW n \in JobNums, UserBg(n) PROVE FgInv'
  <2>1. Foreground' \subseteq Foreground
    <3>1. CASE joblist[n].state = "foreground"
      <4>1. n \in JobNums /\ joblist[n].state # "absent"
        BY <1>23, <3>1 DEF UserBg
      <4> QED
        BY <1>23, <3>1, <4>1, StateKept DEF UserBg, Foreground
    <3>2. CASE ~(joblist[n].state = "foreground")
      BY <1>23, <3>2 DEF UserBg, Foreground
    <3> QED
      BY <3>1, <3>2
  <2> QED
    BY <1>23, <2>1 DEF UserBg
<1>24. CASE FgSet
  <2>1. Foreground' \subseteq Foreground \cup {cur}
    <3>1. CASE joblist[cur].state = "background"
      <4>1. cur \in JobNums /\ joblist[cur].state # "absent"
        BY <1>24, <3>1 DEF FgSet, JobInv, CreateInv
      <4> QED
        BY <1>24, <3>1, <4>1, StateKept DEF FgSet, Foreground
    <3>2. CASE ~(joblist[cur].state = "background")
      BY <1>24, <3>2 DEF FgSet, Foreground
    <3> QED
      BY <3>1, <3>2
  <2> QED
    BY <1>24, <2>1 DEF FgSet
<1>25. CASE FgContinue
  <2>1. Foreground' = Foreground /\ session' = session
    BY <1>25 DEF FgContinue, Foreground
  <2> QED
    BY <1>25, <2>1 DEF FgContinue
<1>26. CASE BgContinue
  <2>1. Foreground' = Foreground /\ session' = session
    BY <1>26 DEF BgContinue, Foreground
  <2> QED
    BY <1>26, <2>1 DEF BgContinue
<1>27. ASSUME NEW p \in Procs, NEW form \in Forms, UserSlay(p, form) PROVE FgInv'
  <2>1. Foreground' = Foreground /\ session' = session
    BY <1>27 DEF UserSlay, Foreground
  <2> QED
    BY <1>27, <2>1 DEF UserSlay
<1>28. ASSUME NEW p \in Procs, NEW form \in Forms, UserHalt(p, form) PROVE FgInv'
  <2>1. Foreground' = Foreground /\ session' = session
    BY <1>28 DEF UserHalt, Foreground
  <2> QED
    BY <1>28, <2>1 DEF UserHalt
<1>29. ASSUME NEW p \in Procs, NEW form \in Forms, UserCont(p, form) PROVE FgInv'
  <2>1. Foreground' \subseteq Foreground
    <3>1. CASE Continues(p, form)
      <4>1. p[1] \in JobNums /\ joblist[p[1]].state # "absent"
        BY <1>29, <3>1, ListedJob DEF UserCont
      <4> QED
        BY <1>29, <3>1, <4>1, StateKept DEF UserCont, Foreground
    <3>2. CASE ~(Continues(p, form))
      BY <1>29, <3>2 DEF UserCont, Foreground
    <3> QED
      BY <3>1, <3>2
  <2> QED
    BY <1>29, <2>1 DEF UserCont
<1> QED
  BY <1>1, <1>2, <1>3, <1>4, <1>5, <1>6, <1>7, <1>8, <1>9, <1>10, <1>11, <1>12, <1>13, <1>14,
     <1>15, <1>16, <1>17, <1>18, <1>19, <1>20, <1>21, <1>22, <1>23, <1>24, <1>25, <1>26, <1>27,
     <1>28, <1>29
     DEF Next, Shell, World, CreateJob, TransferControl, Builtin, Handlers

\* Without fg, what has lost the foreground does not run while it has the terminal.
LEMMA TerminalInvStep ==
    ASSUME IInv, Next
    PROVE  TerminalInv'
<1> USE BoundsAssumption
<1> USE DEF TerminalInv, Waiting, Step, vars, shell, jobs, signals, procs, bounds
<1> TypeOK /\ JobInv /\ TerminalInv
  BY DEF IInv
<1>0. ASSUME Foreground' = Foreground, UNCHANGED <<joblist, terminal>>, NewNotes({})
      PROVE  (NoneContinued => NoneContinued') /\ (NoneRunning => NoneRunning')
  BY <1>0 DEF NoneContinued, NoneRunning, NewNotes
<1>1. ASSUME NEW p \in Procs, ProcessExits(p) PROVE TerminalInv'
  <2>1. Foreground' = Foreground /\ session' = session /\ UNCHANGED <<joblist, terminal>>
    BY <1>1 DEF ProcessExits, Foreground
  <2>2. Struck({p}, "EXIT")
    BY <1>1, Killed DEF ProcessExits
  <2>3. NewNotes({})
    BY <2>2, StruckNotes DEF KeySignals
  <2> QED
    BY <1>1, <1>0, <2>1, <2>3 DEF ProcessExits
<1>2. ASSUME NEW p \in Procs, ProcessStops(p) PROVE TerminalInv'
  <2>1. Foreground' = Foreground /\ session' = session /\ UNCHANGED <<joblist, terminal>>
    BY <1>2 DEF ProcessStops, Foreground
  <2>2. Struck({p}, "STOP")
    BY <1>2, Killed DEF ProcessStops
  <2>3. NewNotes({})
    BY <2>2, StruckNotes DEF KeySignals
  <2> QED
    BY <1>2, <1>0, <2>1, <2>3 DEF ProcessStops
<1>3. ASSUME NEW s \in KeySignals, Key(s) PROVE TerminalInv'
  <2>1. /\ Foreground' = Foreground /\ session' = session /\ UNCHANGED <<joblist, terminal>>
        /\ NewNotes({})
    BY <1>3 DEF Key, Foreground, NewNotes
  <2> QED
    BY <1>3, <1>0, <2>1 DEF Key
<1>4. CASE ChildEnter
  <2>1. /\ Foreground' = Foreground /\ session' = session /\ UNCHANGED <<joblist, terminal>>
        /\ NewNotes({})
    BY <1>4 DEF ChildEnter, Delivered, Push, Foreground, NewNotes
  <2> QED
    BY <1>4, <1>0, <2>1 DEF ChildEnter, Delivered, Push
<1>5. CASE ChildReturn
  <2>1. /\ Foreground' = Foreground /\ session' = session /\ UNCHANGED <<joblist, terminal>>
        /\ NewNotes({})
    BY <1>5 DEF ChildReturn, Foreground, NewNotes
  <2> QED
    BY <1>5, <1>0, <2>1, Returned DEF ChildReturn
<1>6. CASE KeyReturn
  <2>1. /\ Foreground' = Foreground /\ session' = session /\ UNCHANGED <<joblist, terminal>>
        /\ NewNotes({})
    BY <1>6 DEF KeyReturn, Foreground, NewNotes
  <2> QED
    BY <1>6, <1>0, <2>1, Returned DEF KeyReturn
<1>7. ASSUME NEW p \in Procs, ChildUpdate(p) PROVE TerminalInv'
  <2>1. UNCHANGED <<session, pc, cur, terminal>> /\ p[1] \in JobNums
    BY <1>7, Pair DEF ChildUpdate
  <2>2. NewNotes({})
    BY <1>7 DEF ChildUpdate, Reported, TypeOK, NewNotes
  <2> DEFINE before == joblist[p[1]].processes
             after == [before EXCEPT ![p[2]] = ToListed(note[p])]
  <2>3. PICK job \in Job :
           /\ joblist' = [joblist EXCEPT ![p[1]] = job]
           /\ \/ job.state = "absent" /\ job.processes = <<>>
              \/ /\ job.processes = after
                 /\ \/ job.state = joblist[p[1]].state
                    \/ job.state = "background" /\ \A i \in DOMAIN after : after[i] # "running"
    BY <1>7, ChildUpdated DEF Updated
  <2>4. joblist'[p[1]] = job /\ \A n \in JobNums \ {p[1]} : joblist'[n] = joblist[n]
    BY <2>1, <2>3 DEF TypeOK
  <2>5. DOMAIN after = DOMAIN before
        /\ \A i \in DOMAIN after :
              after[i] = before[i] \/ (i = p[2] /\ after[i] = ToListed(note[p]))
    BY <1>7 DEF ChildUpdate, Listed
  <2> HIDE DEF after
  <2>6. Foreground' \subseteq Foreground
    BY <2>3, <2>4 DEF Foreground
  <2>7. NoneContinued => NoneContinued'
    BY <2>1, <2>2, <2>6 DEF NoneContinued, NewNotes
  <2>8. ASSUME NoneContinued, NoneRunning, terminal # NoJob, terminal \notin Foreground'
        PROVE  \A i \in DOMAIN joblist'[terminal].processes :
                   joblist'[terminal].processes[i] # "running"
    <3>1. terminal \in JobNums
      BY <2>8 DEF TypeOK, NoJob, JobNums
    <3>2. CASE terminal # p[1]
      BY <2>4, <2>8, <3>1, <3>2 DEF NoneRunning, Foreground
    <3>3. CASE terminal = p[1] /\ job.processes = <<>>
      BY <2>4, <3>3
    <3>4. CASE /\ terminal = p[1] /\ job.processes = after
               /\ \A i \in DOMAIN after : after[i] # "running"
      BY <2>4, <3>4
    <3>5. CASE terminal = p[1] /\ job.processes = after /\ job.state = joblist[p[1]].state
      <4>1. terminal \notin Foreground
        BY <2>4, <2>8, <3>1, <3>5 DEF Foreground
      <4>2. \A i \in DOMAIN before : before[i] # "running"
        BY <2>8, <3>5, <4>1 DEF NoneRunning
      <4>3. note[p] # "continued"
        BY <2>8, <3>5 DEF NoneContinued
      <4>4. ToListed(note[p]) # "running"
        BY <4>3 DEF ToListed
      <4> QED
        BY <2>4, <2>5, <3>5, <4>2, <4>4
    <3> QED
      BY <2>3, <3>2, <3>3, <3>4, <3>5
  <2>9. NoneContinued /\ NoneRunning => NoneRunning'
    BY <2>1, <2>8 DEF NoneRunning
  <2> QED
    BY <2>1, <2>6, <2>7, <2>9
<1>8. ASSUME NEW p \in Procs, ChildUnknown(p) PROVE TerminalInv'
  <2>1. /\ Foreground' = Foreground /\ session' = session /\ UNCHANGED <<joblist, terminal>>
        /\ NewNotes({})
    BY <1>8 DEF ChildUnknown, Reported, Foreground, NewNotes
  <2> QED
    BY <1>8, <1>0, <2>1, Returned DEF ChildUnknown, Reported
<1>9. ASSUME NEW s \in KeySignals, KeyEnter(s) PROVE TerminalInv'
  <2>1. Foreground' = Foreground /\ session' = session /\ UNCHANGED <<joblist, terminal>>
    BY <1>9 DEF KeyEnter, Delivered, Push, Foreground
  <2>2. Struck(ProcsOf(TheForeground), s)
    BY <1>9, Killed DEF KeyEnter
  <2>3. NewNotes({})
    BY <2>2, StruckNotes DEF KeySignals
  <2> QED
    BY <1>9, <1>0, <2>1, <2>3 DEF KeyEnter
<1>10. ASSUME NEW s \in KeySignals, KeyIgnored(s) PROVE TerminalInv'
  <2>1. /\ Foreground' = Foreground /\ session' = session /\ UNCHANGED <<joblist, terminal>>
        /\ NewNotes({})
    BY <1>10 DEF KeyIgnored, Delivered, Foreground, NewNotes
  <2> QED
    BY <1>10, <1>0, <2>1 DEF KeyIgnored, Delivered
<1>11. ASSUME NEW k \in 1..MaxSize, NEW bg \in BOOLEAN, Begin(k, bg) PROVE TerminalInv'
  <2>1. /\ next \in JobNums /\ joblist \in [JobNums -> Job] /\ session' = session
        /\ pc = "repl" /\ pc' \in {"background", "fork"} /\ UNCHANGED <<terminal, note>>
    BY <1>11 DEF Begin, TypeOK, JobNums
  <2>2. Foreground' \subseteq Foreground \cup {next}
    BY <1>11, <2>1 DEF Begin, Foreground
  <2>3. \A p \in Procs : p[1] = next => note[p] = "none"
    <3>1. next \in Nat
      BY DEF TypeOK
    <3> QED
      BY <3>1 DEF IInv, ForkInv, Forked, ReportInv, Reports
  <2>4. NoneContinued => NoneContinued' /\ NoneRunning'
    BY <2>1, <2>2, <2>3 DEF NoneContinued, NoneRunning
  <2> QED
    BY <2>1, <2>4
<1>12. CASE ToBackground
  <2>9. cur \in JobNums /\ joblist[cur].state # "absent" /\ SetState(cur, "background")
    BY <1>12 DEF ToBackground, JobInv, CreateInv, Creating, Contains
  <2>1. Foreground' \subseteq Foreground
    BY <2>9, StateKept DEF Foreground
  <2>2. UNCHANGED <<session, terminal, note>> /\ pc = "background" /\ pc' = "fork"
    BY <1>12 DEF ToBackground
  <2>3. NewNotes({})
    BY <2>2 DEF NewNotes
  <2> QED
    BY <2>1, <2>2, <2>3, AtPrompt
<1>13. CASE Fork
  <2>1. /\ Foreground' = Foreground /\ session' = session /\ UNCHANGED <<joblist, terminal>>
        /\ NewNotes({})
    BY <1>13 DEF Fork, Foreground, NewNotes
  <2> QED
    BY <1>13, <1>0, <2>1 DEF Fork
<1>14. CASE AddProcess
  <2>1. /\ session' = session /\ cur \in JobNums /\ pc = "add" /\ pc' \in {"fork", "created"}
        /\ UNCHANGED <<terminal, note>>
    BY <1>14 DEF AddProcess, JobInv, CreateInv, Creating
  <2>2. Foreground' = Foreground
    BY <1>14, <2>1, Added DEF Foreground
  <2>3. NewNotes({})
    BY <2>1 DEF NewNotes
  <2> QED
    BY <2>1, <2>2, <2>3, AtPrompt
<1>15. CASE Created
  <2>1. /\ Foreground' = Foreground /\ session' = session /\ UNCHANGED <<joblist, terminal>>
        /\ NewNotes({})
    BY <1>15 DEF Created, Foreground, NewNotes
  <2> QED
    BY <1>15, <1>0, <2>1 DEF Created
<1>16. CASE Transfer
  <2>1. /\ Foreground' = Foreground /\ session' = session /\ UNCHANGED <<joblist, terminal>>
        /\ NewNotes({})
    BY <1>16 DEF Transfer, Foreground, NewNotes
  <2> QED
    BY <1>16, <1>0, <2>1 DEF Transfer
<1>17. CASE Block
  <2>1. /\ Foreground' = Foreground /\ session' = session /\ UNCHANGED <<joblist, terminal>>
        /\ NewNotes({})
    BY <1>17 DEF Block, Foreground, NewNotes
  <2> QED
    BY <1>17, <1>0, <2>1 DEF Block
<1>18. CASE Suspend
  <2>1. /\ Foreground' = Foreground /\ session' = session /\ UNCHANGED <<joblist, terminal>>
        /\ NewNotes({})
    BY <1>18 DEF Suspend, Foreground, NewNotes
  <2> QED
    BY <1>18, <1>0, <2>1 DEF Suspend
<1>19. CASE LoopEnds
  <2>1. /\ Foreground' = Foreground /\ session' = session /\ UNCHANGED <<joblist, terminal>>
        /\ NewNotes({})
    BY <1>19 DEF LoopEnds, Foreground, NewNotes
  <2> QED
    BY <1>19, <1>0, <2>1 DEF LoopEnds
<1>20. CASE Take
  <2>1. /\ Foreground' = Foreground /\ session' = session /\ pc' = "repl" /\ terminal' = NoJob
        /\ NewNotes({})
    BY <1>20 DEF Take, Foreground, NewNotes
  <2> QED
    BY <2>1, AtPrompt
<1>21. CASE Give
  <2>1. /\ Foreground' = Foreground /\ session' = session /\ note' = note /\ pc = "give"
        /\ joblist' = joblist
    BY <1>21 DEF Give, Foreground
  <2>2. (pc' = "repl" /\ terminal' = terminal) \/ pc' = "block"
    BY <1>21 DEF Give
  <2>3. terminal' = terminal \/ terminal' \in Foreground
    BY <1>21, FirstOfThem DEF Give
  <2>4. NoneContinued => NoneContinued'
    BY <2>1, <2>3 DEF NoneContinued
  <2>5. NoneRunning => NoneRunning'
    BY <2>1, <2>3 DEF NoneRunning
  <2> QED
    BY <2>1, <2>2, <2>4, <2>5
<1>22. ASSUME NEW n \in JobNums, UserFg(n) PROVE TerminalInv'
  <2>1. /\ Foreground' = Foreground /\ session' = session /\ UNCHANGED <<joblist, terminal>>
        /\ NewNotes({})
    BY <1>22 DEF UserFg, Foreground, NewNotes
  <2> QED
    BY <1>22, <1>0, <2>1 DEF UserFg
<1>23. ASSUME NEW n \in JobNums, UserBg(n) PROVE TerminalInv'
  <2>1. Foreground' \subseteq Foreground \ {n} /\ cur' = n
    <3>1. CASE joblist[n].state = "foreground"
      <4>1. n \in JobNums /\ joblist[n].state # "absent"
        BY <1>23, <3>1 DEF UserBg
      <4> QED
        BY <1>23, <3>1, <4>1, StateKept DEF UserBg, Foreground
    <3>2. CASE ~(joblist[n].state = "foreground")
      BY <1>23, <3>2 DEF UserBg, Foreground
    <3> QED
      BY <3>1, <3>2
  <2>2. UNCHANGED <<session, terminal, note>> /\ pc = "repl" /\ pc' = "resume"
    BY <1>23 DEF UserBg
  <2>3. NewNotes({})
    BY <2>2 DEF NewNotes
  <2> QED
    BY <2>1, <2>2, <2>3, AtPrompt
<1>24. CASE FgSet
  <2>1. pc = "set" /\ pc' = "continue" /\ UNCHANGED <<session, terminal>>
    BY <1>24 DEF FgSet
  <2> QED
    BY <2>1
<1>25. CASE FgContinue
  <2>1. pc = "continue" /\ pc' \in {"continue", "transfer"} /\ UNCHANGED <<session, terminal>>
    BY <1>25 DEF FgContinue
  <2> QED
    BY <2>1
<1>26. CASE BgContinue
  <2>1. /\ pc = "resume" /\ pc' \in {"resume", "repl"} /\ UNCHANGED <<session, terminal, cur>>
        /\ Foreground' = Foreground
    BY <1>26 DEF BgContinue, Foreground
  <2>2. Struck({<<cur, index>>}, "CONT")
    BY <1>26, Killed DEF BgContinue
  <2>3. NewNotes({<<cur, index>>}) /\ terminal' = NoJob
    BY <2>1, <2>2, StruckNotes
  <2>4. cur \notin Foreground' /\ NoneContinued => NoneContinued' /\ NoneRunning'
    BY <2>1, <2>3, AtPrompt
  <2> QED
    BY <2>1, <2>3, <2>4
<1>27. ASSUME NEW p \in Procs, NEW form \in Forms, UserSlay(p, form) PROVE TerminalInv'
  <2>1. Foreground' = Foreground /\ session' = session /\ UNCHANGED <<joblist, terminal>>
    BY <1>27 DEF UserSlay, Foreground
  <2>2. Struck({p}, "KILL")
    BY <1>27, Killed DEF UserSlay
  <2>3. NewNotes({})
    BY <2>2, StruckNotes DEF KeySignals
  <2> QED
    BY <1>27, <1>0, <2>1, <2>3 DEF UserSlay
<1>28. ASSUME NEW p \in Procs, NEW form \in Forms, UserHalt(p, form) PROVE TerminalInv'
  <2>1. Foreground' = Foreground /\ session' = session /\ UNCHANGED <<joblist, terminal>>
    BY <1>28 DEF UserHalt, Foreground
  <2>2. Struck({p}, "TSTP")
    BY <1>28, Killed DEF UserHalt
  <2>3. NewNotes({})
    BY <2>2, StruckNotes DEF KeySignals
  <2> QED
    BY <1>28, <1>0, <2>1, <2>3 DEF UserHalt
<1>29. ASSUME NEW p \in Procs, NEW form \in Forms, UserCont(p, form) PROVE TerminalInv'
  <2>1. pc = "repl" /\ pc' = "repl" /\ UNCHANGED <<session, terminal>>
    BY <1>29 DEF UserCont
  <2>2. CASE Continues(p, form)
    <3>1. p[1] \in JobNums /\ joblist[p[1]].state # "absent" /\ SetState(p[1], "background")
      BY <1>29, <2>2, ListedJob DEF UserCont
    <3>2. Foreground' \subseteq Foreground \ {p[1]}
      BY <3>1, StateKept DEF Foreground
    <3>3. Struck({p}, "CONT")
      BY <1>29, <2>2, Killed DEF UserCont
    <3>4. NewNotes({p})
      BY <3>3, StruckNotes
    <3> QED
      BY <2>1, <3>2, <3>4, AtPrompt
  <2>3. CASE ~Continues(p, form)
    <3>1. Foreground' = Foreground /\ NewNotes({})
      BY <1>29, <2>3 DEF UserCont, Foreground, NewNotes
    <3> QED
      BY <2>1, <3>1, AtPrompt
  <2> QED
    BY <2>2, <2>3
<1> QED
  BY <1>1, <1>2, <1>3, <1>4, <1>5, <1>6, <1>7, <1>8, <1>9, <1>10, <1>11, <1>12, <1>13, <1>14,
     <1>15, <1>16, <1>17, <1>18, <1>19, <1>20, <1>21, <1>22, <1>23, <1>24, <1>25, <1>26, <1>27,
     <1>28, <1>29
     DEF Next, Shell, World, CreateJob, TransferControl, Builtin, Handlers

\* A report that is taken says what the process is, and no other changes.
LEMMA TurnOf ==
    ASSUME IInv, NEW p \in Procs, Reported(p)
    PROVE  /\ note[p] = ReportOf(kern[p]) /\ kern[p] \in {"running", "stopped", "exited"}
           /\ note'[p] = "none"
           /\ kern'[p] = IF note[p] = "exited" THEN "reaped" ELSE kern[p]
           /\ \A q \in Procs \ {p} : kern'[q] = kern[q] /\ note'[q] = note[q]
<1>1. note[p] = ReportOf(kern[p]) /\ kern[p] \in {"running", "stopped", "exited"}
  BY DEF IInv, ReportInv, Reports, Reported
<1> QED
  BY <1>1 DEF IInv, TypeOK, Reported

\* A fork makes a process of the job that is created.
LEMMA ForkOf ==
    ASSUME IInv, Fork
    PROVE  /\ cur \in JobNums /\ <<cur, index>> \in Procs /\ kern[<<cur, index>>] = "none"
           /\ kern'[<<cur, index>>] = "running" /\ note' = note /\ joblist' = joblist
           /\ \A q \in Procs : q # <<cur, index>> => kern'[q] = kern[q]
           /\ pc = "fork" /\ pc' = "add" /\ UNCHANGED <<cur, index, next, session>>
<1>1. pc = "fork" /\ pc' = "add" /\ UNCHANGED <<cur, index, next, session, joblist, note>>
  BY DEF Fork, Step, jobs, bounds
<1>2. cur \in JobNums /\ index \in 1..wanted /\ wanted \in 0..MaxSize
  BY <1>1 DEF IInv, JobInv, CreateInv, Creating, Adding, TypeOK
<1>3. <<cur, index>> \in Procs
  BY <1>2, BoundsAssumption DEF Procs
<1>4. kern[<<cur, index>>] = "none"
  BY <1>1, <1>2, <1>3 DEF IInv, ForkInv, Forked
<1>5. /\ kern \in [Procs -> {"none", "running", "stopped", "exited", "reaped"}]
      /\ kern' = [kern EXCEPT ![<<cur, index>>] = "running"]
  BY DEF IInv, TypeOK, Fork
<1> QED
  BY <1>1, <1>2, <1>3, <1>4, <1>5

\* ForkInv holds after every step.
LEMMA ForkInvStep ==
    ASSUME IInv, Next
    PROVE  ForkInv'
<1> SUFFICES ASSUME NEW q \in Procs PROVE Forked(q)'
  BY DEF ForkInv
<1>1. /\ next \in Nat /\ index \in Nat /\ JobNums \subseteq Nat /\ cur \in Nat
      /\ kern \in [Procs -> {"none", "running", "stopped", "exited", "reaped"}]
  BY BoundsAssumption DEF IInv, TypeOK, JobNums
<1>2. Forked(q) /\ q[1] \in Nat /\ q[2] \in Nat /\ q = <<q[1], q[2]>>
  BY <1>1, Pair DEF IInv, ForkInv
<1>3. ASSUME NEW P \in SUBSET Procs, NEW s, Strikes(P, s) PROVE Forked(q)'
  <2>1. MovesOn /\ (kern'[q] = "none" <=> kern[q] = "none")
    BY <1>3 DEF Strikes, Struck
  <2>2. next' \in Nat
    BY IInv, Next, TypeOKStep DEF TypeOK
  <2> QED
    BY <1>1, <1>2, <2>1, <2>2 DEF MovesOn, Forked
<1>4. CASE Fork
  BY <1>1, <1>2, <1>4, ForkOf DEF Forked, IInv, JobInv, CreateInv, Creating
<1>5. CASE AddProcess
  BY <1>1, <1>2, <1>5 DEF Forked, AddProcess, Step, procs, bounds
<1>6. ASSUME NEW p \in Procs, ChildUpdate(p) PROVE Forked(q)'
  <2>1. UNCHANGED <<pc, cur, index, next>> /\ (kern'[q] = "none" <=> kern[q] = "none")
    BY <1>6, TurnOf DEF ChildUpdate, shell
  <2> QED
    BY <1>2, <2>1 DEF Forked
<1>7. ASSUME NEW p \in Procs, ChildUnknown(p) PROVE Forked(q)'
  <2>1. UNCHANGED <<cur, index, next>> /\ (kern'[q] = "none" <=> kern[q] = "none")
    BY <1>7, TurnOf DEF ChildUnknown, jobs
  <2>2. pc' = pc \/ pc' = "loop"
    BY <1>7, Returned DEF ChildUnknown
  <2> QED
    BY <1>2, <2>1, <2>2 DEF Forked
<1> QED
  BY <1>3, <1>4, <1>5, <1>6, <1>7, AffectsThem DEF Affects

\* ReportInv holds after every step.
LEMMA ReportInvStep ==
    ASSUME IInv, Next
    PROVE  ReportInv'
<1> SUFFICES ASSUME NEW q \in Procs PROVE Reports(q)'
  BY DEF ReportInv
<1>1. Reports(q)
  BY DEF IInv, ReportInv
<1>2. ASSUME NEW P \in SUBSET Procs, NEW s, Strikes(P, s) PROVE Reports(q)'
  BY <1>1, <1>2 DEF Strikes, Struck, Reports, ReportOf
<1>3. CASE Fork
  BY <1>1, <1>3, ForkOf DEF Reports
<1>4. CASE AddProcess
  BY <1>1, <1>4 DEF Reports, AddProcess, procs
<1>5. ASSUME NEW p \in Procs, ChildUpdate(p) \/ ChildUnknown(p) PROVE Reports(q)'
  <2>1. Reported(p)
    BY <1>5 DEF ChildUpdate, ChildUnknown
  <2> QED
    BY <1>1, <2>1, TurnOf DEF Reports, ReportOf
<1> QED
  BY <1>2, <1>3, <1>4, <1>5, AffectsThem DEF Affects

\* SeenInv holds after every step.
LEMMA SeenInvStep ==
    ASSUME IInv, Next
    PROVE  SeenInv'
<1> SUFFICES ASSUME NEW q \in Procs PROVE Seen(q)'
  BY DEF SeenInv
<1>1. Seen(q) /\ Reports(q) /\ TypeOK /\ JobInv
  BY DEF IInv, SeenInv, ReportInv
<1>2. ASSUME NEW P \in SUBSET Procs, NEW s, Strikes(P, s) PROVE Seen(q)'
  BY <1>1, <1>2 DEF Strikes, ListsSame, Struck, Seen, ReportOf
<1>3. CASE Fork
  <2>1. (Listed(q)' <=> Listed(q)) /\ ListedState(q)' = ListedState(q)
    BY <1>3, ForkOf DEF Listed, ListedState
  <2> QED
    BY <1>1, <1>3, <2>1, ForkOf DEF Seen
<1>4. CASE AddProcess
  <2>1. /\ kern' = kern /\ note' = note
        /\ q = <<cur, index>> => kern[q] # "none"
    BY <1>4 DEF AddProcess, Step, procs, IInv, ForkInv, Forked
  <2> QED
    BY <1>1, <1>4, <2>1, AddedLists DEF Seen
<1>5. ASSUME NEW p \in Procs, ChildUpdate(p) PROVE Seen(q)'
  <2>1. Relists(p) /\ Reported(p)
    BY <1>1, <1>5, Relisted DEF ChildUpdate
  <2> QED
    BY <1>1, <2>1, TurnOf DEF Relists, Seen, ToListed, ReportOf
<1>6. ASSUME NEW p \in Procs, ChildUnknown(p) PROVE Seen(q)'
  <2>1. (Listed(q)' <=> Listed(q)) /\ ListedState(q)' = ListedState(q)
    BY <1>6 DEF ChildUnknown, jobs, Listed, ListedState
  <2>2. Reported(p) /\ ~Listed(p)
    BY <1>6 DEF ChildUnknown
  <2> QED
    BY <1>1, <2>1, <2>2, TurnOf DEF Seen
<1> QED
  BY <1>2, <1>3, <1>4, <1>5, <1>6, AffectsThem DEF Affects

\* RealInv holds after every step.
LEMMA RealInvStep ==
    ASSUME IInv, Next
    PROVE  RealInv'
<1>1. session' = session
  BY AffectsThem DEF Affects, Strikes, MovesOn, Fork, AddProcess, ChildUpdate, ChildUnknown, bounds
<1> SUFFICES ASSUME session.keys = 0, NEW q \in Procs PROVE Real(q)'
  BY <1>1 DEF RealInv
<1>2. Real(q) /\ Seen(q) /\ Reports(q) /\ TypeOK /\ JobInv
  BY DEF IInv, RealInv, SeenInv, ReportInv
<1>3. ASSUME NEW P \in SUBSET Procs, NEW s, Strikes(P, s) PROVE Real(q)'
  <2>1. Outside(q)' => Outside(q)
    BY <1>3 DEF Strikes, MovesOn, Outside
  <2> QED
    BY <1>2, <1>3, <2>1 DEF Strikes, ListsSame, Struck, Real, Matches, ReportOf
<1>4. CASE Fork
  <2>1. (Listed(q)' <=> Listed(q)) /\ ListedState(q)' = ListedState(q)
    BY <1>4, ForkOf DEF Listed, ListedState
  <2>2. q = <<cur, index>> => ~Listed(q) /\ ~Outside(q)'
    BY <1>2, <1>4, ForkOf DEF Seen, Outside
  <2>3. q # <<cur, index>> => Outside(q)
    BY DEF Outside
  <2> QED
    BY <1>2, <1>4, <2>1, <2>2, <2>3, ForkOf DEF Real, Matches
<1>5. CASE AddProcess
  <2>1. /\ kern' = kern /\ note' = note /\ Contains(cur)
        /\ note[<<cur, index>>] = "none" => kern[<<cur, index>>] = "running"
    BY <1>5 DEF AddProcess, Step, procs, IInv, KeptOutInv, AloneInv, BuiltInv, Creating
  <2>2. q # <<cur, index>> => Outside(q)
    BY DEF Outside
  <2> QED
    BY <1>2, <1>5, <2>1, <2>2, AddedLists DEF Real, Matches
<1>6. ASSUME NEW p \in Procs, ChildUpdate(p) PROVE Real(q)'
  <2>1. Relists(p) /\ Reported(p)
    BY <1>2, <1>6, Relisted DEF ChildUpdate
  <2>2. Outside(q)' <=> Outside(q)
    BY <1>6 DEF ChildUpdate, shell, Outside
  <2>3. q # p => Real(q)'
    BY <1>2, <2>1, <2>2 DEF Relists, Real, Matches, Seen
  <2>4. q = p => Real(q)'
    BY <1>2, <2>1, <2>2, TurnOf DEF Relists, Real, Matches, ToListed, ReportOf
  <2> QED
    BY <2>3, <2>4
<1>7. ASSUME NEW p \in Procs, ChildUnknown(p) PROVE FALSE
  <2>1. kern[p] \in {"running", "stopped", "exited"} /\ ~Listed(p) /\ stack # <<>>
    BY <1>7, TurnOf DEF ChildUnknown, Reported, Running
  <2>2. Real(p)
    BY DEF IInv, RealInv
  <2>3. pc = "add"
    BY <2>1, <2>2 DEF Real, Outside
  <2> QED
    BY <2>1, <2>3 DEF IInv, KeptOutInv, AloneInv, BuiltInv, Creating
<1> QED
  BY <1>3, <1>4, <1>5, <1>6, <1>7, AffectsThem DEF Affects

\* BuiltInv holds after every step.
LEMMA BuiltInvStep ==
    ASSUME IInv, Next
    PROVE  BuiltInv'
<1>1. session' = session
  BY AffectsThem DEF Affects, Strikes, MovesOn, Fork, AddProcess, ChildUpdate, ChildUnknown, bounds
<1> SUFFICES ASSUME session.keys = 0, pc' = "add"
             PROVE  (note[<<cur, index>>] = "none" => kern[<<cur, index>>] = "running")'
  BY <1>1 DEF BuiltInv
<1>2. pc = "add" => /\ note[<<cur, index>>] = "none" => kern[<<cur, index>>] = "running"
                    /\ stack = <<>> /\ <<cur, index>> \in Procs
  <2>1. pc = "add" => cur \in JobNums /\ index \in 1..wanted /\ wanted \in 0..MaxSize
    BY DEF IInv, JobInv, CreateInv, Creating, Adding, TypeOK
  <2>2. pc = "add" => <<cur, index>> \in Procs
    BY <2>1, BoundsAssumption DEF Procs
  <2> QED
    BY <2>2 DEF IInv, KeptOutInv, AloneInv, BuiltInv, Creating
<1>3. CASE Fork
  BY <1>3, ForkOf
<1>4. CASE AddProcess
  BY <1>4 DEF AddProcess, Step
<1>5. ASSUME NEW P \in SUBSET Procs, NEW s, Strikes(P, s)
      PROVE  (note[<<cur, index>>] = "none" => kern[<<cur, index>>] = "running")'
  BY <1>2, <1>5 DEF Strikes, MovesOn, Struck, ReportOf
<1>6. ASSUME NEW p \in Procs, ChildUpdate(p) \/ ChildUnknown(p) PROVE FALSE
  <2>1. Reported(p)
    BY <1>6 DEF ChildUpdate, ChildUnknown
  <2>2. pc' = pc \/ pc' = "loop"
    BY <1>6, Returned DEF ChildUpdate, ChildUnknown, shell
  <2> QED
    BY <1>2, <2>1, <2>2 DEF Reported, Running
<1> QED
  BY <1>3, <1>4, <1>5, <1>6, AffectsThem DEF Affects

\* The invariant holds when the shell starts, with no job.
LEMMA InitIInv ==
    ASSUME Init
    PROVE  IInv
<1> USE BoundsAssumption DEF Init, NoProcess
<1>1. \A n \in JobNums : joblist[n].state = "absent" /\ joblist[n].processes = <<>>
  OBVIOUS
<1>2. \A p \in Procs : ~Listed(p) /\ kern[p] = "none" /\ note[p] = "none"
  BY <1>1, Pair DEF Listed
<1>3. Foreground = {} /\ \A n \in JobNums : ~Contains(n)
  BY <1>1 DEF Foreground, Contains
<1>4. TypeOK
  <2>1. NoProcess \in Job
    BY DEF Job
  <2> QED
    BY <2>1 DEF TypeOK, Session, Labels, NoJob
<1>5. JobInv
  BY <1>1 DEF JobInv, SizesInv, CreateInv, Creating, Adding
<1>6. ForkInv /\ ReportInv /\ SeenInv /\ KeptOutInv /\ RealInv /\ AliveInv
  BY <1>2, <1>3 DEF ForkInv, Forked, ReportInv, Reports, SeenInv, Seen, KeptOutInv, AloneInv,
     BuiltInv, Creating, RealInv, Real, AliveInv, Alive
<1>7. FgInv /\ TerminalInv
  BY <1>2, <1>3 DEF FgInv, TerminalInv, NoneContinued, NoneRunning
<1> QED
  BY <1>4, <1>5, <1>6, <1>7 DEF IInv

\* Every step keeps it.
LEMMA IInvStep ==
    ASSUME IInv, [Next]_vars
    PROVE  IInv'
<1>1. CASE Next
  BY <1>1, TypeOKStep, SizesInvStep, CreateInvStep, ForkInvStep, ReportInvStep, SeenInvStep,
     AloneInvStep, BuiltInvStep, RealInvStep, AliveInvStep, FgInvStep, TerminalInvStep
     DEF IInv, JobInv, KeptOutInv
<1>2. CASE UNCHANGED vars
  <2>1. UNCHANGED <<session, pc, cur, index, copy, wanted, joblist, next, mask, pending, stack,
                    kern, note, terminal, keys>>
    BY <1>2 DEF vars, shell, jobs, signals, procs, bounds
  <2>2. TypeOK' /\ JobInv'
    BY <2>1 DEF IInv, TypeOK, JobInv, SizesInv, CreateInv, Contains
  <2>3. Foreground' = Foreground /\ Single' = Single
    BY <2>1 DEF Foreground, Single
  <2>4. ListsSame
    BY <2>1 DEF ListsSame, Listed, ListedState
  <2>5. ForkInv' /\ ReportInv' /\ KeptOutInv'
    BY <2>1 DEF IInv, ForkInv, Forked, ReportInv, Reports, KeptOutInv, AloneInv, BuiltInv, Contains
  <2>6. SeenInv' /\ RealInv'
    BY <2>1, <2>4 DEF IInv, ListsSame, SeenInv, Seen, RealInv, Real, Matches, Outside
  <2>7. AliveInv'
    BY <2>1 DEF IInv, AliveInv, Alive, HasLive, Contains
  <2>8. FgInv' /\ TerminalInv'
    BY <2>1, <2>3 DEF IInv, FgInv, TerminalInv, NoneContinued, NoneRunning
  <2> QED
    BY <2>2, <2>5, <2>6, <2>7, <2>8 DEF IInv
<1> QED
  BY <1>1, <1>2

\* The invariant holds always.
LEMMA IInvHolds == Spec => []IInv
<1>1. Init => IInv
  BY InitIInv
<1>2. IInv /\ [Next]_vars => IInv'
  BY IInvStep
<1> QED
  BY <1>1, <1>2, PTL DEF Spec

-----------------------------------------------------------------------------
(* The theorems.                                                           *)

\* Without ^C and ^Z no report is lost: what the list says of a process is what
\* it is doing, but for what waitpid has still to report, and a process that was
\* never reaped is in the list.
THEOREM ListIsRealCorrect == Spec => []ListIsReal
<1>1. IInv => ListIsReal
  BY DEF IInv, RealInv, Real, Matches, Outside, ListIsReal
<1> QED
  BY <1>1, IInvHolds, PTL

\* Without ^C and ^Z the assertion of createJob holds (stsh.cc:327).
THEOREM JobStaysListedCorrect == Spec => []JobStaysListed
<1>1. IInv => JobStaysListed
  BY DEF IInv, KeptOutInv, AloneInv, JobStaysListed
<1> QED
  BY <1>1, IInvHolds, PTL

\* At most one job is in the foreground, without ^C and ^Z or without a terminal,
\* the giving of which may fail.
THEOREM AtMostOneForegroundCorrect == Spec => []AtMostOneForeground
<1>1. IInv => AtMostOneForeground
  <2> SUFFICES ASSUME IInv, Single PROVE Cardinality(Foreground) <= 1
    BY DEF AtMostOneForeground
  <2>1. Foreground \subseteq {cur}
    BY DEF IInv, FgInv
  <2>2. IsFiniteSet({cur}) /\ Cardinality({cur}) = 1
    BY FS_Singleton
  <2> QED
    BY <2>1, <2>2, FS_Subset
<1> QED
  BY <1>1, IInvHolds, PTL

\* Without fg, transferControl keeps the terminal away from the shell until every
\* process of the job that had it has stopped or ended.
THEOREM RunningJobKeepsTerminalCorrect == Spec => RunningJobKeepsTerminal
<1>1. IInv /\ [Next]_vars => [session.builtins \cap {"fg"} = {} => LeavesNoneRunning]_vars
  <2> SUFFICES ASSUME IInv, Next, "fg" \notin session.builtins,
                      NEW n \in JobNums, terminal = n, terminal' = NoJob,
                      NEW p \in ProcsOf(n), note[p] = "none", kern[p] = "running"
               PROVE  FALSE
    BY DEF LeavesNoneRunning
  <2>1. n # NoJob
    BY DEF JobNums, NoJob
  <2>2. Take \/ Give
    BY <2>1 DEF Next, Shell, World, CreateJob, TransferControl, Builtin, Handlers, ProcessExits,
       ProcessStops, Key, ChildEnter, ChildReturn, KeyReturn, ChildUpdate, ChildUnknown, KeyEnter,
       KeyIgnored, Begin, ToBackground, Fork, AddProcess, Created, Transfer, Block, Suspend,
       LoopEnds, UserFg, UserBg, FgSet, FgContinue, BgContinue, UserSlay, UserHalt, UserCont,
       procs, bounds
  <2>3. pc = "take"
    BY <2>1, <2>2 DEF IInv, TerminalInv, Waiting, Give, Take, Step
  <2>4. NoneRunning /\ Foreground = {}
    BY <2>3 DEF IInv, TerminalInv, FgInv
  <2>5. p[1] = n /\ p[2] \in DOMAIN joblist[n].processes /\ joblist[n].processes[p[2]] # "running"
    BY <2>1, <2>4 DEF NoneRunning, ProcsOf
  <2>6. p \in Procs
    <3>1. /\ joblist[n].processes \in Seq(ProcessStates)
          /\ Len(joblist[n].processes) <= MaxSize
      BY DEF IInv, TypeOK, Job, JobInv, SizesInv
    <3> QED
      BY <3>1, BoundsAssumption DEF ProcsOf, Procs
  <2>7. Listed(p) /\ ListedState(p) # "running"
    BY <2>5 DEF Listed, ListedState
  <2>8. Seen(p)
    BY <2>6 DEF IInv, SeenInv
  <2> QED
    BY <2>7, <2>8 DEF Seen
<1> QED
  BY <1>1, IInvHolds, PTL DEF Spec, RunningJobKeepsTerminal
=============================================================================
