---------------------------- MODULE ArchiveProofs ----------------------------
(***************************************************************************)
(* Proofs about Archive for any site, whitelist and number of threads.     *)
(*                                                                         *)
(* The argument, for documents-list.  Who writes it holds indexLock        *)
(* (LockInv), and has written the file of its document to the end before   *)
(* (StoredInv); so the list names stored files only, wherever the program  *)
(* is ended, and agrees with the index whenever nobody is writing          *)
(* (ListInv).                                                              *)
(*                                                                         *)
(* For the crawl.  A URL that is to be found is in the index, or on its    *)
(* way there: in the queue, in the hands of a thread, or a link of a page  *)
(* whose links are not all scheduled (CrawlInv).  A thread that leaves its *)
(* URL because hasurl has it leaves it to another (HasurlInv).  When       *)
(* wait() returns nothing is on its way.                                   *)
(***************************************************************************)
EXTENDS Archive, FiniteSetTheorems, TLAPS

Contents == {"none", "part", "empty", "page"}
WorkerLabels == {"idle", "access", "robots", "lookup", "download", "insert", "index",
                 "write", "list", "line", "links"}
MainLabels == {"start", "access", "robots", "lookup", "wait", "done", "serve", "down"}
Writing == {"write", "list", "line"}          \* in addDocument(), with the lock
Holding == {"insert", "index"} \cup Writing   \* with a document

LabelsOK ==
    /\ pc \in [Threads -> WorkerLabels \cup MainLabels]
    /\ pc[Main] \in MainLabels /\ \A w \in Workers : pc[w] \in WorkerLabels
    /\ url \in [Threads -> Urls]

DataOK ==
    /\ got \in [Threads -> {"none", "empty", "page"}] /\ todo \in [Threads -> Seq(Urls)]
    /\ queue \in Seq(Urls) /\ robots \in [Hosts -> SUBSET SUBSET Urls]
    /\ hasurl \subseteq Urls /\ memoryOnly \in BOOLEAN
    /\ documents \in [Urls -> Contents] /\ file \in [Urls -> Contents]
    /\ list \subseteq Urls /\ stored \subseteq Urls
    /\ fetched \subseteq Urls /\ impolite \subseteq Urls

TypeOK == LabelsOK /\ DataOK

\* The pool works only while the main thread is in wait().
RestInv ==
    /\ url[Main] = Seed
    /\ pc[Main] # "wait" => queue = <<>> /\ \A w \in Workers : pc[w] = "idle"
    /\ pc[Main] \in {"start", "access", "robots", "lookup", "down"} => fetched = {}
    /\ pc[Main] = "down" => hasurl = {}

LockInv == \A w \in Workers : pc[w] \in Writing => indexLock = w /\ ~memoryOnly

GotInv == \A w \in Workers : /\ pc[w] \in Holding => got[w] # "none"
                             /\ pc[w] = "links" => todo[w] # <<>>

\* A document in memory has its file, unless the thread that keeps it there has
\* just opened the file.
StoredInv ==
    /\ list \subseteq stored
    /\ \A u \in stored : file[u] # "none"
    /\ ~memoryOnly => \A u \in Indexed : u \in stored
                          \/ \E w \in Workers : pc[w] = "write" /\ url[w] = u

ListInv == pc[Main] # "down" /\ ~memoryOnly /\ (\A w \in Workers : pc[w] \notin Writing)
              => list = Indexed

DisallowedBy(h) == {u \in Disallowed : HostOf[u] = h}
MayFetch(u) == u \in Whitelist /\ (u \notin Disallowed \/ u \in impolite)

\* What is known of a robots.txt is what it says, or that it could not be had.
RobotsInv ==
    \A h \in Hosts : \A s \in robots[h] :
       \/ s = DisallowedBy(h)
       \/ s = {} /\ \A u \in Urls : HostOf[u] = h => u \in impolite

\* A thread that was let through may fetch its page.
PoliteInv ==
    /\ \A t \in Threads : pc[t] = "robots" => url[t] \in Whitelist
    /\ \A w \in Workers : pc[w] \in {"lookup", "download"} => MayFetch(url[w])
    /\ \A u \in fetched : MayFetch(u)

\* What is found in hasurl is in the index, or will be.
HasurlInv == \A u \in hasurl : u \in Indexed \/ \E w \in Workers : pc[w] = "index" /\ url[w] = u

ToBeFound(u) == u \in Accessible /\ (u = Seed \/ \E v \in fetched : u \in LinkedFrom(v))
Queues(u) == \E i \in DOMAIN queue : queue[i] = u
Pursues(w, u) ==
    \/ pc[w] \in {"access", "robots", "lookup", "download", "insert", "index"} /\ url[w] = u
    \/ pc[w] \in Holding /\ got[w] = "page" /\ u \in LinkedFrom(url[w])
    \/ pc[w] = "links" /\ \E i \in DOMAIN todo[w] : todo[w][i] = u
OnItsWay(u) == u \in Indexed \/ Queues(u) \/ \E w \in Workers : Pursues(w, u)

CrawlInv == pc[Main] \in {"wait", "done"} => \A u \in Urls : ToBeFound(u) => OnItsWay(u)

IInv == /\ TypeOK /\ RestInv /\ LockInv /\ GotInv /\ StoredInv /\ ListInv /\ RobotsInv
        /\ PoliteInv /\ HasurlInv /\ CrawlInv

-----------------------------------------------------------------------------
(* The steps.                                                              *)

\* What is left of a longer sequence is not empty.
LEMMA LongTail ==
    ASSUME NEW S, NEW s \in Seq(S), s # <<>>, Len(s) # 1
    PROVE  Tail(s) # <<>>
<1>1. Len(s) \in Nat /\ Len(s) # 0 /\ Len(Tail(s)) = Len(s) - 1
  OBVIOUS
<1>2. Len(<<>>) = 0
  OBVIOUS
<1>3. Len(Tail(s)) # 0
  BY <1>1
<1> QED
  BY <1>2, <1>3, Zenon

\* Where canAccess() and the look into hasurl lead a thread: it leaves its URL ...
Leaves(t) ==
    /\ pc' = [pc EXCEPT ![t] = IF t = Main THEN "done" ELSE "idle"]
    /\ url' = IF t = Main THEN url ELSE [url EXCEPT ![t] = Seed]

\* ... or goes on with it.
GoesTo(t, to) == pc' = [pc EXCEPT ![t] = to] /\ url' = url

\* canAccess() goes by what it knows.
AccessDecides(t) ==
    /\ pc[t] = "access"
    /\ UNCHANGED <<locals, queue, robots, memory, disk, history, bounds>>
    /\ \/ /\ Leaves(t)
          /\ url[t] \notin Whitelist \/ \E s \in robots[HostOf[url[t]]] : url[t] \in s
       \/ GoesTo(t, "robots") /\ url[t] \in Whitelist
       \/ /\ GoesTo(t, "lookup") /\ url[t] \in Whitelist
          /\ \E s \in robots[HostOf[url[t]]] : url[t] \notin s

\* The three ways canAccess may go from there.
LEMMA AccessCases ==
    ASSUME NEW t \in Threads, Access(t)
    PROVE  AccessDecides(t)
<1>1. UNCHANGED <<locals, queue, robots, memory, disk, history, bounds>> /\ pc[t] = "access"
  BY DEF Access, Step
<1>2. CASE url[t] \notin Whitelist
  BY <1>1, <1>2 DEF Access, Step, Refused, Leaves, AccessDecides
<1>3. CASE url[t] \in Whitelist /\ robots[HostOf[url[t]]] = {}
  BY <1>1, <1>3 DEF Access, Step, GoesTo, AccessDecides
<1>4. CASE url[t] \in Whitelist /\ robots[HostOf[url[t]]] # {}
  BY <1>1, <1>4 DEF Access, Step, Answer, Refused, GoesTo, Leaves, AccessDecides
<1> QED
  BY <1>1, <1>2, <1>3, <1>4

\* A thread that downloads a robots.txt goes by that: it leaves what is
\* disallowed, and goes on with what is not or with what nobody could tell.
FetchDecides(t) ==
    /\ pc[t] = "robots"
    /\ UNCHANGED <<locals, queue, memory, disk, fetched>>
    /\ impolite \subseteq impolite' /\ impolite' \subseteq Urls
    /\ \/ Leaves(t) /\ url[t] \in Disallowed
       \/ GoesTo(t, "lookup") /\ (url[t] \notin Disallowed \/ url[t] \in impolite')

\* The two ways a fetch of robots.txt may end.
LEMMA FetchCases ==
    ASSUME NEW t \in Threads, FetchRobots(t), url[t] \in Urls, impolite \subseteq Urls
    PROVE  FetchDecides(t)
<1> DEFINE h == HostOf[url[t]]
           all == {u \in Disallowed : HostOf[u] = h}
<1>1. PICK found \in {all, {}} :
         /\ Step(t, "robots", Answer(t, found))
         /\ IF found = all
            THEN UNCHANGED <<impolite, failures>>
            ELSE /\ failures < MaxFailures /\ failures' = failures + 1
                 /\ impolite' = impolite \cup {u \in Urls : HostOf[u] = h}
         /\ UNCHANGED <<locals, queue, memory, disk, fetched>>
  BY DEF FetchRobots
<1>2. /\ UNCHANGED <<locals, queue, memory, disk, fetched>>
      /\ pc[t] = "robots" /\ pc' = [pc EXCEPT ![t] = Answer(t, found)]
      /\ impolite \subseteq impolite' /\ impolite' \subseteq Urls
  BY <1>1 DEF Step
<1>3. CASE url[t] \in found
  <2>1. Answer(t, found) = Refused(t) /\ url[t] \in Disallowed
    BY <1>1, <1>3 DEF Answer
  <2>2. Leaves(t)
    BY <1>1, <1>2, <2>1 DEF Step, Refused, Leaves
  <2> QED
    BY <1>2, <2>1, <2>2 DEF FetchDecides
<1>4. CASE url[t] \notin found
  <2>1. Answer(t, found) = "lookup"
    BY <1>4 DEF Answer
  <2>2. GoesTo(t, "lookup")
    BY <1>1, <2>1 DEF Step, GoesTo
  <2>3. url[t] \notin Disallowed \/ url[t] \in impolite'
    <3>1. CASE found = all
      BY <1>4, <3>1
    <3>2. CASE found # all
      BY <1>1, <3>2
    <3> QED
      BY <3>1, <3>2
  <2> QED
    BY <1>2, <2>2, <2>3 DEF FetchDecides
<1> QED
  BY <1>3, <1>4

\* A worker leaves a URL that hasurl has, or goes on.
LookupDecides(w) ==
    /\ pc[w] = "lookup"
    /\ UNCHANGED <<locals, queue, robots, memory, disk, history>>
    /\ (Leaves(w) /\ url[w] \in hasurl) \/ GoesTo(w, "download")

\* The two ways of the look into hasurl.
LEMMA LookupCases ==
    ASSUME NEW w \in Workers, Lookup(w)
    PROVE  LookupDecides(w)
<1> w # Main
  BY ThreadsAssumption
<1>1. CASE Step(w, "lookup", IF url[w] \in hasurl THEN "idle" ELSE "download")
  <2>1. CASE url[w] \in hasurl
    BY <1>1, <2>1 DEF Lookup, Step, LookupDecides, Leaves
  <2>2. CASE url[w] \notin hasurl
    BY <1>1, <2>2 DEF Lookup, Step, LookupDecides, GoesTo
  <2> QED
    BY <2>1, <2>2
<1>2. CASE Step(w, "lookup", "download")
  BY <1>2 DEF Lookup, Step, LookupDecides, GoesTo
<1> QED
  BY <1>1, <1>2 DEF Lookup

\* The threads and their URLs are where they may be.
LEMMA LabelsOKStep ==
    ASSUME IInv, Next
    PROVE  LabelsOK'
<1> USE SiteAssumption, ThreadsAssumption
<1> USE DEF IInv, TypeOK, LabelsOK, DataOK, Step, Threads, vars, locals, memory, disk, history,
           bounds, Quiet, WorkerLabels, MainLabels
<1>1. ASSUME NEW t \in Threads, Access(t) PROVE LabelsOK'
  <2>1. AccessDecides(t)
    BY <1>1, AccessCases
  <2>2. CASE Leaves(t)
    <3>1. CASE t = Main
      BY <2>1, <2>2, <3>1 DEF AccessDecides, Leaves
    <3>2. CASE t # Main
      BY <2>1, <2>2, <3>2 DEF AccessDecides, Leaves
    <3> QED
      BY <3>1, <3>2
  <2>3. CASE ~Leaves(t)
    BY <2>1, <2>3 DEF AccessDecides, GoesTo
  <2> QED
    BY <2>2, <2>3
<1>2. ASSUME NEW t \in Threads, FetchRobots(t) PROVE LabelsOK'
  <2>1. FetchDecides(t)
    BY <1>2, FetchCases DEF TypeOK, LabelsOK, DataOK
  <2>2. CASE Leaves(t)
    <3>1. CASE t = Main
      BY <2>1, <2>2, <3>1 DEF FetchDecides, Leaves
    <3>2. CASE t # Main
      BY <2>1, <2>2, <3>2 DEF FetchDecides, Leaves
    <3> QED
      BY <3>1, <3>2
  <2>3. CASE ~Leaves(t)
    BY <2>1, <2>3 DEF FetchDecides, GoesTo
  <2> QED
    BY <2>2, <2>3
<1>3. CASE Download \/ ServeOnly \/ Serve
  BY <1>3 DEF Download, ServeOnly, Serve
<1>4. CASE ScheduleSeed \/ WaitReturns
  BY <1>4 DEF ScheduleSeed, WaitReturns
<1>5. ASSUME NEW w \in Workers, Take(w) PROVE LabelsOK'
  BY <1>5 DEF Take
<1>6. ASSUME NEW w \in Workers, Lookup(w) PROVE LabelsOK'
  <2>1. LookupDecides(w)
    BY <1>6, LookupCases
  <2>2. CASE Leaves(w)
    <3>1. CASE w = Main
      BY <2>1, <2>2, <3>1 DEF LookupDecides, Leaves
    <3>2. CASE w # Main
      BY <2>1, <2>2, <3>2 DEF LookupDecides, Leaves
    <3> QED
      BY <3>1, <3>2
  <2>3. CASE ~Leaves(w)
    BY <2>1, <2>3 DEF LookupDecides, GoesTo
  <2> QED
    BY <2>2, <2>3
<1>7. ASSUME NEW w \in Workers, DownloadPage(w) \/ Insert(w) PROVE LabelsOK'
  BY <1>7 DEF DownloadPage, Insert, Races
<1>8. ASSUME NEW w \in Workers, KeepOnly(w) PROVE LabelsOK'
  BY <1>8 DEF KeepOnly, Keep, Added
<1>9. ASSUME NEW w \in Workers, OpenFile(w) PROVE LabelsOK'
  BY <1>9 DEF OpenFile, Keep
<1>10. ASSUME NEW w \in Workers, WriteFile(w) \/ OpenList(w) \/ WriteLine(w) PROVE LabelsOK'
  BY <1>10 DEF WriteFile, OpenList, WriteLine
<1>11. ASSUME NEW w \in Workers, CloseList(w) PROVE LabelsOK'
  BY <1>11 DEF CloseList, Added
<1>12. ASSUME NEW w \in Workers, ScheduleLink(w) PROVE LabelsOK'
  BY <1>12 DEF ScheduleLink
<1>13. CASE Crash
  BY <1>13 DEF Crash, Quiet
<1>14. CASE Restart
  BY <1>14 DEF Restart
<1> QED
  BY <1>1, <1>2, <1>3, <1>4, <1>5, <1>6, <1>7, <1>8, <1>9, <1>10, <1>11,
     <1>12, <1>13, <1>14
     DEF Next, MainStep, DownloadWeb, AddDocument

\* Every variable keeps its type.
LEMMA DataOKStep ==
    ASSUME IInv, Next
    PROVE  DataOK'
<1> USE SiteAssumption, ThreadsAssumption
<1> USE DEF IInv, TypeOK, LabelsOK, DataOK, Step, Threads, vars, locals, memory, disk, history,
           bounds, Quiet, Contents
<1>1. ASSUME NEW t \in Threads, Access(t) PROVE DataOK'
  BY <1>1, AccessCases DEF AccessDecides
<1>2. ASSUME NEW t \in Threads, FetchRobots(t) PROVE DataOK'
  <2>1. robots \in [Hosts -> SUBSET SUBSET Urls] /\ impolite \subseteq Urls /\ url[t] \in Urls
    OBVIOUS
  <2>2. FetchDecides(t)
    BY <1>2, <2>1, FetchCases
  <2>3. robots' \in [Hosts -> SUBSET SUBSET Urls]
    BY <1>2, <2>1 DEF FetchRobots
  <2> QED
    BY <2>2, <2>3 DEF FetchDecides
<1>3. CASE Download \/ ServeOnly \/ Serve
  BY <1>3 DEF Download, ServeOnly, Serve
<1>4. CASE ScheduleSeed
  BY <1>4 DEF ScheduleSeed
<1>5. CASE WaitReturns
  BY <1>5 DEF WaitReturns
<1>6. ASSUME NEW w \in Workers, Take(w) PROVE DataOK'
  BY <1>6 DEF Take
<1>7. ASSUME NEW w \in Workers, Lookup(w) PROVE DataOK'
  BY <1>7, LookupCases DEF LookupDecides
<1>8. ASSUME NEW w \in Workers, DownloadPage(w) PROVE DataOK'
  <2>1. got' \in [Threads -> {"none", "empty", "page"}]
    BY <1>8 DEF DownloadPage
  <2>2. fetched' \subseteq Urls
    BY <1>8 DEF DownloadPage
  <2> QED
    BY <1>8, <2>1, <2>2 DEF DownloadPage
<1>9. ASSUME NEW w \in Workers, Insert(w) PROVE DataOK'
  BY <1>9 DEF Insert, Races
<1>10. ASSUME NEW w \in Workers, KeepOnly(w) PROVE DataOK'
  BY <1>10 DEF KeepOnly, Keep, Added
<1>11. ASSUME NEW w \in Workers, OpenFile(w) PROVE DataOK'
  BY <1>11 DEF OpenFile, Keep
<1>12. ASSUME NEW w \in Workers, WriteFile(w) PROVE DataOK'
  BY <1>12 DEF WriteFile
<1>13. ASSUME NEW w \in Workers, OpenList(w) PROVE DataOK'
  BY <1>13 DEF OpenList
<1>14. ASSUME NEW w \in Workers, WriteLine(w) PROVE DataOK'
   BY <1>14 DEF WriteLine, Indexed
<1>15. ASSUME NEW w \in Workers, CloseList(w) PROVE DataOK'
  BY <1>15 DEF CloseList, Added
<1>16. ASSUME NEW w \in Workers, ScheduleLink(w) PROVE DataOK'
  <2>1. todo[w] \in Seq(Urls) /\ todo[w] # <<>>
    BY <1>16 DEF ScheduleLink, GotInv
  <2>2. Head(todo[w]) \in Urls /\ Tail(todo[w]) \in Seq(Urls)
    BY <2>1
  <2>3. queue' \in Seq(Urls) /\ todo' \in [Threads -> Seq(Urls)]
    BY <1>16, <2>2 DEF ScheduleLink
  <2> QED
    BY <1>16, <2>3 DEF ScheduleLink
<1>17. CASE Crash
  <2>1. /\ got' \in [Threads -> {"none", "empty", "page"}] /\ todo' \in [Threads -> Seq(Urls)]
        /\ queue' \in Seq(Urls)
    BY <1>17 DEF Crash
  <2>2. /\ robots' \in [Hosts -> SUBSET SUBSET Urls]
        /\ documents' \in [Urls -> Contents]
    BY <1>17 DEF Crash
  <2>3. /\ hasurl' \subseteq Urls /\ fetched' \subseteq Urls /\ impolite' \subseteq Urls
        /\ memoryOnly' \in BOOLEAN
    BY <1>17 DEF Crash
  <2>4. file' \in [Urls -> Contents] /\ list' \subseteq Urls /\ stored' \subseteq Urls
    BY <1>17 DEF Crash
  <2> QED
    BY <2>1, <2>2, <2>3, <2>4
<1>18. CASE Restart
  BY <1>18 DEF Restart
<1> QED
  BY <1>1, <1>2, <1>3, <1>4, <1>5, <1>6, <1>7, <1>8, <1>9, <1>10, <1>11,
     <1>12, <1>13, <1>14, <1>15, <1>16, <1>17, <1>18
     DEF Next, MainStep, DownloadWeb, AddDocument

\* The threads of the pool have work only while the main thread waits.
LEMMA RestInvStep ==
    ASSUME IInv, Next
    PROVE  RestInv'
<1> USE SiteAssumption, ThreadsAssumption
<1> USE DEF IInv, TypeOK, LabelsOK, DataOK, Step, Threads, vars, locals, memory, disk, history,
           bounds, Quiet, RestInv, WorkerLabels, MainLabels
<1>1. ASSUME NEW t \in Threads, Access(t) PROVE RestInv'
  <2>1. AccessDecides(t)
    BY <1>1, AccessCases
  <2> QED
    BY <2>1 DEF AccessDecides, Leaves, GoesTo
<1>2. ASSUME NEW t \in Threads, FetchRobots(t) PROVE RestInv'
  <2>1. FetchDecides(t)
    BY <1>2, FetchCases DEF TypeOK, LabelsOK, DataOK
  <2> QED
    BY <2>1 DEF FetchDecides, Leaves, GoesTo
<1>3. CASE Download \/ ServeOnly \/ Serve
  BY <1>3 DEF Download, ServeOnly, Serve
<1>4. CASE ScheduleSeed \/ WaitReturns
  BY <1>4 DEF ScheduleSeed, WaitReturns
<1>5. ASSUME NEW w \in Workers, Take(w) PROVE RestInv'
  BY <1>5 DEF Take
<1>6. ASSUME NEW w \in Workers, Lookup(w) PROVE RestInv'
  <2>1. LookupDecides(w)
    BY <1>6, LookupCases
  <2> QED
    BY <2>1 DEF LookupDecides, Leaves, GoesTo
<1>7. ASSUME NEW w \in Workers, DownloadPage(w) \/ Insert(w) PROVE RestInv'
  BY <1>7 DEF DownloadPage, Insert, Races
<1>8. ASSUME NEW w \in Workers, KeepOnly(w) PROVE RestInv'
  BY <1>8 DEF KeepOnly, Keep, Added
<1>9. ASSUME NEW w \in Workers, OpenFile(w) PROVE RestInv'
  BY <1>9 DEF OpenFile, Keep
<1>10. ASSUME NEW w \in Workers, WriteFile(w) \/ OpenList(w) \/ WriteLine(w) PROVE RestInv'
  BY <1>10 DEF WriteFile, OpenList, WriteLine
<1>11. ASSUME NEW w \in Workers, CloseList(w) PROVE RestInv'
  BY <1>11 DEF CloseList, Added
<1>12. ASSUME NEW w \in Workers, ScheduleLink(w) PROVE RestInv'
  BY <1>12 DEF ScheduleLink
<1>13. CASE Crash
  BY <1>13 DEF Crash, Quiet
<1>14. CASE Restart
  BY <1>14 DEF Restart
<1> QED
  BY <1>1, <1>2, <1>3, <1>4, <1>5, <1>6, <1>7, <1>8, <1>9, <1>10, <1>11,
     <1>12, <1>13, <1>14
     DEF Next, MainStep, DownloadWeb, AddDocument

\* indexLock is taken when it is free, and released by its holder.
LEMMA LockInvStep ==
    ASSUME IInv, Next
    PROVE  LockInv'
<1> USE SiteAssumption, ThreadsAssumption
<1> USE DEF IInv, TypeOK, LabelsOK, DataOK, Step, Threads, vars, locals, memory, disk, history,
           bounds, Quiet, LockInv, Writing, RestInv
<1>1. ASSUME NEW t \in Threads, Access(t) PROVE LockInv'
  <2>1. AccessDecides(t)
    BY <1>1, AccessCases
  <2> QED
    BY <2>1 DEF AccessDecides, Leaves, GoesTo
<1>2. ASSUME NEW t \in Threads, FetchRobots(t) PROVE LockInv'
  <2>1. FetchDecides(t)
    BY <1>2, FetchCases DEF TypeOK, LabelsOK, DataOK
  <2> QED
    BY <2>1 DEF FetchDecides, Leaves, GoesTo
<1>3. CASE Download \/ ServeOnly \/ Serve
  BY <1>3 DEF Download, ServeOnly, Serve
<1>4. CASE ScheduleSeed \/ WaitReturns
  BY <1>4 DEF ScheduleSeed, WaitReturns
<1>5. ASSUME NEW w \in Workers, Take(w) PROVE LockInv'
  BY <1>5 DEF Take
<1>6. ASSUME NEW w \in Workers, Lookup(w) PROVE LockInv'
  <2>1. LookupDecides(w)
    BY <1>6, LookupCases
  <2> QED
    BY <2>1 DEF LookupDecides, Leaves, GoesTo
<1>7. ASSUME NEW w \in Workers, DownloadPage(w) \/ Insert(w) PROVE LockInv'
  BY <1>7 DEF DownloadPage, Insert, Races
<1>8. ASSUME NEW w \in Workers, KeepOnly(w) PROVE LockInv'
  BY <1>8 DEF KeepOnly, Keep, Added
<1>9. ASSUME NEW w \in Workers, OpenFile(w) PROVE LockInv'
  BY <1>9 DEF OpenFile, Keep
<1>10. ASSUME NEW w \in Workers, WriteFile(w) \/ OpenList(w) \/ WriteLine(w) PROVE LockInv'
  BY <1>10 DEF WriteFile, OpenList, WriteLine
<1>11. ASSUME NEW w \in Workers, CloseList(w) PROVE LockInv'
  BY <1>11 DEF CloseList, Added
<1>12. ASSUME NEW w \in Workers, ScheduleLink(w) PROVE LockInv'
  BY <1>12 DEF ScheduleLink
<1>13. CASE Crash
  BY <1>13 DEF Crash, Quiet
<1>14. CASE Restart
  BY <1>14 DEF Restart
<1> QED
  BY <1>1, <1>2, <1>3, <1>4, <1>5, <1>6, <1>7, <1>8, <1>9, <1>10, <1>11,
     <1>12, <1>13, <1>14
     DEF Next, MainStep, DownloadWeb, AddDocument

\* A thread that goes on has what it goes on with.
LEMMA GotInvStep ==
    ASSUME IInv, Next
    PROVE  GotInv'
<1> USE SiteAssumption, ThreadsAssumption
<1> USE DEF IInv, TypeOK, LabelsOK, DataOK, Step, Threads, vars, locals, memory, disk, history,
           bounds, Quiet, GotInv, Holding, Writing
<1>1. ASSUME NEW t \in Threads, Access(t) PROVE GotInv'
  <2>1. AccessDecides(t)
    BY <1>1, AccessCases
  <2> QED
    BY <2>1 DEF AccessDecides, Leaves, GoesTo
<1>2. ASSUME NEW t \in Threads, FetchRobots(t) PROVE GotInv'
  <2>1. FetchDecides(t)
    BY <1>2, FetchCases DEF TypeOK, LabelsOK, DataOK
  <2> QED
    BY <2>1 DEF FetchDecides, Leaves, GoesTo
<1>3. CASE Download \/ ServeOnly \/ Serve
  BY <1>3 DEF Download, ServeOnly, Serve
<1>4. CASE ScheduleSeed \/ WaitReturns
  BY <1>4 DEF ScheduleSeed, WaitReturns
<1>5. ASSUME NEW w \in Workers, Take(w) PROVE GotInv'
  BY <1>5 DEF Take
<1>6. ASSUME NEW w \in Workers, Lookup(w) PROVE GotInv'
  <2>1. LookupDecides(w)
    BY <1>6, LookupCases
  <2> QED
    BY <2>1 DEF LookupDecides, Leaves, GoesTo
<1>7. ASSUME NEW w \in Workers, DownloadPage(w) \/ Insert(w) PROVE GotInv'
  BY <1>7 DEF DownloadPage, Insert, Races
<1>8. ASSUME NEW w \in Workers, KeepOnly(w) PROVE GotInv'
  BY <1>8 DEF KeepOnly, Keep, Added
<1>9. ASSUME NEW w \in Workers, OpenFile(w) PROVE GotInv'
  BY <1>9 DEF OpenFile, Keep
<1>10. ASSUME NEW w \in Workers, WriteFile(w) \/ OpenList(w) \/ WriteLine(w) PROVE GotInv'
  BY <1>10 DEF WriteFile, OpenList, WriteLine
<1>11. ASSUME NEW w \in Workers, CloseList(w) PROVE GotInv'
  BY <1>11 DEF CloseList, Added
<1>12. ASSUME NEW w \in Workers, ScheduleLink(w) PROVE GotInv'
  <2>1. todo[w] \in Seq(Urls) /\ todo[w] # <<>>
    BY <1>12 DEF ScheduleLink
  <2>2. Len(todo[w]) # 1 => Tail(todo[w]) # <<>>
    BY <2>1, LongTail
  <2> QED
    BY <1>12, <2>1, <2>2 DEF ScheduleLink
<1>13. CASE Crash
  BY <1>13 DEF Crash, Quiet
<1>14. CASE Restart
  BY <1>14 DEF Restart
<1> QED
  BY <1>1, <1>2, <1>3, <1>4, <1>5, <1>6, <1>7, <1>8, <1>9, <1>10, <1>11,
     <1>12, <1>13, <1>14
     DEF Next, MainStep, DownloadWeb, AddDocument

\* What is listed is in the index, and its file was written.
LEMMA StoredInvStep ==
    ASSUME IInv, Next
    PROVE  StoredInv'
<1> USE SiteAssumption, ThreadsAssumption
<1> USE DEF IInv, TypeOK, LabelsOK, DataOK, Step, Threads, vars, locals, memory, disk, history,
           bounds, Quiet, StoredInv, LockInv, GotInv, Holding, Writing, Indexed, Contents
<1>1. ASSUME NEW t \in Threads, Access(t) PROVE StoredInv'
  <2>1. AccessDecides(t)
    BY <1>1, AccessCases
  <2>2. CASE Leaves(t)
    <3>1. CASE t = Main
      BY <2>1, <2>2, <3>1 DEF AccessDecides, Leaves
    <3>2. CASE t # Main
      BY <2>1, <2>2, <3>2 DEF AccessDecides, Leaves
    <3> QED
      BY <3>1, <3>2
  <2>3. CASE ~Leaves(t)
    <3>1. CASE GoesTo(t, "robots")
      BY <2>1, <3>1 DEF AccessDecides, GoesTo
    <3>2. CASE GoesTo(t, "lookup")
      BY <2>1, <3>2 DEF AccessDecides, GoesTo
    <3> QED
      BY <2>1, <2>3, <3>1, <3>2 DEF AccessDecides
  <2> QED
    BY <2>2, <2>3
<1>2. ASSUME NEW t \in Threads, FetchRobots(t) PROVE StoredInv'
  <2>1. FetchDecides(t)
    BY <1>2, FetchCases DEF TypeOK, LabelsOK, DataOK
  <2>2. CASE Leaves(t)
    <3>1. CASE t = Main
      BY <2>1, <2>2, <3>1 DEF FetchDecides, Leaves
    <3>2. CASE t # Main
      BY <2>1, <2>2, <3>2 DEF FetchDecides, Leaves
    <3> QED
      BY <3>1, <3>2
  <2>3. CASE ~Leaves(t)
    <3>1. GoesTo(t, "lookup")
      BY <2>1, <2>3 DEF FetchDecides
    <3> QED
      BY <2>1, <3>1 DEF FetchDecides, GoesTo
  <2> QED
    BY <2>2, <2>3
<1>3. CASE Download \/ ServeOnly \/ Serve
  <2>1. CASE Download
    BY <2>1 DEF Download
  <2>2. CASE ServeOnly
    BY <2>2 DEF ServeOnly
  <2>3. CASE Serve
    BY <2>3 DEF Serve
  <2> QED
    BY <1>3, <2>1, <2>2, <2>3
<1>4. CASE ScheduleSeed \/ WaitReturns
  <2>1. CASE ScheduleSeed
    BY <2>1 DEF ScheduleSeed
  <2>2. CASE WaitReturns
    BY <2>2 DEF WaitReturns
  <2> QED
    BY <1>4, <2>1, <2>2
<1>5. ASSUME NEW w \in Workers, Take(w) PROVE StoredInv'
  BY <1>5 DEF Take
<1>6. ASSUME NEW w \in Workers, Lookup(w) PROVE StoredInv'
  <2>1. LookupDecides(w)
    BY <1>6, LookupCases
  <2>2. CASE Leaves(w)
    <3>1. CASE w = Main
      BY <2>1, <2>2, <3>1 DEF LookupDecides, Leaves
    <3>2. CASE w # Main
      BY <2>1, <2>2, <3>2 DEF LookupDecides, Leaves
    <3> QED
      BY <3>1, <3>2
  <2>3. CASE ~Leaves(w)
    <3>1. GoesTo(w, "download")
      BY <2>1, <2>3 DEF LookupDecides
    <3> QED
      BY <2>1, <3>1 DEF LookupDecides, GoesTo
  <2> QED
    BY <2>2, <2>3
<1>7. ASSUME NEW w \in Workers, DownloadPage(w) PROVE StoredInv'
  BY <1>7 DEF DownloadPage
<1>8. ASSUME NEW w \in Workers, Insert(w) PROVE StoredInv'
  BY <1>8 DEF Insert, Races
<1>9. ASSUME NEW w \in Workers, KeepOnly(w) PROVE StoredInv'
  BY <1>9 DEF KeepOnly, Keep, Added
<1>10. ASSUME NEW w \in Workers, OpenFile(w) PROVE StoredInv'
  BY <1>10 DEF OpenFile, Keep
<1>11. ASSUME NEW w \in Workers, WriteFile(w) \/ OpenList(w) \/ WriteLine(w) PROVE StoredInv'
  BY <1>11 DEF WriteFile, OpenList, WriteLine
<1>12. ASSUME NEW w \in Workers, CloseList(w) PROVE StoredInv'
  BY <1>12 DEF CloseList, Added
<1>13. ASSUME NEW w \in Workers, ScheduleLink(w) PROVE StoredInv'
  BY <1>13 DEF ScheduleLink
<1>14. CASE Crash
  BY <1>14 DEF Crash, Quiet
<1>15. CASE Restart
  BY <1>15 DEF Restart
<1> QED
  BY <1>1, <1>2, <1>3, <1>4, <1>5, <1>6, <1>7, <1>8, <1>9, <1>10, <1>11,
     <1>12, <1>13, <1>14, <1>15
     DEF Next, MainStep, DownloadWeb, AddDocument

\* Who has written the list has written the whole index.
LEMMA ListInvStep ==
    ASSUME IInv, Next
    PROVE  ListInv'
<1> USE SiteAssumption, ThreadsAssumption
<1> USE DEF IInv, TypeOK, LabelsOK, DataOK, Step, Threads, vars, locals, memory, disk, history,
           bounds, Quiet, ListInv, LockInv, Writing, Indexed, StoredInv, RestInv
<1>1. ASSUME NEW t \in Threads, Access(t) PROVE ListInv'
  <2>1. AccessDecides(t)
    BY <1>1, AccessCases
  <2> QED
    BY <2>1 DEF AccessDecides, Leaves, GoesTo
<1>2. ASSUME NEW t \in Threads, FetchRobots(t) PROVE ListInv'
  <2>1. FetchDecides(t)
    BY <1>2, FetchCases DEF TypeOK, LabelsOK, DataOK
  <2> QED
    BY <2>1 DEF FetchDecides, Leaves, GoesTo
<1>3. CASE Download \/ ServeOnly \/ Serve
  BY <1>3 DEF Download, ServeOnly, Serve
<1>4. CASE ScheduleSeed \/ WaitReturns
  BY <1>4 DEF ScheduleSeed, WaitReturns
<1>5. ASSUME NEW w \in Workers, Take(w) PROVE ListInv'
  BY <1>5 DEF Take
<1>6. ASSUME NEW w \in Workers, Lookup(w) PROVE ListInv'
  <2>1. LookupDecides(w)
    BY <1>6, LookupCases
  <2> QED
    BY <2>1 DEF LookupDecides, Leaves, GoesTo
<1>7. ASSUME NEW w \in Workers, DownloadPage(w) \/ Insert(w) PROVE ListInv'
  BY <1>7 DEF DownloadPage, Insert, Races
<1>8. ASSUME NEW w \in Workers, KeepOnly(w) PROVE ListInv'
  BY <1>8 DEF KeepOnly, Keep, Added
<1>9. ASSUME NEW w \in Workers, OpenFile(w) PROVE ListInv'
  BY <1>9 DEF OpenFile, Keep
<1>10. ASSUME NEW w \in Workers, WriteFile(w) \/ OpenList(w) \/ WriteLine(w) PROVE ListInv'
  BY <1>10 DEF WriteFile, OpenList, WriteLine
<1>11. ASSUME NEW w \in Workers, CloseList(w) PROVE ListInv'
  BY <1>11 DEF CloseList, Added
<1>12. ASSUME NEW w \in Workers, ScheduleLink(w) PROVE ListInv'
  BY <1>12 DEF ScheduleLink
<1>13. CASE Crash
  BY <1>13 DEF Crash, Quiet
<1>14. CASE Restart
  BY <1>14 DEF Restart
<1> QED
  BY <1>1, <1>2, <1>3, <1>4, <1>5, <1>6, <1>7, <1>8, <1>9, <1>10, <1>11,
     <1>12, <1>13, <1>14
     DEF Next, MainStep, DownloadWeb, AddDocument

\* What becomes known of a robots.txt.
LEMMA RobotsInvStep ==
    ASSUME IInv, Next
    PROVE  RobotsInv'
<1> USE SiteAssumption, ThreadsAssumption
<1> USE DEF IInv, Step, Threads, vars, locals, memory, disk, history,
           bounds, Quiet, RobotsInv, DisallowedBy
<1>1. ASSUME NEW t \in Threads, Access(t) PROVE RobotsInv'
  BY <1>1 DEF Access, Answer, Refused
<1>2. ASSUME NEW t \in Threads, FetchRobots(t) PROVE RobotsInv'
  <2> DEFINE host == HostOf[url[t]]
             all == {u \in Disallowed : HostOf[u] = host}
  <2>1. robots \in [Hosts -> SUBSET SUBSET Urls]
    BY DEF TypeOK, DataOK
  <2>2. PICK found \in {all, {}} :
           /\ robots' = [robots EXCEPT ![host] = IF @ = {} THEN {found} ELSE @]
           /\ IF found = all
              THEN UNCHANGED <<impolite, failures>>
              ELSE /\ failures < MaxFailures /\ failures' = failures + 1
                   /\ impolite' = impolite \cup {u \in Urls : HostOf[u] = host}
    BY <1>2 DEF FetchRobots
  <2>3. impolite \subseteq impolite'
    BY <2>2
  <2>4. SUFFICES ASSUME NEW h \in Hosts, NEW s \in robots'[h]
                 PROVE  \/ s = DisallowedBy(h)
                        \/ s = {} /\ \A u \in Urls : HostOf[u] = h => u \in impolite'
    OBVIOUS
  <2>5. CASE s \in robots[h]
    BY <2>3, <2>5
  <2>6. CASE s \notin robots[h]
    <3>1. h = host /\ s = found
      BY <2>1, <2>2, <2>6
    <3> QED
      BY <2>2, <3>1
  <2> QED
    BY <2>5, <2>6
<1>3. CASE Download \/ ServeOnly \/ Serve
  BY <1>3 DEF Download, ServeOnly, Serve
<1>4. CASE ScheduleSeed \/ WaitReturns
  BY <1>4 DEF ScheduleSeed, WaitReturns
<1>5. ASSUME NEW w \in Workers, Take(w) PROVE RobotsInv'
  BY <1>5 DEF Take
<1>6. ASSUME NEW w \in Workers, Lookup(w) PROVE RobotsInv'
  BY <1>6 DEF Lookup, Races
<1>7. ASSUME NEW w \in Workers, DownloadPage(w) \/ Insert(w) PROVE RobotsInv'
  BY <1>7 DEF DownloadPage, Insert, Races
<1>8. ASSUME NEW w \in Workers, KeepOnly(w) PROVE RobotsInv'
  BY <1>8 DEF KeepOnly, Keep, Added
<1>9. ASSUME NEW w \in Workers, OpenFile(w) PROVE RobotsInv'
  BY <1>9 DEF OpenFile, Keep
<1>10. ASSUME NEW w \in Workers, WriteFile(w) \/ OpenList(w) \/ WriteLine(w) PROVE RobotsInv'
  BY <1>10 DEF WriteFile, OpenList, WriteLine
<1>11. ASSUME NEW w \in Workers, CloseList(w) PROVE RobotsInv'
  BY <1>11 DEF CloseList, Added
<1>12. ASSUME NEW w \in Workers, ScheduleLink(w) PROVE RobotsInv'
  BY <1>12 DEF ScheduleLink
<1>13. CASE Crash
  BY <1>13 DEF Crash, Quiet
<1>14. CASE Restart
  BY <1>14 DEF Restart
<1> QED
  BY <1>1, <1>2, <1>3, <1>4, <1>5, <1>6, <1>7, <1>8, <1>9, <1>10, <1>11,
     <1>12, <1>13, <1>14
     DEF Next, MainStep, DownloadWeb, AddDocument

\* A thread that is let through may fetch its page.
LEMMA PoliteInvStep ==
    ASSUME IInv, Next
    PROVE  PoliteInv'
<1> USE SiteAssumption, ThreadsAssumption
<1> USE DEF IInv, Step, Threads, vars, locals, memory, disk, history,
           bounds, Quiet, PoliteInv, MayFetch, RestInv
<1>1. ASSUME NEW t \in Threads, Access(t) PROVE PoliteInv'
  <2> /\ pc \in [Threads -> WorkerLabels \cup MainLabels] /\ url \in [Threads -> Urls]
      /\ fetched \subseteq Urls /\ impolite \subseteq Urls
    BY DEF TypeOK, LabelsOK, DataOK
  <2>1. AccessDecides(t)
    BY <1>1, AccessCases
  <2>2. pc'[t] = "lookup" => MayFetch(url[t])
    <3> SUFFICES ASSUME pc'[t] = "lookup" PROVE MayFetch(url[t])
      OBVIOUS
    <3>1. url[t] \in Urls /\ HostOf[url[t]] \in Hosts
      OBVIOUS
    <3>2. ~Leaves(t) /\ ~GoesTo(t, "robots")
      BY DEF Leaves, GoesTo
    <3>3. PICK s \in robots[HostOf[url[t]]] : url[t] \in Whitelist /\ url[t] \notin s
      BY <2>1, <3>2 DEF AccessDecides
    <3> QED
      BY <3>1, <3>3 DEF RobotsInv, DisallowedBy
  <2>3. CASE Leaves(t)
    <3>1. CASE t = Main
      BY <2>1, <2>3, <3>1 DEF AccessDecides, Leaves
    <3>2. CASE t # Main
      BY <2>1, <2>3, <3>2 DEF AccessDecides, Leaves
    <3> QED
      BY <3>1, <3>2
  <2>4. CASE ~Leaves(t)
    BY <2>1, <2>2, <2>4 DEF AccessDecides, GoesTo
  <2> QED
    BY <2>3, <2>4
<1>2. ASSUME NEW t \in Threads, FetchRobots(t) PROVE PoliteInv'
  <2> /\ pc \in [Threads -> WorkerLabels \cup MainLabels] /\ url \in [Threads -> Urls]
      /\ fetched \subseteq Urls /\ impolite \subseteq Urls
    BY DEF TypeOK, LabelsOK, DataOK
  <2>1. FetchDecides(t)
    BY <1>2, FetchCases
  <2>2. GoesTo(t, "lookup") => MayFetch(url[t])'
    <3> SUFFICES ASSUME GoesTo(t, "lookup") PROVE MayFetch(url[t])'
      OBVIOUS
    <3>1. ~Leaves(t)
      BY DEF Leaves, GoesTo
    <3>2. pc[t] = "robots" /\ (url[t] \notin Disallowed \/ url[t] \in impolite')
      BY <2>1, <3>1 DEF FetchDecides
    <3>3. url[t] \in Whitelist /\ url' = url
      BY <3>2 DEF GoesTo
    <3> QED
      BY <3>2, <3>3
  <2>3. CASE Leaves(t)
    <3>1. CASE t = Main
      BY <2>1, <2>3, <3>1 DEF FetchDecides, Leaves
    <3>2. CASE t # Main
      BY <2>1, <2>3, <3>2 DEF FetchDecides, Leaves
    <3> QED
      BY <3>1, <3>2
  <2>4. CASE ~Leaves(t)
    BY <2>1, <2>2, <2>4 DEF FetchDecides, GoesTo
  <2> QED
    BY <2>3, <2>4
<1>3. CASE Download
  BY <1>3 DEF Download
<1>4. CASE ServeOnly
  BY <1>4 DEF ServeOnly
<1>5. CASE Serve
  BY <1>5 DEF Serve
<1>6. CASE ScheduleSeed
  BY <1>6 DEF ScheduleSeed
<1>7. CASE WaitReturns
  BY <1>7 DEF WaitReturns
<1>8. ASSUME NEW w \in Workers, Take(w) PROVE PoliteInv'
  BY <1>8 DEF Take
<1>9. ASSUME NEW w \in Workers, Lookup(w) PROVE PoliteInv'
  <2> /\ pc \in [Threads -> WorkerLabels \cup MainLabels] /\ url \in [Threads -> Urls]
      /\ fetched \subseteq Urls /\ impolite \subseteq Urls
    BY DEF TypeOK, LabelsOK, DataOK
  <2>1. LookupDecides(w)
    BY <1>9, LookupCases
  <2>2. MayFetch(url[w])
    BY <2>1 DEF LookupDecides
  <2>3. CASE Leaves(w)
    <3>1. CASE w = Main
      BY <2>1, <2>3, <3>1 DEF LookupDecides, Leaves
    <3>2. CASE w # Main
      BY <2>1, <2>3, <3>2 DEF LookupDecides, Leaves
    <3> QED
      BY <3>1, <3>2
  <2>4. CASE ~Leaves(w)
    BY <2>1, <2>2, <2>4 DEF LookupDecides, GoesTo
  <2> QED
    BY <2>3, <2>4
<1>10. ASSUME NEW w \in Workers, DownloadPage(w) PROVE PoliteInv'
  <2> /\ pc \in [Threads -> WorkerLabels \cup MainLabels] /\ url \in [Threads -> Urls]
      /\ fetched \subseteq Urls /\ impolite \subseteq Urls
    BY DEF TypeOK, LabelsOK, DataOK
  <2>1. pc[w] = "download" /\ pc' = [pc EXCEPT ![w] = "insert"] /\ url' = url
    BY <1>10 DEF DownloadPage
  <2>2. impolite' = impolite /\ fetched' \subseteq fetched \cup {url[w]}
    BY <1>10 DEF DownloadPage
  <2> QED
    BY <2>1, <2>2
<1>11. ASSUME NEW w \in Workers, Insert(w) PROVE PoliteInv'
  BY <1>11 DEF Insert, Races
<1>12. ASSUME NEW w \in Workers, KeepOnly(w) PROVE PoliteInv'
  BY <1>12 DEF KeepOnly, Keep, Added
<1>13. ASSUME NEW w \in Workers, OpenFile(w) PROVE PoliteInv'
  BY <1>13 DEF OpenFile, Keep
<1>14. ASSUME NEW w \in Workers, WriteFile(w) PROVE PoliteInv'
  BY <1>14 DEF WriteFile
<1>15. ASSUME NEW w \in Workers, OpenList(w) PROVE PoliteInv'
  BY <1>15 DEF OpenList
<1>16. ASSUME NEW w \in Workers, WriteLine(w) PROVE PoliteInv'
  BY <1>16 DEF WriteLine
<1>17. ASSUME NEW w \in Workers, CloseList(w) PROVE PoliteInv'
  BY <1>17 DEF CloseList, Added
<1>18. ASSUME NEW w \in Workers, ScheduleLink(w) PROVE PoliteInv'
  BY <1>18 DEF ScheduleLink
<1>19. CASE Crash
  BY <1>19 DEF Crash, Quiet
<1>20. CASE Restart
  BY <1>20 DEF Restart
<1> QED
  BY <1>1, <1>2, <1>3, <1>4, <1>5, <1>6, <1>7, <1>8, <1>9, <1>10, <1>11,
     <1>12, <1>13, <1>14, <1>15, <1>16, <1>17, <1>18, <1>19, <1>20
     DEF Next, MainStep, DownloadWeb, AddDocument

\* Who puts a URL into hasurl puts its document into the index.
LEMMA HasurlInvStep ==
    ASSUME IInv, Next
    PROVE  HasurlInv'
<1> USE SiteAssumption, ThreadsAssumption
<1> USE DEF IInv, TypeOK, LabelsOK, DataOK, Step, Threads, vars, locals, memory, disk, history,
           bounds, Quiet, HasurlInv, Indexed, GotInv, Holding, RestInv
<1>1. ASSUME NEW t \in Threads, Access(t) PROVE HasurlInv'
  <2>1. AccessDecides(t)
    BY <1>1, AccessCases
  <2>2. hasurl' = hasurl /\ documents' = documents
    BY <2>1 DEF AccessDecides
  <2>3. ASSUME NEW v \in Workers, pc[v] = "index" PROVE pc'[v] = "index" /\ url'[v] = url[v]
    BY <2>1, <2>3 DEF AccessDecides, Leaves, GoesTo
  <2>4. SUFFICES ASSUME NEW u \in hasurl, documents[u] = "none"
                 PROVE  \E v \in Workers : pc'[v] = "index" /\ url'[v] = u
    BY <2>2
  <2>5. PICK v \in Workers : pc[v] = "index" /\ url[v] = u
    BY <2>4
  <2> QED
    BY <2>3, <2>5
<1>2. ASSUME NEW t \in Threads, FetchRobots(t) PROVE HasurlInv'
  <2>1. FetchDecides(t)
    BY <1>2, FetchCases DEF TypeOK, LabelsOK, DataOK
  <2>2. hasurl' = hasurl /\ documents' = documents
    BY <2>1 DEF FetchDecides
  <2>3. ASSUME NEW v \in Workers, pc[v] = "index" PROVE pc'[v] = "index" /\ url'[v] = url[v]
    BY <2>1, <2>3 DEF FetchDecides, Leaves, GoesTo
  <2>4. SUFFICES ASSUME NEW u \in hasurl, documents[u] = "none"
                 PROVE  \E v \in Workers : pc'[v] = "index" /\ url'[v] = u
    BY <2>2
  <2>5. PICK v \in Workers : pc[v] = "index" /\ url[v] = u
    BY <2>4
  <2> QED
    BY <2>3, <2>5
<1>3. CASE Download \/ ServeOnly \/ Serve
  BY <1>3 DEF Download, ServeOnly, Serve
<1>4. CASE ScheduleSeed \/ WaitReturns
  BY <1>4 DEF ScheduleSeed, WaitReturns
<1>5. ASSUME NEW w \in Workers, Take(w) PROVE HasurlInv'
  BY <1>5 DEF Take
<1>6. ASSUME NEW w \in Workers, Lookup(w) PROVE HasurlInv'
  <2>1. LookupDecides(w)
    BY <1>6, LookupCases
  <2>2. hasurl' = hasurl /\ documents' = documents
    BY <2>1 DEF LookupDecides
  <2>3. ASSUME NEW v \in Workers, pc[v] = "index" PROVE pc'[v] = "index" /\ url'[v] = url[v]
    BY <2>1, <2>3 DEF LookupDecides, Leaves, GoesTo
  <2>4. SUFFICES ASSUME NEW u \in hasurl, documents[u] = "none"
                 PROVE  \E v \in Workers : pc'[v] = "index" /\ url'[v] = u
    BY <2>2
  <2>5. PICK v \in Workers : pc[v] = "index" /\ url[v] = u
    BY <2>4
  <2> QED
    BY <2>3, <2>5
<1>7. ASSUME NEW w \in Workers, DownloadPage(w) PROVE HasurlInv'
  BY <1>7 DEF DownloadPage
<1>8. ASSUME NEW w \in Workers, Insert(w) PROVE HasurlInv'
  BY <1>8 DEF Insert, Races
<1>9. ASSUME NEW w \in Workers, KeepOnly(w) PROVE HasurlInv'
  <2>1. /\ pc[w] = "index" /\ got[w] # "none" /\ hasurl' = hasurl
        /\ documents' = [documents EXCEPT ![url[w]] = IF @ = "none" THEN got[w] ELSE @]
        /\ \A v \in Workers \ {w} : pc'[v] = pc[v] /\ url'[v] = url[v]
    <3>1. pc[w] = "index" /\ hasurl' = hasurl
      BY <1>9 DEF KeepOnly, Added
    <3>2. documents' = [documents EXCEPT ![url[w]] = IF @ = "none" THEN got[w] ELSE @]
      BY <1>9 DEF KeepOnly, Keep
    <3>3. \A v \in Workers \ {w} : pc'[v] = pc[v] /\ url'[v] = url[v]
      BY <1>9 DEF KeepOnly, Added
    <3>4. got[w] # "none"
      BY <3>1
    <3> QED
      BY <3>1, <3>2, <3>3, <3>4
  <2>2. ASSUME NEW u \in hasurl
        PROVE  u \in Indexed' \/ \E v \in Workers : pc'[v] = "index" /\ url'[v] = u
    <3>1. CASE u = url[w]
      BY <2>1, <3>1
    <3>2. CASE u # url[w]
      <4>1. documents'[u] = documents[u]
        BY <2>1, <3>2
      <4>2. CASE u \in Indexed
        BY <4>1, <4>2
      <4>3. ASSUME NEW v \in Workers, pc[v] = "index", url[v] = u
            PROVE  pc'[v] = "index" /\ url'[v] = u
        BY <2>1, <3>2, <4>3
      <4> QED
        BY <4>2, <4>3
    <3> QED
      BY <3>1, <3>2
  <2> QED
    BY <2>1, <2>2
<1>10. ASSUME NEW w \in Workers, OpenFile(w) PROVE HasurlInv'
  BY <1>10 DEF OpenFile, Keep
<1>11. ASSUME NEW w \in Workers, WriteFile(w) PROVE HasurlInv'
  BY <1>11 DEF WriteFile
<1>12. ASSUME NEW w \in Workers, OpenList(w) PROVE HasurlInv'
  BY <1>12 DEF OpenList
<1>13. ASSUME NEW w \in Workers, WriteLine(w) PROVE HasurlInv'
  BY <1>13 DEF WriteLine
<1>14. ASSUME NEW w \in Workers, CloseList(w) PROVE HasurlInv'
  BY <1>14 DEF CloseList, Added
<1>15. ASSUME NEW w \in Workers, ScheduleLink(w) PROVE HasurlInv'
  BY <1>15 DEF ScheduleLink
<1>16. CASE Crash
  BY <1>16 DEF Crash, Quiet
<1>17. CASE Restart
  BY <1>17 DEF Restart
<1> QED
  BY <1>1, <1>2, <1>3, <1>4, <1>5, <1>6, <1>7, <1>8, <1>9, <1>10, <1>11,
     <1>12, <1>13, <1>14, <1>15, <1>16, <1>17
     DEF Next, MainStep, DownloadWeb, AddDocument

-----------------------------------------------------------------------------
(* The crawl.                                                              *)

\* The other threads keep what they have.
OthersStay(w) ==
    \A v \in Workers \ {w} :
        pc'[v] = pc[v] /\ url'[v] = url[v] /\ got'[v] = got[v] /\ todo'[v] = todo[v]

\* For a step of one thread, it is enough that it does not drop what it has, nor
\* what is in the queue.
LEMMA OneThread ==
    ASSUME IInv, NEW w \in Workers, OthersStay(w), pc'[Main] = pc[Main], fetched' = fetched,
           Indexed \subseteq Indexed',
           \A u \in Urls : Queues(u) => OnItsWay(u)',
           \A u \in Accessible : u \in Urls /\ Pursues(w, u) => OnItsWay(u)'
    PROVE  CrawlInv'
<1>1. SUFFICES ASSUME pc[Main] \in {"wait", "done"}, NEW u \in Urls, ToBeFound(u)
               PROVE  OnItsWay(u)'
  BY DEF CrawlInv, ToBeFound
<1>2. OnItsWay(u)
  BY <1>1 DEF IInv, CrawlInv
<1>3. CASE u \in Indexed \/ Queues(u)
  BY <1>3 DEF OnItsWay
<1>4. ASSUME NEW v \in Workers, Pursues(v, u) PROVE OnItsWay(u)'
  <2>1. CASE v = w
    BY <1>1, <1>4, <2>1 DEF ToBeFound
  <2>2. CASE v # w
    <3>1. Pursues(v, u)'
      BY <1>4, <2>2 DEF OthersStay, Pursues
    <3> QED
      BY <3>1 DEF OnItsWay
  <2> QED
    BY <2>1, <2>2
<1> QED
  BY <1>2, <1>3, <1>4 DEF OnItsWay

\* What may be accessed is not disallowed by what is known.
LEMMA Kept ==
    ASSUME IInv, NEW t \in Threads, AccessDecides(t), url[t] \in Accessible
    PROVE  GoesTo(t, "robots") \/ GoesTo(t, "lookup")
<1>1. url[t] \in Urls /\ HostOf[url[t]] \in Hosts
  BY SiteAssumption DEF IInv, TypeOK, LabelsOK
<1>2. ASSUME NEW s \in robots[HostOf[url[t]]], url[t] \in s PROVE FALSE
  BY <1>1, <1>2 DEF IInv, RobotsInv, DisallowedBy, Accessible
<1> QED
  BY <1>2 DEF AccessDecides, Accessible

\* A thread that goes on with its URL.
LEMMA GoesOn ==
    ASSUME IInv, NEW w \in Workers, NEW to \in {"robots", "lookup", "download"},
           pc[w] \in {"access", "robots", "lookup"}, GoesTo(w, to),
           UNCHANGED <<got, todo, queue, documents, fetched>>
    PROVE  CrawlInv'
<1>1. OthersStay(w) /\ pc'[Main] = pc[Main] /\ pc'[w] = to /\ url'[w] = url[w]
  BY ThreadsAssumption DEF OthersStay, GoesTo, IInv, TypeOK, LabelsOK, Threads
<1>2. Indexed \subseteq Indexed'
  BY DEF Indexed
<1>3. \A u \in Urls : Queues(u) => OnItsWay(u)'
  BY DEF Queues, OnItsWay
<1>4. \A u \in Urls : Pursues(w, u) => Pursues(w, u)'
  BY <1>1 DEF Pursues, Holding, Writing
<1>5. \A u \in Accessible : u \in Urls /\ Pursues(w, u) => OnItsWay(u)'
  BY <1>4 DEF OnItsWay
<1> QED
  BY <1>1, <1>2, <1>3, <1>5, OneThread

\* A thread that leaves a URL that is not to be found, or that is elsewhere.
LEMMA LeavesIt ==
    ASSUME IInv, NEW w \in Workers, pc[w] \in {"access", "robots", "lookup"}, Leaves(w),
           UNCHANGED <<got, todo, queue, documents, fetched>>,
           \/ url[w] \notin Accessible
           \/ url[w] \in Indexed
           \/ \E v \in Workers : pc[v] = "index" /\ url[v] = url[w]
    PROVE  CrawlInv'
<1>1. OthersStay(w) /\ pc'[Main] = pc[Main]
  BY ThreadsAssumption DEF OthersStay, Leaves, IInv, TypeOK, LabelsOK, Threads
<1>2. Indexed \subseteq Indexed'
  BY DEF Indexed
<1>3. \A u \in Urls : Queues(u) => OnItsWay(u)'
  BY DEF Queues, OnItsWay
<1>4. ASSUME NEW u \in Accessible, u \in Urls, Pursues(w, u) PROVE OnItsWay(u)'
  <2>1. u = url[w]
    BY <1>4 DEF Pursues, Holding, Writing
  <2>2. CASE u \in Indexed
    BY <1>2, <2>2 DEF OnItsWay
  <2>3. ASSUME NEW v \in Workers, pc[v] = "index", url[v] = u PROVE OnItsWay(u)'
    <3>1. Pursues(v, u)'
      BY <1>1, <2>3 DEF OthersStay, Pursues
    <3> QED
      BY <3>1 DEF OnItsWay
  <2> QED
    BY <2>1, <2>2, <2>3
<1> QED
  BY <1>1, <1>2, <1>3, <1>4, OneThread

\* A thread that goes on within addDocument(), or into it.
LEMMA Writes ==
    ASSUME IInv, NEW w \in Workers, NEW to \in Holding,
           pc[w] \in Holding, pc' = [pc EXCEPT ![w] = to],
           UNCHANGED <<url, got, todo, queue, fetched>>,
           Indexed \subseteq Indexed',
           pc[w] \in {"insert", "index"} => to = "index" \/ url[w] \in Indexed'
    PROVE  CrawlInv'
<1>1. OthersStay(w) /\ pc'[Main] = pc[Main] /\ pc'[w] = to
  BY ThreadsAssumption DEF OthersStay, IInv, TypeOK, LabelsOK, Threads
<1>2. \A u \in Urls : Queues(u) => OnItsWay(u)'
  BY DEF Queues, OnItsWay
<1>3. ASSUME NEW u \in Accessible, u \in Urls, Pursues(w, u) PROVE OnItsWay(u)'
  <2>1. CASE got[w] = "page" /\ u \in LinkedFrom(url[w])
    <3>1. Pursues(w, u)'
      BY <1>1, <2>1 DEF Pursues
    <3> QED
      BY <3>1 DEF OnItsWay
  <2>2. CASE ~(got[w] = "page" /\ u \in LinkedFrom(url[w]))
    <3>1. pc[w] \in {"insert", "index"} /\ url[w] = u
      BY <1>3, <2>2 DEF Pursues, Holding, Writing
    <3>2. CASE to = "index"
      <4>1. Pursues(w, u)'
        BY <1>1, <3>1, <3>2 DEF Pursues
      <4> QED
        BY <4>1 DEF OnItsWay
    <3>3. CASE u \in Indexed'
      BY <3>3 DEF OnItsWay
    <3> QED
      BY <3>1, <3>2, <3>3
  <2> QED
    BY <2>1, <2>2
<1> QED
  BY <1>1, <1>2, <1>3, OneThread

\* A thread that leaves addDocument() has scheduled no link yet.
LEMMA LeavesAdding ==
    ASSUME IInv, NEW w \in Workers, NEW from \in {"index", "line"}, Added(w, from),
           UNCHANGED <<queue, fetched>>, Indexed \subseteq Indexed',
           from = "index" => url[w] \in Indexed'
    PROVE  CrawlInv'
<1> DEFINE goes == got[w] = "page" /\ Links[url[w]] # <<>>
<1>1. /\ pc[w] = from /\ pc' = [pc EXCEPT ![w] = IF goes THEN "links" ELSE "idle"]
      /\ todo' = [todo EXCEPT ![w] = IF got[w] = "page" THEN Links[url[w]] ELSE <<>>]
      /\ got' = [got EXCEPT ![w] = "none"]
      /\ url' = url \/ url' = [url EXCEPT ![w] = Seed]
  BY DEF Added, Step
<1>2. OthersStay(w) /\ pc'[Main] = pc[Main]
  BY <1>1, ThreadsAssumption DEF OthersStay, IInv, TypeOK, LabelsOK, DataOK, Threads
<1>3. \A u \in Urls : Queues(u) => OnItsWay(u)'
  BY DEF Queues, OnItsWay
<1>4. ASSUME NEW u \in Accessible, u \in Urls, Pursues(w, u) PROVE OnItsWay(u)'
  <2>1. CASE got[w] = "page" /\ u \in LinkedFrom(url[w])
    <3>1. PICK i \in DOMAIN Links[url[w]] : Links[url[w]][i] = u
      BY <2>1 DEF LinkedFrom
    <3>2. url[w] \in Urls /\ Links[url[w]] \in Seq(Urls)
      BY SiteAssumption DEF IInv, TypeOK, LabelsOK, Threads
    <3>3. Links[url[w]] # <<>>
      BY <3>1
    <3>4. pc'[w] = "links" /\ todo'[w] = Links[url[w]]
      BY <1>1, <2>1, <3>3 DEF IInv, TypeOK, LabelsOK, DataOK, Threads
    <3>5. Pursues(w, u)'
      BY <3>1, <3>4 DEF Pursues
    <3> QED
      BY <3>5 DEF OnItsWay
  <2>2. CASE ~(got[w] = "page" /\ u \in LinkedFrom(url[w]))
    <3>1. from = "index" /\ url[w] = u
      BY <1>1, <1>4, <2>2 DEF Pursues, Holding, Writing
    <3> QED
      BY <3>1 DEF OnItsWay
  <2> QED
    BY <2>1, <2>2
<1> QED
  BY <1>2, <1>3, <1>4, OneThread

\* A URL that is to be found is in the index or on its way there.
LEMMA CrawlInvStep ==
    ASSUME IInv, Next
    PROVE  CrawlInv'
<1> USE SiteAssumption, ThreadsAssumption
<1> /\ Main \in Threads /\ \A w \in Workers : w \in Threads /\ w # Main
  BY DEF Threads
<1> /\ pc \in [Threads -> WorkerLabels \cup MainLabels] /\ pc[Main] \in MainLabels
    /\ url \in [Threads -> Urls] /\ queue \in Seq(Urls)
    /\ todo \in [Threads -> Seq(Urls)] /\ got \in [Threads -> {"none", "empty", "page"}]
    /\ documents \in [Urls -> Contents] /\ fetched \subseteq Urls /\ impolite \subseteq Urls
    /\ url[Main] = Seed
  BY DEF IInv, TypeOK, LabelsOK, DataOK, RestInv
<1>1. CASE Download \/ ServeOnly \/ Serve \/ Crash \/ Restart
  BY <1>1 DEF Download, ServeOnly, Serve, Crash, Restart, Quiet, Step, CrawlInv
<1>2. ASSUME Access(Main) \/ FetchRobots(Main) PROVE CrawlInv'
  <2>1. fetched = {} /\ pc[Main] \in {"access", "robots"}
    BY <1>2 DEF Access, FetchRobots, Step, IInv, RestInv
  <2>2. CASE Access(Main)
    <3>1. AccessDecides(Main)
      BY <2>2, AccessCases
    <3>2. CASE Seed \in Accessible
      <4>1. pc'[Main] \in {"robots", "lookup"}
        BY <3>1, <3>2, Kept DEF GoesTo
      <4> QED
        BY <4>1 DEF CrawlInv
    <3>3. CASE Seed \notin Accessible
      BY <2>1, <3>1, <3>3 DEF CrawlInv, ToBeFound, AccessDecides, history
    <3> QED
      BY <3>2, <3>3
  <2>3. CASE FetchRobots(Main)
    <3>1. FetchDecides(Main)
      BY <2>3, FetchCases
    <3>2. CASE Seed \in Disallowed
      BY <2>1, <3>1, <3>2 DEF CrawlInv, ToBeFound, FetchDecides, Accessible
    <3>3. CASE Seed \notin Disallowed
      BY <3>1, <3>3 DEF CrawlInv, FetchDecides, GoesTo
    <3> QED
      BY <3>2, <3>3
  <2> QED
    BY <1>2, <2>2, <2>3
<1>3. CASE ScheduleSeed
  <2>1. fetched = {} /\ queue = <<>> /\ fetched' = fetched /\ queue' = Append(queue, Seed)
    BY <1>3 DEF ScheduleSeed, Step, IInv, RestInv, history
  <2>2. queue' = <<Seed>>
    BY <2>1
  <2>3. Queues(Seed)'
    BY <2>2 DEF Queues
  <2> QED
    BY <2>1, <2>3 DEF CrawlInv, ToBeFound, OnItsWay
<1>4. CASE WaitReturns
  <2>1. /\ pc[Main] = "wait" /\ pc' = [pc EXCEPT ![Main] = "done"] /\ url' = url
        /\ UNCHANGED <<locals, queue, robots, memory, disk, history, bounds>>
    BY <1>4 DEF WaitReturns, Step
  <2>2. \A w \in Workers : pc'[w] = pc[w]
    BY <2>1
  <2>3. \A u \in Urls : OnItsWay(u) => OnItsWay(u)'
    BY <2>1, <2>2 DEF OnItsWay, Queues, Pursues, Indexed, locals, memory
  <2> QED
    BY <2>1, <2>3 DEF CrawlInv, ToBeFound, history, IInv
<1>5. ASSUME NEW w \in Workers, Take(w) PROVE CrawlInv'
  <2>1. /\ queue # <<>> /\ pc[w] = "idle" /\ pc' = [pc EXCEPT ![w] = "access"]
        /\ url' = [url EXCEPT ![w] = Head(queue)] /\ queue' = Tail(queue)
        /\ UNCHANGED <<got, todo, documents, fetched>>
    BY <1>5 DEF Take, memory, history
  <2>2. OthersStay(w) /\ pc'[Main] = pc[Main]
    BY <2>1 DEF OthersStay
  <2>3. Indexed \subseteq Indexed'
    BY <2>1 DEF Indexed
  <2>4. ASSUME NEW u \in Urls, Queues(u) PROVE OnItsWay(u)'
    <3>1. PICK i \in DOMAIN queue : queue[i] = u
      BY <2>4 DEF Queues
    <3>2. CASE i = 1
      <4>1. pc'[w] = "access" /\ url'[w] = u
        BY <2>1, <3>1, <3>2
      <4>2. Pursues(w, u)'
        BY <4>1 DEF Pursues
      <4> QED
        BY <4>2 DEF OnItsWay
    <3>3. CASE i # 1
      <4>1. i - 1 \in DOMAIN Tail(queue) /\ Tail(queue)[i - 1] = u
        BY <2>1, <3>1, <3>3, SMTT(30)
      <4>2. Queues(u)'
        BY <2>1, <4>1 DEF Queues
      <4> QED
        BY <4>2 DEF OnItsWay
    <3> QED
      BY <3>2, <3>3
  <2>5. \A u \in Urls : ~Pursues(w, u)
    BY <2>1 DEF Pursues, Holding, Writing
  <2> QED
    BY <2>1, <2>2, <2>3, <2>4, <2>5, OneThread
<1>6. ASSUME NEW w \in Workers, Access(w) PROVE CrawlInv'
  <2>1. AccessDecides(w)
    BY <1>6, AccessCases
  <2>2. pc[w] = "access" /\ UNCHANGED <<got, todo, queue, documents, fetched>>
    BY <2>1 DEF AccessDecides, locals, memory, history
  <2>3. CASE url[w] \in Accessible
    BY <2>1, <2>2, <2>3, Kept, GoesOn
  <2>4. CASE url[w] \notin Accessible
    BY <2>1, <2>2, <2>4, GoesOn, LeavesIt DEF AccessDecides
  <2> QED
    BY <2>3, <2>4
<1>7. ASSUME NEW w \in Workers, FetchRobots(w) PROVE CrawlInv'
  <2>1. FetchDecides(w)
    BY <1>7, FetchCases
  <2>2. pc[w] = "robots" /\ UNCHANGED <<got, todo, queue, documents, fetched>>
    BY <2>1 DEF FetchDecides, locals, memory
  <2> QED
    BY <2>1, <2>2, GoesOn, LeavesIt DEF FetchDecides, Accessible
<1>8. ASSUME NEW w \in Workers, Lookup(w) PROVE CrawlInv'
  <2>1. LookupDecides(w)
    BY <1>8, LookupCases
  <2>2. pc[w] = "lookup" /\ UNCHANGED <<got, todo, queue, documents, fetched>>
    BY <2>1 DEF LookupDecides, locals, memory, history
  <2>3. CASE Leaves(w) /\ url[w] \in hasurl
    BY <2>2, <2>3, LeavesIt DEF IInv, HasurlInv
  <2>4. CASE GoesTo(w, "download")
    BY <2>2, <2>4, GoesOn
  <2> QED
    BY <2>1, <2>3, <2>4 DEF LookupDecides
<1>9. ASSUME NEW w \in Workers, DownloadPage(w) PROVE CrawlInv'
  <2>1. /\ pc[w] = "download" /\ pc' = [pc EXCEPT ![w] = "insert"] /\ url' = url
        /\ UNCHANGED <<todo, queue, documents>>
        /\ \/ got' = [got EXCEPT ![w] = "page"] /\ fetched' = fetched \cup {url[w]}
           \/ got' = [got EXCEPT ![w] = "empty"] /\ fetched' = fetched
    BY <1>9 DEF DownloadPage, Step, memory
  <2>2. OthersStay(w) /\ pc'[Main] = pc[Main] /\ pc'[w] = "insert"
    BY <2>1 DEF OthersStay
  <2>3. ASSUME NEW u \in Urls, OnItsWay(u) PROVE OnItsWay(u)'
    <3>1. CASE u \in Indexed \/ Queues(u)
      BY <2>1, <3>1 DEF OnItsWay, Queues, Indexed
    <3>2. ASSUME NEW v \in Workers, Pursues(v, u) PROVE Pursues(v, u)'
      <4>1. CASE v = w
        BY <2>1, <2>2, <3>2, <4>1 DEF Pursues, Holding, Writing
      <4>2. CASE v # w
        BY <2>2, <3>2, <4>2 DEF OthersStay, Pursues
      <4> QED
        BY <4>1, <4>2
    <3> QED
      BY <2>3, <3>1, <3>2 DEF OnItsWay
  <2>4. ASSUME NEW u \in Urls, u \in LinkedFrom(url[w]), got' = [got EXCEPT ![w] = "page"]
        PROVE  OnItsWay(u)'
    <3>1. Pursues(w, u)'
      BY <2>1, <2>2, <2>4 DEF Pursues, Holding
    <3> QED
      BY <3>1 DEF OnItsWay
  <2> QED
    BY <2>1, <2>2, <2>3, <2>4 DEF IInv, CrawlInv, ToBeFound
<1>10. ASSUME NEW w \in Workers, Insert(w) PROVE CrawlInv'
  <2>1. /\ pc[w] = "insert" /\ pc' = [pc EXCEPT ![w] = "index"]
        /\ UNCHANGED <<url, got, todo, queue, documents, fetched>>
    BY <1>10 DEF Insert, Step, locals, history
  <2>2. Indexed \subseteq Indexed'
    BY <2>1 DEF Indexed
  <2> QED
    BY <2>1, <2>2, Writes DEF Holding, Writing
<1>11. ASSUME NEW w \in Workers, Keep(w), pc[w] = "index"
       PROVE  Indexed \subseteq Indexed' /\ url[w] \in Indexed'
  <2>1. got[w] # "none"
    BY <1>11 DEF IInv, GotInv, Holding
  <2> QED
    BY <1>11, <2>1 DEF Keep, Indexed
<1>12. ASSUME NEW w \in Workers, KeepOnly(w) PROVE CrawlInv'
  <2>1. Added(w, "index") /\ Keep(w) /\ UNCHANGED <<queue, fetched>>
    BY <1>12 DEF KeepOnly, history
  <2>2. pc[w] = "index"
    BY <2>1 DEF Added, Step
  <2> QED
    BY <1>11, <2>1, <2>2, LeavesAdding
<1>13. ASSUME NEW w \in Workers, OpenFile(w) PROVE CrawlInv'
  <2>1. /\ pc[w] = "index" /\ pc' = [pc EXCEPT ![w] = "write"] /\ Keep(w)
        /\ UNCHANGED <<url, got, todo, queue, fetched>>
    BY <1>13 DEF OpenFile, Step, locals, history
  <2> QED
    BY <1>11, <2>1, Writes DEF Holding, Writing
<1>14. ASSUME NEW w \in Workers, WriteFile(w) \/ OpenList(w) PROVE CrawlInv'
  <2>1. /\ pc[w] \in {"write", "list"} /\ \E to \in {"list", "line"} : pc' = [pc EXCEPT ![w] = to]
        /\ UNCHANGED <<url, got, todo, queue, documents, fetched>>
    BY <1>14 DEF WriteFile, OpenList, Step, locals, history, memory
  <2>2. Indexed \subseteq Indexed'
    BY <2>1 DEF Indexed
  <2> QED
    BY <2>1, <2>2, Writes DEF Holding, Writing
<1>15. ASSUME NEW w \in Workers, WriteLine(w) PROVE CrawlInv'
  <2>1. pc[w] = "line" /\ UNCHANGED <<pc, url, got, todo, queue, documents, fetched>>
    BY <1>15 DEF WriteLine, locals, history, memory
  <2>2. pc' = [pc EXCEPT ![w] = "line"] /\ Indexed \subseteq Indexed'
    BY <2>1 DEF Indexed
  <2> QED
    BY <2>1, <2>2, Writes DEF Holding, Writing
<1>16. ASSUME NEW w \in Workers, CloseList(w) PROVE CrawlInv'
  <2>1. Added(w, "line") /\ UNCHANGED <<queue, documents, fetched>>
    BY <1>16 DEF CloseList, history
  <2>2. Indexed \subseteq Indexed'
    BY <2>1 DEF Indexed
  <2> QED
    BY <2>1, <2>2, LeavesAdding
<1>17. ASSUME NEW w \in Workers, ScheduleLink(w) PROVE CrawlInv'
  <2>1. /\ pc[w] = "links" /\ queue' = Append(queue, Head(todo[w]))
        /\ pc' = [pc EXCEPT ![w] = IF Len(todo[w]) = 1 THEN "idle" ELSE "links"]
        /\ todo' = [todo EXCEPT ![w] = Tail(@)]
        /\ url' = url \/ url' = [url EXCEPT ![w] = Seed]
        /\ UNCHANGED <<got, documents, fetched>>
    BY <1>17 DEF ScheduleLink, Step, memory, history
  <2>2. todo[w] \in Seq(Urls) /\ todo[w] # <<>>
    BY <2>1 DEF IInv, GotInv
  <2>3. OthersStay(w) /\ pc'[Main] = pc[Main]
    BY <2>1 DEF OthersStay
  <2>4. Indexed \subseteq Indexed'
    BY <2>1 DEF Indexed
  <2>5. ASSUME NEW u \in Urls, Queues(u) PROVE OnItsWay(u)'
    <3>1. PICK i \in DOMAIN queue : queue[i] = u
      BY <2>5 DEF Queues
    <3>2. Head(todo[w]) \in Urls
      BY <2>2
    <3>3. i \in DOMAIN queue' /\ queue'[i] = u
      BY <2>1, <3>1, <3>2
    <3> QED
      BY <3>3 DEF OnItsWay, Queues
  <2>6. ASSUME NEW u \in Urls, Pursues(w, u) PROVE OnItsWay(u)'
    <3>1. PICK i \in DOMAIN todo[w] : todo[w][i] = u
      BY <2>1, <2>6 DEF Pursues, Holding, Writing
    <3>2. Head(todo[w]) \in Urls
      BY <2>2
    <3>3. CASE i = 1
      <4>1. Len(queue) + 1 \in DOMAIN queue' /\ queue'[Len(queue) + 1] = u
        BY <2>1, <2>2, <3>1, <3>2, <3>3
      <4> QED
        BY <4>1 DEF OnItsWay, Queues
    <3>4. CASE i # 1
      <4>1. i - 1 \in DOMAIN Tail(todo[w]) /\ Tail(todo[w])[i - 1] = u /\ Len(todo[w]) # 1
        BY <2>2, <3>1, <3>4, SMTT(30)
      <4>2. pc'[w] = "links" /\ todo'[w] = Tail(todo[w])
        BY <2>1, <4>1
      <4>3. Pursues(w, u)'
        BY <4>1, <4>2 DEF Pursues
      <4> QED
        BY <4>3 DEF OnItsWay
    <3> QED
      BY <3>3, <3>4
  <2> QED
    BY <2>1, <2>3, <2>4, <2>5, <2>6, OneThread
<1> QED
  BY <1>1, <1>2, <1>3, <1>4, <1>5, <1>6, <1>7, <1>8, <1>9, <1>10, <1>12, <1>13, <1>14,
     <1>15, <1>16, <1>17
     DEF Next, MainStep, DownloadWeb, AddDocument

-----------------------------------------------------------------------------
(* The theorems.                                                           *)

\* The program starts with the invariant.
LEMMA InitIInv == Init => IInv
<1> SUFFICES ASSUME Init PROVE IInv
  OBVIOUS
<1> USE SiteAssumption, ThreadsAssumption DEF Init, Quiet, Threads
<1>1. LabelsOK
  BY DEF LabelsOK, WorkerLabels, MainLabels
<1>2. DataOK
  <2>1. /\ documents \in [Urls -> Contents] /\ file \in [Urls -> Contents]
        /\ got \in [Threads -> {"none", "empty", "page"}]
    BY DEF Contents
  <2>2. /\ todo \in [Threads -> Seq(Urls)] /\ queue \in Seq(Urls)
        /\ robots \in [Hosts -> SUBSET SUBSET Urls]
    OBVIOUS
  <2>3. memoryOnly \in BOOLEAN
    OBVIOUS
  <2> QED
    BY <2>1, <2>2, <2>3 DEF DataOK
<1>3. RestInv /\ LockInv /\ GotInv
  BY DEF RestInv, LockInv, GotInv, Holding, Writing
<1>4. StoredInv /\ ListInv
  BY DEF StoredInv, ListInv, Indexed
<1>5. RobotsInv /\ PoliteInv /\ HasurlInv /\ CrawlInv
  BY DEF RobotsInv, PoliteInv, HasurlInv, CrawlInv
<1> QED
  BY <1>1, <1>2, <1>3, <1>4, <1>5 DEF IInv, TypeOK

\* A step keeps the invariant.
LEMMA IInvStep == IInv /\ [Next]_vars => IInv'
<1>1. ASSUME IInv, Next PROVE IInv'
  BY <1>1, LabelsOKStep, DataOKStep, RestInvStep, LockInvStep, GotInvStep, StoredInvStep,
     ListInvStep, RobotsInvStep, PoliteInvStep, HasurlInvStep, CrawlInvStep
     DEF IInv, TypeOK
<1>2. ASSUME IInv, UNCHANGED vars PROVE IInv'
  <2> USE <1>2 DEF IInv, vars, locals, memory, disk, history, bounds
  <2>1. TypeOK'
    BY DEF TypeOK, LabelsOK, DataOK
  <2>2. RestInv' /\ LockInv' /\ GotInv' /\ HasurlInv'
    BY DEF RestInv, LockInv, GotInv, HasurlInv, Indexed
  <2>3. StoredInv' /\ ListInv'
    BY DEF StoredInv, ListInv, Indexed
  <2>4. RobotsInv' /\ PoliteInv'
    BY DEF RobotsInv, PoliteInv, MayFetch
  <2>5. CrawlInv'
    BY DEF CrawlInv, ToBeFound, OnItsWay, Queues, Pursues, Indexed
  <2> QED
    BY <2>1, <2>2, <2>3, <2>4, <2>5
<1> QED
  BY <1>1, <1>2

\* The invariant holds in every state.
LEMMA IInvHolds == Spec => []IInv
  BY InitIInv, IInvStep, PTL DEF Spec

\* Every variable has its type, for any site and any number of threads.
THEOREM TypeCorrect == Spec => []TypeOK
<1>1. IInv => TypeOK
  BY DEF IInv
<1> QED
  BY IInvHolds, <1>1, PTL

\* documents-list names documents that were written, wherever the program is
\* ended; and all that is served, once the crawl is over.
THEOREM ListIsTrueCorrect == Spec => []ListIsTrue
<1>1. ASSUME IInv PROVE ListIsTrue
  <2>1. pc[Main] \in {"done", "serve"} => \A w \in Workers : pc[w] \notin Writing
    BY <1>1 DEF IInv, RestInv, Writing
  <2> QED
    BY <1>1, <2>1 DEF IInv, StoredInv, ListInv, ListIsTrue
<1> QED
  BY IInvHolds, <1>1, PTL

\* When download() returns, the seed and what the fetched pages link to is in
\* the index as far as it may be accessed, and is shown to who asks for it; and
\* nothing was fetched that may not be, but where robots.txt could not be had.
THEOREM CrawlIsCompleteCorrect == Spec => []CrawlIsComplete
<1>1. ASSUME IInv PROVE CrawlIsComplete
  <2>1. SUFFICES ASSUME pc[Main] = "done" PROVE CrawlIsComplete
    BY DEF CrawlIsComplete
  <2>2. queue = <<>> /\ \A w \in Workers : pc[w] = "idle"
    BY <1>1, <2>1 DEF IInv, RestInv
  <2>3. \A u \in Urls : ~Queues(u) /\ \A w \in Workers : ~Pursues(w, u)
    BY <2>2 DEF Queues, Pursues, Holding, Writing
  <2>4. ASSUME NEW u \in Accessible \cap ({Seed} \cup UNION {LinkedFrom(v) : v \in fetched})
        PROVE  u \in Indexed
    <3>1. u \in Urls
      BY SiteAssumption DEF Accessible
    <3>2. ToBeFound(u)
      BY DEF ToBeFound
    <3> QED
      BY <1>1, <2>1, <2>3, <3>1, <3>2 DEF IInv, CrawlInv, OnItsWay
  <2>5. \A u \in Indexed : Decoded[u] = u => Shown("GET", u) # "none"
    BY DEF Shown, serveDocument, Indexed
  <2>6. fetched \subseteq Accessible \cup (impolite \cap Whitelist)
    BY <1>1 DEF IInv, PoliteInv, MayFetch, Accessible
  <2> QED
    BY <2>4, <2>5, <2>6 DEF CrawlIsComplete
<1> QED
  BY IInvHolds, <1>1, PTL
=============================================================================
