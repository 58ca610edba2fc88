------------------------------ MODULE Archive ------------------------------
(***************************************************************************)
(* The crawler of assign4: InternetArchive with its Whitelist and Index.   *)
(* download() hands the seed to the pool and waits; downloadWeb(), in the  *)
(* threads of the pool, schedules itself for each link of a page.  The     *)
(* pool is what FifoExecutor says of it: a queue, and a wait() that does   *)
(* not return while anything is queued or running.  That it returns then   *)
(* is not assumed: it may lose its wakeup (WaitReturns of ThreadPool).     *)
(*                                                                         *)
(* What a lock protects is one step, but for Index::addDocument(): the     *)
(* program may be ended between any two of its writes, and started again,  *)
(* when the constructor of Index loads what is listed on the disk.         *)
(*                                                                         *)
(* hasurl.insert() is called without the lock that hasurl.find() is called *)
(* with.  Of two insertions that race one may be lost, and a find that     *)
(* races may miss its URL: these are choices of Insert and Lookup.  (That  *)
(* the program fails is another outcome, and is its end.)                  *)
(*                                                                         *)
(* A page is a URL with its links.  A robots.txt is the set of URLs it     *)
(* disallows.  URLs have no white space, which documents-list separates    *)
(* them by.  Left out: the log.                                            *)
(***************************************************************************)
EXTENDS Naturals, Sequences, FiniteSets

CONSTANTS Urls, Hosts,
          HostOf,       \* HostOf[u]: the server of u
          Links,        \* Links[u]: the links of page u, as they come
          Decoded,      \* Decoded[u]: u with its escapes (%20 and the like) resolved
          Whitelist,    \* the URLs whose host is on the list
          Disallowed,   \* the URLs the robots.txt of their host disallows
          Seed,         \* --download
          Workers,      \* the threads of the pool
          MaxFailures,  \* bound: downloads that fail, robots.txt included
          MaxLost,      \* bound: insertions and finds that lose a race
          MaxCrashes    \* bound: times the program is ended

ASSUME SiteAssumption ==
    /\ HostOf \in [Urls -> Hosts] /\ Links \in [Urls -> Seq(Urls)]
    /\ Decoded \in [Urls -> Urls]
    /\ Whitelist \subseteq Urls /\ Disallowed \subseteq Urls /\ Seed \in Urls
    /\ MaxFailures \in Nat /\ MaxLost \in Nat /\ MaxCrashes \in Nat

VARIABLES
    pc,           \* pc[t]: where thread t is
    url,          \* url[t]: the argument of its downloadWeb()
    got,          \* got[t]: its document: "none", "empty" or "page"
    todo,         \* todo[t]: the links it has not scheduled yet
    memoryOnly,   \* --mem-only
    queue,        \* thunks of the pool
    robots,       \* disallowed: robots[h] holds the robots.txt of h, or nothing
    hasurl,
    indexLock,
    documents,    \* documents[u]: the contents of u in memory
    file,         \* file[u]: the contents of its file, "part" while it is written
    list,         \* the URLs in documents-list
    fetched,      \* history: pages this run has downloaded
    stored,       \* history: URLs whose file was written to its end
    impolite,     \* history: URLs whose robots.txt was once taken for missing
    failures, lost, crashes

memory == <<memoryOnly, hasurl, indexLock, documents>>
disk == <<file, list, stored>>
history == <<fetched, impolite>>
bounds == <<failures, lost, crashes>>
locals == <<got, todo>>
vars == <<pc, url, locals, queue, robots, memory, disk, history, bounds>>

Main == "main"
Nobody == "nobody"
Threads == Workers \cup {Main}
ASSUME ThreadsAssumption == Main \notin Workers /\ Nobody \notin Workers

Quiet(main) == [t \in Threads |-> IF t = Main THEN main ELSE "idle"]
Indexed == {u \in Urls : documents[u] # "none"}

Init ==
    /\ pc = Quiet("start")
    /\ url = [t \in Threads |-> Seed] /\ got = [t \in Threads |-> "none"]
    /\ todo = [t \in Threads |-> <<>>]
    /\ queue = <<>> /\ robots = [h \in Hosts |-> {}]
    /\ hasurl = {} /\ indexLock = Nobody
    /\ documents = [u \in Urls |-> "none"] /\ memoryOnly \in BOOLEAN
    /\ file = [u \in Urls |-> "none"] /\ list = {} /\ stored = {}
    /\ fetched = {} /\ impolite = {}
    /\ failures = 0 /\ lost = 0 /\ crashes = 0

\* A thread goes from one label to another.  When it returns to the pool, what
\* its document was is gone.
Step(t, from, to) ==
    /\ pc[t] = from /\ pc' = [pc EXCEPT ![t] = to]
    /\ url' = IF to = "idle" THEN [url EXCEPT ![t] = Seed] ELSE url

-----------------------------------------------------------------------------
(* canAccess(), in download() and in downloadWeb().                        *)

\* Where a thread goes with the answer, given what robots.txt disallows.
Refused(t) == IF t = Main THEN "done" ELSE "idle"
Answer(t, disallowed) == IF url[t] \in disallowed THEN Refused(t) ELSE "lookup"

\* With --download, and without.
Download == Step(Main, "start", "access")
            /\ UNCHANGED <<locals, queue, robots, memory, disk, history, bounds>>
ServeOnly == Step(Main, "start", "serve")
             /\ UNCHANGED <<locals, queue, robots, memory, disk, history, bounds>>

Access(t) ==
    LET known == robots[HostOf[url[t]]]
    IN /\ Step(t, "access", IF url[t] \notin Whitelist THEN Refused(t)
                            ELSE IF known = {} THEN "robots" ELSE Answer(t, UNION known))
       /\ UNCHANGED <<locals, queue, robots, memory, disk, history, bounds>>

\* Mutant: the thread goes by what is known now, which is nothing.
FetchRobotsLater(t) ==
    LET h == HostOf[url[t]]
        all == {u \in Disallowed : HostOf[u] = h}
    IN /\ Step(t, "robots", "lookup")
       /\ robots' = [robots EXCEPT ![h] = IF @ = {} THEN {all} ELSE @]
       /\ UNCHANGED <<locals, queue, memory, disk, history, bounds>>

\* downloadRobotsTxt(), which disallows nothing when it fails.  The thread goes
\* by what it has downloaded; what others have put into the map stays there.
FetchRobots(t) ==
    LET h == HostOf[url[t]]
        all == {u \in Disallowed : HostOf[u] = h}
    IN \E found \in {all, {}} :
         /\ Step(t, "robots", Answer(t, found))
         /\ robots' = [robots EXCEPT ![h] = IF @ = {} THEN {found} ELSE @]
         /\ IF found = all
            THEN UNCHANGED <<impolite, failures>>
            ELSE /\ failures < MaxFailures /\ failures' = failures + 1
                 /\ impolite' = impolite \cup {u \in Urls : HostOf[u] = h}
         /\ UNCHANGED <<locals, queue, memory, disk, fetched, lost, crashes>>

-----------------------------------------------------------------------------
(* The main thread.                                                        *)

ScheduleSeed ==
    /\ Step(Main, "lookup", "wait")
    /\ queue' = Append(queue, Seed)
    /\ UNCHANGED <<locals, robots, memory, disk, history, bounds>>

\* Mutant: what is still running does not count.
WaitReturnsEarly ==
    /\ queue = <<>>
    /\ Step(Main, "wait", "done")
    /\ UNCHANGED <<locals, queue, robots, memory, disk, history, bounds>>

\* pool.wait().  Nothing says that this ever comes: the wakeup may be lost.
WaitReturns ==
    /\ queue = <<>> /\ \A w \in Workers : pc[w] = "idle"
    /\ Step(Main, "wait", "done")
    /\ UNCHANGED <<locals, queue, robots, memory, disk, history, bounds>>

-----------------------------------------------------------------------------
(* downloadWeb(), in a thread of the pool.                                 *)

Take(w) ==
    /\ queue # <<>>
    /\ pc[w] = "idle" /\ pc' = [pc EXCEPT ![w] = "access"]
    /\ url' = [url EXCEPT ![w] = Head(queue)]
    /\ queue' = Tail(queue)
    /\ UNCHANGED <<got, todo, robots, memory, disk, history, bounds>>

Races(w) == \E v \in Workers \ {w} : pc[v] = "insert"

\* Under docLock, which is released before the page is downloaded.
Lookup(w) ==
    /\ \/ Step(w, "lookup", IF url[w] \in hasurl THEN "idle" ELSE "download")
          /\ UNCHANGED lost
       \/ /\ url[w] \in hasurl /\ Races(w) /\ lost < MaxLost
          /\ Step(w, "lookup", "download")
          /\ lost' = lost + 1
    /\ UNCHANGED <<locals, queue, robots, memory, disk, history, failures, crashes>>

\* Document::download().  A document whose download has failed is empty, and is
\* treated like the others.
DownloadPage(w) ==
    /\ Step(w, "download", "insert")
    /\ \/ /\ got' = [got EXCEPT ![w] = "page"]
          /\ fetched' = fetched \cup {url[w]}
          /\ UNCHANGED failures
       \/ /\ failures < MaxFailures /\ failures' = failures + 1
          /\ got' = [got EXCEPT ![w] = "empty"]
          /\ UNCHANGED fetched
    /\ UNCHANGED <<todo, queue, robots, memory, disk, impolite, lost, crashes>>

Insert(w) ==
    /\ Step(w, "insert", "index")
    /\ \/ hasurl' = hasurl \cup {url[w]} /\ UNCHANGED lost
       \/ Races(w) /\ lost < MaxLost /\ lost' = lost + 1 /\ UNCHANGED hasurl
    /\ UNCHANGED <<locals, queue, robots, memoryOnly, indexLock, documents, disk,
                   history, failures, crashes>>

-----------------------------------------------------------------------------
(* Index::addDocument(), under indexLock.                                  *)

\* The thread leaves addDocument(), and goes on to the links of its page.
Added(w, from) ==
    /\ Step(w, from, IF got[w] = "page" /\ Links[url[w]] # <<>> THEN "links" ELSE "idle")
    /\ todo' = [todo EXCEPT ![w] = IF got[w] = "page" THEN Links[url[w]] ELSE <<>>]
    /\ got' = [got EXCEPT ![w] = "none"]

\* The map keeps the document it has.
Keep(w) == documents' = [documents EXCEPT ![url[w]] = IF @ = "none" THEN got[w] ELSE @]

KeepOnly(w) ==
    /\ memoryOnly /\ indexLock = Nobody
    /\ Keep(w) /\ Added(w, "index")
    /\ UNCHANGED <<queue, robots, memoryOnly, hasurl, indexLock, disk, history, bounds>>

\* Mutant: without the lock.
OpenFileUnlocked(w) ==
    /\ ~memoryOnly
    /\ Step(w, "index", "write")
    /\ Keep(w)
    /\ file' = [file EXCEPT ![url[w]] = "part"]
    /\ UNCHANGED <<locals, queue, robots, memoryOnly, hasurl, indexLock, list, stored,
                   history, bounds>>

\* The file is truncated.
OpenFile(w) ==
    /\ ~memoryOnly /\ indexLock = Nobody /\ indexLock' = w
    /\ Step(w, "index", "write")
    /\ Keep(w)
    /\ file' = [file EXCEPT ![url[w]] = "part"]
    /\ UNCHANGED <<locals, queue, robots, memoryOnly, hasurl, list, stored, history, bounds>>

WriteFile(w) ==
    /\ Step(w, "write", "list")
    /\ file' = [file EXCEPT ![url[w]] = got[w]]
    /\ stored' = stored \cup {url[w]}
    /\ UNCHANGED <<locals, queue, robots, memory, list, history, bounds>>

\* dumpMetadata(): the list is truncated, and written again line by line.
OpenList(w) ==
    /\ Step(w, "list", "line")
    /\ list' = {}
    /\ UNCHANGED <<locals, queue, robots, memory, file, stored, history, bounds>>

WriteLine(w) ==
    /\ pc[w] = "line"
    /\ \E u \in Indexed \ list : list' = list \cup {u}
    /\ UNCHANGED <<pc, url, locals, queue, robots, memory, file, stored, history, bounds>>

\* Mutant: only the new document is listed.
CloseListOwn(w) ==
    /\ url[w] \in list
    /\ Added(w, "line")
    /\ indexLock' = Nobody
    /\ UNCHANGED <<queue, robots, memoryOnly, hasurl, documents, disk, history, bounds>>

\* Mutant: the lock is kept.
CloseListLocked(w) ==
    /\ list = Indexed
    /\ Added(w, "line")
    /\ UNCHANGED <<queue, robots, memory, disk, history, bounds>>

CloseList(w) ==
    /\ list = Indexed
    /\ Added(w, "line")
    /\ indexLock' = Nobody
    /\ UNCHANGED <<queue, robots, memoryOnly, hasurl, documents, disk, history, bounds>>

ScheduleLink(w) ==
    /\ Step(w, "links", IF Len(todo[w]) = 1 THEN "idle" ELSE "links")
    /\ queue' = Append(queue, Head(todo[w]))
    /\ todo' = [todo EXCEPT ![w] = Tail(@)]
    /\ UNCHANGED <<got, robots, memory, disk, history, bounds>>

-----------------------------------------------------------------------------
(* The archive server, which reads the index and no more.                  *)

\* Without --no-serve.
Serve == Step(Main, "done", "serve")
         /\ UNCHANGED <<locals, queue, robots, memory, disk, history, bounds>>

\* Index::operator(): the document shown for a link, which patchLinks() has
\* turned into a path on this server, or "none".
serveDocument(u) == documents[u]
Shown(method, u) == IF method \in {"HEAD", "GET"} THEN serveDocument(Decoded[u]) ELSE "none"

-----------------------------------------------------------------------------
\* The program ends, while it crawls or serves; the disk stays as it is.
Crash ==
    /\ pc[Main] # "down" /\ crashes < MaxCrashes
    /\ crashes' = crashes + 1
    /\ pc' = Quiet("down")
    /\ url' = [t \in Threads |-> Seed] /\ got' = [t \in Threads |-> "none"]
    /\ todo' = [t \in Threads |-> <<>>] /\ queue' = <<>>
    /\ robots' = [h \in Hosts |-> {}] /\ hasurl' = {} /\ indexLock' = Nobody
    /\ documents' = [u \in Urls |-> "none"] /\ fetched' = {} /\ impolite' = {}
    /\ memoryOnly' = FALSE
    /\ UNCHANGED <<disk, failures, lost>>

\* Index::Index(): what is listed is loaded, and nothing is known of hasurl.
Restart ==
    /\ Step(Main, "down", "start")
    /\ memoryOnly' \in BOOLEAN
    /\ documents' = [u \in Urls |-> IF u \in list /\ ~memoryOnly' THEN file[u] ELSE "none"]
    /\ UNCHANGED <<locals, queue, robots, hasurl, indexLock, disk, history, bounds>>

AddDocument(w) == KeepOnly(w) \/ OpenFile(w) \/ WriteFile(w) \/ OpenList(w) \/ WriteLine(w) \/ CloseList(w)
DownloadWeb(w) == \/ Take(w) \/ Access(w) \/ FetchRobots(w) \/ Lookup(w)
                  \/ DownloadPage(w) \/ Insert(w) \/ AddDocument(w) \/ ScheduleLink(w)
MainStep == Download \/ ServeOnly \/ Access(Main) \/ FetchRobots(Main) \/ ScheduleSeed

Next == MainStep \/ WaitReturns \/ Serve \/ (\E w \in Workers : DownloadWeb(w)) \/ Crash \/ Restart
Spec == Init /\ [][Next]_vars

\* The threads run, and downloads end (they have a timeout); wait() may sleep on.
FairSpec == Spec /\ WF_vars(MainStep) /\ \A w \in Workers : WF_vars(DownloadWeb(w))

-----------------------------------------------------------------------------
(* Properties.                                                             *)

\* When download() says that all downloads are complete, the server has all that
\* was to be found: the seed and whatever the pages that could be downloaded
\* link to, as far as it may be accessed and its URL has no escape (which is
\* indexed with it, and looked for without); and no page was fetched that may
\* not be, unless its robots.txt could not be had.
Accessible == Whitelist \ Disallowed
LinkedFrom(u) == {Links[u][i] : i \in DOMAIN Links[u]}
CrawlIsComplete ==
    pc[Main] = "done" =>
        /\ \A u \in Accessible \cap ({Seed} \cup UNION {LinkedFrom(v) : v \in fetched}) :
              /\ u \in Indexed
              /\ Decoded[u] = u => Shown("GET", u) # "none"
        /\ fetched \subseteq Accessible \cup (impolite \cap Whitelist)

\* documents-list can be trusted.  Wherever the program is ended, what it names
\* had been written: no document is listed before its file was written to the
\* end at least once.  And what is served is what the next run will load: no
\* document is lost because two threads have written the list.  (That a file can
\* be opened and written is assumed; addDocument() does not look.)
ListIsTrue ==
    /\ list \subseteq stored
    /\ pc[Main] \in {"done", "serve"} /\ ~memoryOnly => list = Indexed

\* The crawl of a site with cycles ends, although a page may be downloaded more
\* than once: the queue runs empty and the threads of the pool go back to it.
\* (download() then says so, unless its wait() has lost the wakeup.)
Exhausted == queue = <<>> /\ \A w \in Workers : pc[w] = "idle"
CrawlEnds ==
    (pc[Main] = "access") ~>
        (pc[Main] \in {"done", "down"} \/ (pc[Main] = "wait" /\ Exhausted))
=============================================================================
