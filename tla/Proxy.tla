------------------------------- MODULE Proxy -------------------------------
(***************************************************************************)
(* The caching HTTP proxy of assign5: HTTPRequestHandler, run by the       *)
(* threads of the scheduler's pool, the HTTPCache it shares with the next  *)
(* run of the proxy, and the locks that keep the requests apart.  cache.cc *)
(* is the same in assign7.                                                 *)
(*                                                                         *)
(* The cache is a directory per request hash, which holds one file whose   *)
(* name says when it was created and when it expires.  A call that changes *)
(* the directory is a step, since the proxy may end between any two; calls *)
(* that only look are one step with the first that does not.               *)
(*                                                                         *)
(* serviceRequest is declared throw(): an exception that leaves it ends    *)
(* the proxy, with every request in it.  So does ^C.                       *)
(*                                                                         *)
(* Time is counted in seconds.  Hashes do not collide: requests with the   *)
(* same hash are the same.  What shouldCache() is asked before the request *)
(* is forwarded is left out: the response has no header yet, and the       *)
(* answer is no.                                                           *)
(***************************************************************************)
EXTENDS ProxySetup, FiniteSets

CONSTANTS Requests,     \* what the threads of the pool serve, one request each
          MaxHash,      \* bound: hashes of requests are 0..MaxHash
          NumLocks,     \* 997, the length of cacheLock
          TTLs,         \* max-age of the responses; 0 for one not to be cached
          MaxClock,     \* bound: seconds
          MaxRuns       \* bound: times the proxy is started

Hashes == 0..MaxHash

ASSUME CacheAssumption ==
    /\ MaxHash \in Nat /\ NumLocks \in Nat \ {0} /\ TTLs \subseteq Nat
    /\ MaxClock \in 0..LongMax /\ MaxRuns \in Nat

VARIABLES
    up,           \* the proxy is running
    maxAge,
    clock, runs,
    pc,           \* pc[r]: where the thread that serves r is
    method, hash, \* of the request
    ttl,          \* ttl[r]: getTTL() of the origin server's response
    created,      \* created[r]: what getCurrentTime() has returned
    lock,         \* lock[i]: the request that holds cacheLock[i]
    dir,          \* dir[h]: the directory of hash h exists
    files,        \* files[h]: the files in it
    replies       \* replies[r]: how many responses the client was sent

request == <<method, hash, ttl, created>>
disk == <<dir, files>>
config == <<up, maxAge, runs>>
vars == <<config, clock, pc, request, lock, disk, replies>>

Free == "free"
ASSUME FreeAssumption == Free \notin Requests

Methods == {"GET", "POST", "none"}

\* A file: the times of its name, whether it was written to its end, and, for
\* the properties, when it was opened and the response's ttl.
File == [created : Nat, expires : Nat, full : BOOLEAN, opened : Nat, ttl : Nat]

\* What the threads and locks are when no request is being served.
Quiet == [pc |-> [r \in Requests |-> "idle"], method |-> [r \in Requests |-> "none"],
          zero |-> [r \in Requests |-> 0], lock |-> [i \in 0..(NumLocks - 1) |-> Free]]

\* The proxy has not been started yet.
Init ==
    /\ up = FALSE /\ maxAge = -1
    /\ clock = 0 /\ runs = 0
    /\ pc = Quiet.pc /\ method = Quiet.method /\ hash = Quiet.zero
    /\ ttl = Quiet.zero /\ created = Quiet.zero /\ replies = Quiet.zero
    /\ lock = Quiet.lock
    /\ dir = [h \in Hashes |-> FALSE] /\ files = [h \in Hashes |-> {}]

LockOf(r) == hash[r] % NumLocks      \* getHashcode()

\* The thread of request r goes from one label to another.
Step(r, from, to) == pc[r] = from /\ pc' = [pc EXCEPT ![r] = to]

Acquire(r) == lock[LockOf(r)] = Free /\ lock' = [lock EXCEPT ![LockOf(r)] = r]
Release(r) == lock' = [lock EXCEPT ![LockOf(r)] = Free]
Sends(r) == replies' = [replies EXCEPT ![r] = @ + 1]

-----------------------------------------------------------------------------
(* serviceRequest(), until the cache has been asked.                       *)

\* A request whose first line cannot be read is served like the others, with
\* no method and no server.
Accept(r, m, h) ==
    /\ up /\ Step(r, "idle", "lock")
    /\ method' = [method EXCEPT ![r] = m] /\ hash' = [hash EXCEPT ![r] = h]
    /\ UNCHANGED <<config, clock, ttl, created, lock, disk, replies>>

\* A server on the blacklist.
Forbid(r) ==
    /\ up /\ Step(r, "idle", "close")
    /\ Sends(r)
    /\ UNCHANGED <<config, clock, request, lock, disk>>

\* Mutant: the lock is taken, but not waited for.
LockForLookupAnyway(r) ==
    /\ Step(r, "lock", "lookup")
    /\ lock' = [lock EXCEPT ![LockOf(r)] = r]
    /\ UNCHANGED <<config, clock, request, disk, replies>>

LockForLookup(r) ==
    /\ Step(r, "lock", "lookup")
    /\ Acquire(r)
    /\ UNCHANGED <<config, clock, request, disk, replies>>

\* Mutant: only the time in the name counts.
ValidAsNamed(f) == clock <= f.expires

\* The sum of two longs as the build has it, which wraps around.
Sum(a, b) == IF a + b <= LongMax THEN a + b ELSE a + b - 2 * (LongMax + 1)

\* cachedEntryIsValid()
Valid(f) ==
    clock <= IF maxAge > 0 THEN Lesser(Sum(f.created, maxAge), f.expires)
                           ELSE f.expires

\* cacheEntryExists() and getRequestHashCacheEntryName(): what there is to find
\* under a hash.
Entries(h) == IF dir[h] THEN files[h] ELSE {}

\* containsCacheEntry(), as far as it only looks; of several files readdir may
\* list any first.
Lookup(r) ==
    /\ IF maxAge = 0 \/ method[r] # "GET" \/ Entries(hash[r]) = {}
       THEN Step(r, "lookup", "unlock")
       ELSE \E f \in Entries(hash[r]) :
                Step(r, "lookup", IF Valid(f) THEN "hit" ELSE "remove")
    /\ UNCHANGED <<config, clock, request, lock, disk, replies>>

\* The expired file is removed, and then its directory.
RemoveFile(r) ==
    /\ Step(r, "remove", "rmdir")
    /\ \E f \in files[hash[r]] : files' = [files EXCEPT ![hash[r]] = @ \ {f}]
    /\ UNCHANGED <<config, clock, request, lock, dir, replies>>

RemoveDirectory(r) ==
    /\ files[hash[r]] = {} /\ dir[hash[r]]
    /\ Step(r, "rmdir", "unlock")
    /\ dir' = [dir EXCEPT ![hash[r]] = FALSE]
    /\ UNCHANGED <<config, clock, request, lock, files, replies>>

\* Mutant: the thread returns when it has answered, and keeps the lock.
CacheHTTPReturns(r) ==
    /\ Step(r, "hit", "close")
    /\ Sends(r)
    /\ UNCHANGED <<config, clock, request, lock, disk>>

\* cacheHTTP() sends a response of its own, which is empty.
CacheHTTP(r) ==
    /\ Step(r, "hit", "unlock")
    /\ Sends(r)
    /\ UNCHANGED <<config, clock, request, lock, disk>>

UnlockAfterLookup(r) ==
    /\ Step(r, "unlock", "connect")
    /\ Release(r)
    /\ UNCHANGED <<config, clock, request, disk, replies>>

-----------------------------------------------------------------------------
(* forwardRequestToProxy(), after a hit as well.                           *)

Connect(r) ==
    /\ method[r] # "none"
    /\ Step(r, "connect", "receive")
    /\ UNCHANGED <<config, clock, request, lock, disk, replies>>

\* What is forwarded is the request as it was before its payload was read: a
\* POST goes without, and its hash is another.
Receive(r) ==
    /\ Step(r, "receive", "acquire")
    /\ \E t \in TTLs : ttl' = [ttl EXCEPT ![r] = t]
    /\ \E h \in Hashes : /\ method[r] # "POST" => h = hash[r]
                        /\ hash' = [hash EXCEPT ![r] = h]
    /\ UNCHANGED <<config, clock, method, created, lock, disk, replies>>

\* Mutant: the lock is taken, but not waited for.
LockForStoreAnyway(r) ==
    /\ Step(r, "acquire", "decide")
    /\ lock' = [lock EXCEPT ![LockOf(r)] = r]
    /\ UNCHANGED <<config, clock, request, disk, replies>>

LockForStore(r) ==
    /\ Step(r, "acquire", "decide")
    /\ Acquire(r)
    /\ UNCHANGED <<config, clock, request, disk, replies>>

\* shouldCache(), permitsCaching()
ShouldCache(r) == maxAge # 0 /\ method[r] = "GET" /\ ttl[r] > 0

Decide(r) ==
    /\ Step(r, "decide", IF ShouldCache(r) THEN "ensure" ELSE "release")
    /\ UNCHANGED <<config, clock, request, lock, disk, replies>>

\* ensureDirectoryExists(..., empty = true)
EnsureDirectory(r) ==
    /\ Step(r, "ensure", "empty")
    /\ dir' = [dir EXCEPT ![hash[r]] = TRUE]
    /\ UNCHANGED <<config, clock, request, lock, files, replies>>

EmptyDirectory(r) ==
    /\ Step(r, "empty", "stamp")
    /\ files' = [files EXCEPT ![hash[r]] = {}]
    /\ UNCHANGED <<config, clock, request, lock, dir, replies>>

\* getCurrentTime(); the clock is read again for the time of expiration.
Stamp(r) ==
    /\ Step(r, "stamp", "open")
    /\ created' = [created EXCEPT ![r] = clock]
    /\ UNCHANGED <<config, clock, method, hash, ttl, lock, disk, replies>>

\* getExpirationTime()
ExpirationTime(t) == clock + (IF maxAge >= 0 THEN Lesser(maxAge, t) ELSE t)

NewFile(r) == [created |-> created[r], expires |-> ExpirationTime(ttl[r]),
               full |-> FALSE, opened |-> clock, ttl |-> ttl[r]]

OpenFile(r) ==
    /\ Step(r, "open", "write")
    /\ files' = [files EXCEPT ![hash[r]] = @ \cup {NewFile(r)}]
    /\ UNCHANGED <<config, clock, request, lock, dir, replies>>

\* The file that was opened is written, and flushed; nobody looks whether that
\* went well, and here it does.
WriteFile(r) ==
    /\ Step(r, "write", "release")
    /\ files' = [files EXCEPT ![hash[r]] = 
           {IF f.created = created[r] THEN [f EXCEPT !.full = TRUE] ELSE f : f \in @}]
    /\ UNCHANGED <<config, clock, request, lock, dir, replies>>

\* HTTPCacheAccessException is caught, and the response not cached.
StoreFails(r) ==
    /\ Step(r, "empty", "release") \/ Step(r, "open", "release")
    /\ UNCHANGED <<config, clock, request, lock, disk, replies>>

UnlockAfterStore(r) ==
    /\ Step(r, "release", "reply")
    /\ Release(r)
    /\ UNCHANGED <<config, clock, request, disk, replies>>

Reply(r) ==
    /\ Step(r, "reply", "close")
    /\ Sends(r)
    /\ UNCHANGED <<config, clock, request, lock, disk>>

\* The thread has returned, and its locals are gone.
Return(r) ==
    /\ Step(r, "close", "idle")
    /\ method' = [method EXCEPT ![r] = "none"] /\ hash' = [hash EXCEPT ![r] = 0]
    /\ ttl' = [ttl EXCEPT ![r] = 0] /\ created' = [created EXCEPT ![r] = 0]
    /\ replies' = [replies EXCEPT ![r] = 0]
    /\ UNCHANGED <<config, clock, lock, disk>>

-----------------------------------------------------------------------------
(* The end of the proxy, and its next run.                                 *)

Dies ==
    /\ up' = FALSE
    /\ pc' = Quiet.pc /\ method' = Quiet.method /\ hash' = Quiet.zero
    /\ ttl' = Quiet.zero /\ created' = Quiet.zero /\ replies' = Quiet.zero
    /\ lock' = Quiet.lock
    /\ UNCHANGED <<maxAge, runs, clock, disk>>

\* An exception that serviceRequest does not catch: the origin server cannot be
\* reached, the cache directory not be read, cleared or made.
Throws(r) ==
    /\ pc[r] \in {"connect", "lookup", "remove", "rmdir", "ensure", "empty"}
    /\ Dies

KillProxyServer == up /\ Dies

\* The socket may not be had, or the port be taken.
Listens(line) == /\ WellFormed(line)
                 /\ up' = TRUE /\ runs' = runs + 1 /\ maxAge' = MaxAgeOf(line)
Refuses == UNCHANGED <<up, runs, maxAge>>

\* clear() goes through the directories, and may fail before the last of them.
Clears == dir' = [h \in Hashes |-> FALSE] /\ files' = [h \in Hashes |-> {}]
ClearFails ==
    \E left, emptied \in SUBSET {h \in Hashes : dir[h]} :
        /\ left # {} /\ emptied \subseteq left
        /\ dir' = [h \in Hashes |-> h \in left]
        /\ files' = [h \in Hashes |-> IF h \in left \ emptied THEN files[h] ELSE {}]

\* The constructor.  What --clear-cache has removed is gone, whatever comes of
\* the options behind it and of the socket.
Launch(line) ==
    /\ ~up /\ runs < MaxRuns
    /\ \/ /\ IF Given(line, "clear-cache") = {} THEN UNCHANGED disk ELSE Clears
          /\ Listens(line) \/ Refuses
       \/ Given(line, "clear-cache") # {} /\ ClearFails /\ Refuses
    /\ UNCHANGED <<clock, pc, request, lock, replies>>

Tick ==
    /\ clock < MaxClock
    /\ clock' = clock + 1
    /\ UNCHANGED <<config, pc, request, lock, disk, replies>>

-----------------------------------------------------------------------------
ContainsCacheEntry(r) == Lookup(r) \/ RemoveFile(r) \/ RemoveDirectory(r)
CacheEntry(r) == \/ EnsureDirectory(r) \/ EmptyDirectory(r) \/ Stamp(r)
                 \/ OpenFile(r) \/ WriteFile(r) \/ StoreFails(r)
ForwardRequestToProxy(r) == \/ Connect(r) \/ Receive(r) \/ LockForStore(r)
                            \/ Decide(r) \/ CacheEntry(r) \/ UnlockAfterStore(r)
                            \/ Reply(r)
ServiceRequest(r) == \/ LockForLookup(r) \/ ContainsCacheEntry(r) \/ CacheHTTP(r)
                     \/ UnlockAfterLookup(r) \/ ForwardRequestToProxy(r)
                     \/ Return(r) \/ Throws(r)
Arrives(r) == Forbid(r) \/ \E m \in Methods, h \in Hashes : Accept(r, m, h)

Next == \/ \E r \in Requests : ServiceRequest(r) \/ Arrives(r)
        \/ KillProxyServer
        \/ \E line \in CommandLines : Launch(line)
        \/ Tick

Spec == Init /\ [][Next]_vars

\* The threads of the pool run, and origin servers answer or hang up.
FairSpec == Spec /\ \A r \in Requests : WF_vars(ServiceRequest(r))

-----------------------------------------------------------------------------
(* Properties.                                                             *)

\* "Each hashcode directory contains a single file storing the full HTTPResponse
\* that was cached" (cache.cc): of two files readdir may list the older one, and
\* the newer would never be found.  One that can be looked up is whole, whatever
\* requests are under way, until the proxy has been ended once.
OneWholeFile ==
    \A h \in Hashes :
        /\ Cardinality(files[h]) <= 1
        /\ up /\ runs = 1 /\ lock[h % NumLocks] = Free => \A f \in files[h] : f.full

\* A lookup that says yes has found a response that is neither older than its
\* own max-age nor than the --max-age of this run of the proxy, whichever run
\* it was that stored it, with whichever --max-age.
HitsAreFresh ==
    [][\A r \in Requests : pc[r] = "lookup" /\ pc'[r] = "hit" =>
          \E f \in files[hash[r]] :
              /\ clock - f.opened <= f.ttl
              /\ maxAge > 0 => clock - f.opened <= maxAge]_vars

\* Between two of its steps in a directory a request finds it as it left it:
\* none removes, replaces or adds a file that another has just looked at, so
\* that no remove or rmdir fails and takes the proxy down.
DirectoryStaysPut ==
    \A r \in Requests :
        LET F == files[hash[r]]
        IN /\ pc[r] = "remove" => \E f \in F : ~Valid(f)
           /\ pc[r] = "hit" => F # {}
           /\ pc[r] = "rmdir" => dir[hash[r]] /\ F = {}
           /\ pc[r] \in {"stamp", "open"} => dir[hash[r]] /\ F = {}
           /\ pc[r] = "write" => {f.created : f \in F} = {created[r]}

\* When clients leave off, each request that was taken on is answered and over,
\* unless the proxy ends: no lock is kept, and no two requests wait for each
\* other.  (The locks are not fair: while requests keep coming they may overtake
\* one for ever.)
ClientsLeaveOff == <>[][\A r \in Requests : pc[r] = "idle" => pc'[r] = "idle"]_vars
RequestsEnd ==
    ClientsLeaveOff => \A r \in Requests : (pc[r] # "idle") ~> (~up \/ (pc[r] = "close" /\ replies[r] # 0))
=============================================================================
