------------------------------ MODULE ProxyProofs ------------------------------
(***************************************************************************)
(* Proofs about Proxy for any requests, hashes, number of locks, ages and  *)
(* command lines.                                                          *)
(*                                                                         *)
(* The argument.  A request is in a directory of the cache only while it   *)
(* holds the lock of its hash (LockInv), so whatever it has found there    *)
(* stays so until it leaves (DirectoryInv); between two runs of the proxy  *)
(* nobody is in a directory (UpInv), so that any directory may be left as  *)
(* it is, with a file that was not written to its end, or none.  A file    *)
(* enters a directory that is empty, so there is never a second            *)
(* (SingleInv), and its name tells its age truly (FileInv).                *)
(***************************************************************************)
EXTENDS Proxy, FiniteSetTheorems, WellFoundedInduction, TLAPS

Locks == 0..(NumLocks - 1)

\* The labels at which a request holds the lock of its hash.
Holding == {"lookup", "remove", "rmdir", "hit", "unlock",
            "decide", "ensure", "empty", "stamp", "open", "write", "release"}
Labels == Holding \cup {"idle", "lock", "connect", "receive", "acquire", "reply", "close"}

TypeOK ==
    /\ up \in BOOLEAN /\ maxAge \in Int /\ clock \in Nat /\ runs \in Nat
    /\ pc \in [Requests -> Labels] /\ method \in [Requests -> Methods]
    /\ hash \in [Requests -> Hashes]
    /\ ttl \in [Requests -> Nat] /\ created \in [Requests -> Nat]
    /\ lock \in [Locks -> Requests \cup {Free}]
    /\ dir \in [Hashes -> BOOLEAN] /\ files \in [Hashes -> SUBSET File]
    /\ replies \in [Requests -> Nat]

LockInv == \A r \in Requests : pc[r] \in Holding => lock[LockOf(r)] = r

\* No request is under way when the proxy is not, and none has been before its
\* first run.
UpInv == /\ ~up => \A r \in Requests : pc[r] = "idle"
         /\ runs = 0 => ~up

SingleInv == \A h \in Hashes : \A f, g \in files[h] : f = g

\* What a request that holds the lock knows of the directory.
Knows(r) ==
    LET F == files[hash[r]]
    IN /\ pc[r] = "remove" => \E f \in F : ~Valid(f)
       /\ pc[r] = "hit" => F # {}
       /\ pc[r] = "empty" => dir[hash[r]]
       /\ pc[r] \in {"rmdir", "stamp", "open"} => dir[hash[r]] /\ F = {}
       /\ pc[r] = "write" => F # {} /\ \A f \in F : f.created = created[r]

DirectoryInv == /\ \A h \in Hashes : files[h] # {} => dir[h]
                /\ \A r \in Requests : Knows(r)

\* The name of a file does not promise more than the response did.
FileInv ==
    /\ \A h \in Hashes : \A f \in files[h] :
          f.created <= f.opened /\ f.expires <= f.opened + f.ttl
    /\ \A r \in Requests : pc[r] = "open" => created[r] <= clock

\* A file that is not whole has somebody writing it, or the proxy has ended.
WholeInv ==
    /\ runs = 0 => \A h \in Hashes : files[h] = {}
    /\ up /\ runs = 1 =>
          \A h \in Hashes : \A f \in files[h] :
              f.full \/ \E r \in Requests : pc[r] = "write" /\ hash[r] = h

IInv == /\ TypeOK /\ LockInv /\ UpInv /\ SingleInv /\ DirectoryInv /\ FileInv
        /\ WholeInv

-----------------------------------------------------------------------------
(* The command line.                                                       *)

\* A set of natural numbers has a least element.
LEMMA Least ==
    ASSUME NEW T, T \subseteq Nat, T # {}
    PROVE  \E x \in T : \A y \in T : x <= y
<1>1. OpToRel(<, Nat) = {ss \in Nat \X Nat : ss[1] < ss[2]}
  BY DEF OpToRel
<1>2. \E x \in T : \A y \in T : ~(<<y, x>> \in OpToRel(<, Nat))
  BY NatLessThanWellFounded, WFMin
<1>3. PICK x \in T : \A y \in T : ~(<<y, x>> \in {ss \in Nat \X Nat : ss[1] < ss[2]})
  BY <1>1, <1>2, Zenon
<1>4. ASSUME NEW y \in T, y < x PROVE FALSE
  <2>1. <<y, x>> \in Nat \X Nat /\ <<y, x>>[1] = y /\ <<y, x>>[2] = x
    OBVIOUS
  <2> QED
    BY <1>3, <1>4, <2>1
<1> QED
  BY <1>3, <1>4

\* The last of some of the options.
LEMMA Last ==
    ASSUME NEW n \in Nat, NEW T, T \subseteq 1..n, T # {}
    PROVE  \E x \in T : \A y \in T : y <= x
<1> DEFINE S == {i \in Nat : n - i \in T}
<1>1. ASSUME NEW t \in T PROVE n - t \in S
  <2>1. n - t \in Nat /\ n - (n - t) = t
    OBVIOUS
  <2> QED
    BY <2>1
<1>2. S \subseteq Nat /\ S # {}
  BY <1>1
<1>3. PICK m \in S : \A i \in S : m <= i
  BY <1>2, Least
<1>4. n - m \in T
  BY <1>3
<1>5. ASSUME NEW t \in T PROVE t <= n - m
  <2>1. m <= n - t /\ m \in Nat
    BY <1>1, <1>3
  <2> QED
    BY <2>1
<1> QED
  BY <1>4, <1>5

\* A command line that is carried out sets a limit that is a number.
LEMMA MaxAgeIsNumber ==
    ASSUME NEW line \in CommandLines, WellFormed(line)
    PROVE  MaxAgeOf(line) \in Int
<1> DEFINE given == Given(line, "max-age")
           last == CHOOSE i \in given : \A j \in given : j <= i
<1>1. /\ line.options \in Seq(Options) /\ LongMax \in Nat
  BY CommandLineAssumption
<1>2. PICK n \in Nat : DOMAIN line.options = 1..n
  BY <1>1
<1>3. CASE given = {}
  BY <1>3 DEF MaxAgeOf
<1>4. CASE given # {}
  <2>1. given \subseteq 1..n
    BY <1>2 DEF Given, Handled
  <2>2. last \in given
    BY <2>1, <1>4, Last
  <2> HIDE DEF last
  <2>3. /\ last \in DOMAIN line.options /\ line.options[last].flag = "max-age"
        /\ last \in 1..last /\ \A j \in 1..last : Accepted(line.options[j])
    BY <2>1, <2>2 DEF Given, Handled
  <2>4. \E v \in line.options[last].value : TRUE
    BY <2>3 DEF Accepted, LongInRange
  <2>5. line.options[last].value \subseteq Int
    <3>1. line.options[last] \in Options
      BY <1>1, <2>3
    <3> QED
      BY <3>1 DEF Options
  <2>6. (CHOOSE v \in line.options[last].value : TRUE) \in Int
    BY <2>4, <2>5
  <2> QED
    BY <1>1, <1>4, <2>6 DEF last, MaxAgeOf, Lesser
<1> QED
  BY <1>3, <1>4

-----------------------------------------------------------------------------
(* The locks.                                                              *)

\* A hash has a lock.
LEMMA LockOfHash ==
    ASSUME NEW h \in Hashes
    PROVE  h % NumLocks \in Locks
BY CacheAssumption DEF Hashes, Locks

\* Two requests that hold the lock of one hash are the same.
LEMMA Alone ==
    ASSUME LockInv, NEW r \in Requests, NEW s \in Requests, hash[r] = hash[s],
           pc[r] \in Holding, pc[s] \in Holding
    PROVE  r = s
BY DEF LockInv, LockOf

-----------------------------------------------------------------------------
(* The steps.                                                              *)

\* What may be said of the time a file is valid for, as numbers.
LEMMA Times ==
    ASSUME NEW a \in Int, NEW b \in Int
    PROVE  /\ Lesser(a, b) \in Int /\ Lesser(a, b) <= a /\ Lesser(a, b) <= b
           /\ a \in Nat /\ b \in Nat => Lesser(a, b) \in Nat
           /\ Sum(a, b) \in Int /\ Sum(a, b) <= a + b
BY CommandLineAssumption DEF Lesser, Sum

\* A file that has expired does not become valid with time.
LEMMA ExpiredForGood ==
    ASSUME IInv, Tick, NEW f \in File, ~Valid(f)
    PROVE  ~Valid(f)'
<1> DEFINE end == IF maxAge > 0 THEN Lesser(Sum(f.created, maxAge), f.expires) ELSE f.expires
<1>1. f.created \in Int /\ f.expires \in Int /\ maxAge \in Int /\ clock \in Nat
  BY DEF File, IInv, TypeOK
<1>2. end \in Int
  <2>1. Sum(f.created, maxAge) \in Int
    BY <1>1, Times
  <2>2. Lesser(Sum(f.created, maxAge), f.expires) \in Int
    BY <1>1, <2>1, Times
  <2> QED
    BY <1>1, <2>2
<1>3. clock' = clock + 1 /\ maxAge' = maxAge
  BY DEF Tick, config
<1>4. ~(clock <= end)
  BY DEF Valid
<1>5. (~Valid(f))' <=> ~(clock' <= end)
  BY <1>3 DEF Valid
<1> QED
  BY <1>1, <1>2, <1>3, <1>4, <1>5

\* The file a response is stored in: its name does not promise more than the
\* response did.
LEMMA StoredFile ==
    ASSUME IInv, NEW r \in Requests, OpenFile(r)
    PROVE  \E f \in File :
              /\ f.created = created[r] /\ f.created <= f.opened
              /\ f.expires <= f.opened + f.ttl
              /\ files' = [files EXCEPT ![hash[r]] = {f}]
<1>1. /\ created[r] \in Nat /\ ttl[r] \in Nat /\ ttl[r] \in Int /\ clock \in Nat /\ maxAge \in Int
      /\ files \in [Hashes -> SUBSET File] /\ hash[r] \in Hashes
  BY DEF IInv, TypeOK
<1>2. pc[r] = "open" /\ files' = [files EXCEPT ![hash[r]] = @ \cup {NewFile(r)}]
  BY DEF OpenFile, Step
<1>3. files[hash[r]] = {} /\ created[r] <= clock
  BY <1>2 DEF IInv, DirectoryInv, Knows, FileInv
<1>4. ExpirationTime(ttl[r]) \in Nat /\ ExpirationTime(ttl[r]) <= clock + ttl[r]
  <2>1. CASE maxAge >= 0
    <3>1. maxAge \in Nat
      BY <1>1, <2>1
    <3>2. Lesser(maxAge, ttl[r]) \in Nat /\ Lesser(maxAge, ttl[r]) <= ttl[r]
      BY <1>1, <3>1, Times
    <3> QED
      BY <1>1, <2>1, <3>2 DEF ExpirationTime
  <2>2. CASE ~(maxAge >= 0)
    BY <1>1, <2>2 DEF ExpirationTime
  <2> QED
    BY <2>1, <2>2
<1>5. NewFile(r) \in File
  BY <1>1, <1>4 DEF NewFile, File
<1>6. files' = [files EXCEPT ![hash[r]] = {NewFile(r)}]
  BY <1>2, <1>3
<1> QED
  BY <1>1, <1>3, <1>4, <1>5, <1>6 DEF NewFile

\* The file that is written is the one that was opened, and whole from then on.
LEMMA WrittenFile ==
    ASSUME IInv, NEW r \in Requests, WriteFile(r)
    PROVE  \E f \in files[hash[r]], g \in File :
              /\ g.full /\ g.created = f.created /\ g.expires = f.expires
              /\ g.opened = f.opened /\ g.ttl = f.ttl
              /\ files' = [files EXCEPT ![hash[r]] = {g}]
<1>1. files \in [Hashes -> SUBSET File] /\ hash[r] \in Hashes
  BY DEF IInv, TypeOK
<1>2. /\ pc[r] = "write"
      /\ files' = [files EXCEPT ![hash[r]] =
            {IF f.created = created[r] THEN [f EXCEPT !.full = TRUE] ELSE f : f \in @}]
  BY DEF WriteFile, Step
<1>3. PICK f \in files[hash[r]] : TRUE
  BY <1>2 DEF IInv, DirectoryInv, Knows
<1>4. files[hash[r]] = {f}
  BY <1>1, <1>3 DEF IInv, SingleInv
<1>5. f.created = created[r]
  BY <1>2, <1>3 DEF IInv, DirectoryInv, Knows
<1> DEFINE g == [f EXCEPT !.full = TRUE]
<1>6. f \in File
  BY <1>1, <1>3
<1>7. /\ g \in File /\ g.full
      /\ g.created = f.created /\ g.expires = f.expires /\ g.opened = f.opened /\ g.ttl = f.ttl
  BY <1>6 DEF File
<1>8. files' = [files EXCEPT ![hash[r]] = {g}]
  <2>1. {IF e.created = created[r] THEN [e EXCEPT !.full = TRUE] ELSE e : e \in files[hash[r]]}
           = {g}
    BY <1>4, <1>5
  <2> QED
    BY <1>1, <1>2, <2>1
<1> QED
  BY <1>3, <1>6, <1>7, <1>8

\* A lock is taken when it is free, and kept until it is released.
LEMMA LockInvStep ==
    ASSUME IInv, Next
    PROVE  LockInv'
<1> USE CacheAssumption, FreeAssumption
<1> USE DEF IInv, TypeOK, Step, vars, config, request, disk, Quiet,
           LockInv, LockOf, Holding, Locks
<1>1. ASSUME NEW r \in Requests, ServiceRequest(r) \/ Arrives(r), ~Throws(r)
      PROVE  LockInv'
  <2>1. CASE Arrives(r)
    BY <2>1, LockOfHash, SMTT(30) DEF Arrives, Accept, Forbid, Sends
  <2>2. CASE LockForLookup(r) \/ LockForStore(r)
    BY <2>2, LockOfHash, SMTT(30) DEF LockForLookup, LockForStore, Acquire
  <2>3. CASE Lookup(r)
    BY <2>3, LockOfHash DEF Lookup, Entries
  <2>4. CASE RemoveFile(r) \/ RemoveDirectory(r)
    BY <2>4, LockOfHash DEF RemoveFile, RemoveDirectory
  <2>5. CASE CacheHTTP(r) \/ UnlockAfterLookup(r)
    BY <2>5, LockOfHash, SMTT(30) DEF CacheHTTP, UnlockAfterLookup, Release, Sends
  <2>6. CASE Connect(r) \/ Receive(r) \/ Decide(r)
    BY <2>6, LockOfHash, SMTT(30) DEF Connect, Receive, Decide
  <2>7. CASE CacheEntry(r)
    BY <2>7, LockOfHash DEF CacheEntry, EnsureDirectory, EmptyDirectory, Stamp, OpenFile, WriteFile,
           StoreFails, NewFile
  <2>8. CASE UnlockAfterStore(r) \/ Reply(r) \/ Return(r)
    <3>1. CASE UnlockAfterStore(r)
      BY <3>1, LockOfHash DEF UnlockAfterStore, Release
    <3>2. CASE Reply(r)
      BY <3>2, LockOfHash DEF Reply, Sends
    <3>3. CASE Return(r)
      BY <3>3, LockOfHash DEF Return
    <3> QED
      BY <2>8, <3>1, <3>2, <3>3
  <2> QED
    BY <1>1, <2>1, <2>2, <2>3, <2>4, <2>5, <2>6, <2>7, <2>8
       DEF ServiceRequest, ContainsCacheEntry, ForwardRequestToProxy
<1>2. CASE Dies
  BY <1>2, LockOfHash DEF Dies
<1>3. ASSUME NEW line \in CommandLines, Launch(line) PROVE LockInv'
  BY <1>3, LockOfHash DEF Launch, Listens, Refuses, Clears, ClearFails
<1>4. CASE Tick
  BY <1>4, LockOfHash DEF Tick
<1> QED
  BY <1>1, <1>2, <1>3, <1>4 DEF Next, Throws, KillProxyServer

\* A request is taken on only while the proxy runs, and does not outlive it.
LEMMA UpInvStep ==
    ASSUME IInv, Next
    PROVE  UpInv'
<1> USE CacheAssumption, FreeAssumption
<1> USE DEF IInv, TypeOK, Step, vars, config, request, disk, Quiet,
           UpInv
<1>1. ASSUME NEW r \in Requests, ServiceRequest(r) \/ Arrives(r), ~Throws(r)
      PROVE  UpInv'
  <2>1. CASE Arrives(r)
    BY <2>1 DEF Arrives, Accept, Forbid, Sends
  <2>2. CASE LockForLookup(r) \/ LockForStore(r)
    BY <2>2 DEF LockForLookup, LockForStore, Acquire
  <2>3. CASE Lookup(r)
    BY <2>3 DEF Lookup, Entries
  <2>4. CASE RemoveFile(r) \/ RemoveDirectory(r)
    BY <2>4 DEF RemoveFile, RemoveDirectory
  <2>5. CASE CacheHTTP(r) \/ UnlockAfterLookup(r)
    BY <2>5 DEF CacheHTTP, UnlockAfterLookup, Release, Sends
  <2>6. CASE Connect(r) \/ Receive(r) \/ Decide(r)
    BY <2>6 DEF Connect, Receive, Decide
  <2>7. CASE CacheEntry(r)
    BY <2>7 DEF CacheEntry, EnsureDirectory, EmptyDirectory, Stamp, OpenFile, WriteFile,
           StoreFails, NewFile
  <2>8. CASE UnlockAfterStore(r) \/ Reply(r) \/ Return(r)
    BY <2>8 DEF UnlockAfterStore, Reply, Return, Release, Sends
  <2> QED
    BY <1>1, <2>1, <2>2, <2>3, <2>4, <2>5, <2>6, <2>7, <2>8
       DEF ServiceRequest, ContainsCacheEntry, ForwardRequestToProxy
<1>2. CASE Dies
  BY <1>2 DEF Dies
<1>3. ASSUME NEW line \in CommandLines, Launch(line) PROVE UpInv'
  BY <1>3 DEF Launch, Listens, Refuses, Clears, ClearFails
<1>4. CASE Tick
  BY <1>4 DEF Tick
<1> QED
  BY <1>1, <1>2, <1>3, <1>4 DEF Next, Throws, KillProxyServer

\* A file is opened in an empty directory.
LEMMA SingleInvStep ==
    ASSUME IInv, Next
    PROVE  SingleInv'
<1> USE CacheAssumption, FreeAssumption
<1> USE DEF IInv, TypeOK, Step, vars, config, request, disk, Quiet,
           SingleInv, DirectoryInv, Knows
<1>1. ASSUME NEW r \in Requests, ServiceRequest(r) \/ Arrives(r), ~Throws(r)
      PROVE  SingleInv'
  <2>1. CASE Arrives(r)
    BY <2>1 DEF Arrives, Accept, Forbid, Sends
  <2>2. CASE LockForLookup(r) \/ LockForStore(r)
    BY <2>2 DEF LockForLookup, LockForStore, Acquire
  <2>3. CASE Lookup(r)
    BY <2>3 DEF Lookup, Entries
  <2>4. CASE RemoveFile(r) \/ RemoveDirectory(r)
    BY <2>4 DEF RemoveFile, RemoveDirectory
  <2>5. CASE CacheHTTP(r) \/ UnlockAfterLookup(r)
    BY <2>5 DEF CacheHTTP, UnlockAfterLookup, Release, Sends
  <2>6. CASE Connect(r) \/ Receive(r) \/ Decide(r)
    BY <2>6 DEF Connect, Receive, Decide
  <2>7. CASE CacheEntry(r)
    <3>1. CASE EnsureDirectory(r)
      BY <3>1 DEF EnsureDirectory
    <3>2. CASE EmptyDirectory(r)
      BY <3>2 DEF EmptyDirectory
    <3>3. CASE Stamp(r)
      BY <3>3 DEF Stamp
    <3>4. CASE OpenFile(r)
      <4>1. PICK g \in File :
               /\ g.created = created[r] /\ g.created <= g.opened
               /\ g.expires <= g.opened + g.ttl
               /\ files' = [files EXCEPT ![hash[r]] = {g}]
        BY <3>4, StoredFile
      <4> QED
        BY <3>4, <4>1 DEF OpenFile
    <3>5. CASE WriteFile(r)
      <4>1. PICK f \in files[hash[r]], g \in File :
               /\ g.full /\ g.created = f.created /\ g.expires = f.expires
               /\ g.opened = f.opened /\ g.ttl = f.ttl
               /\ files' = [files EXCEPT ![hash[r]] = {g}]
        BY <3>5, WrittenFile
      <4> QED
        BY <3>5, <4>1 DEF WriteFile
    <3>6. CASE StoreFails(r)
      BY <3>6 DEF StoreFails
    <3> QED
      BY <2>7, <3>1, <3>2, <3>3, <3>4, <3>5, <3>6 DEF CacheEntry
  <2>8. CASE UnlockAfterStore(r) \/ Reply(r) \/ Return(r)
    BY <2>8 DEF UnlockAfterStore, Reply, Return, Release, Sends
  <2> QED
    BY <1>1, <2>1, <2>2, <2>3, <2>4, <2>5, <2>6, <2>7, <2>8
       DEF ServiceRequest, ContainsCacheEntry, ForwardRequestToProxy
<1>2. CASE Dies
  BY <1>2 DEF Dies
<1>3. ASSUME NEW line \in CommandLines, Launch(line) PROVE SingleInv'
  BY <1>3 DEF Launch, Listens, Refuses, Clears, ClearFails
<1>4. CASE Tick
  BY <1>4 DEF Tick
<1> QED
  BY <1>1, <1>2, <1>3, <1>4 DEF Next, Throws, KillProxyServer

\* Nobody else changes a directory whose lock is held, and an expired file does
\* not become valid.
LEMMA DirectoryInvStep ==
    ASSUME IInv, Next
    PROVE  DirectoryInv'
<1> USE CacheAssumption, FreeAssumption
<1> USE DEF IInv, TypeOK, Step, vars, config, request, disk, Quiet,
           DirectoryInv, Knows, SingleInv, UpInv, LockInv, LockOf, Holding, Labels, Valid
<1>1. ASSUME NEW r \in Requests, ServiceRequest(r) \/ Arrives(r), ~Throws(r)
      PROVE  DirectoryInv'
  <2>1. CASE Arrives(r)
    BY <2>1, Alone DEF Arrives, Accept, Forbid, Sends
  <2>2. CASE LockForLookup(r) \/ LockForStore(r)
    BY <2>2, Alone DEF LockForLookup, LockForStore, Acquire
  <2>3. CASE Lookup(r)
    BY <2>3, Alone DEF Lookup, Entries
  <2>4. CASE RemoveFile(r) \/ RemoveDirectory(r)
    BY <2>4, Alone DEF RemoveFile, RemoveDirectory
  <2>5. CASE CacheHTTP(r) \/ UnlockAfterLookup(r)
    BY <2>5, Alone DEF CacheHTTP, UnlockAfterLookup, Release, Sends
  <2>6. CASE Connect(r) \/ Receive(r) \/ Decide(r)
    BY <2>6, Alone DEF Connect, Receive, Decide
  <2>7. CASE CacheEntry(r)
    <3>1. CASE EnsureDirectory(r)
      BY <3>1, Alone DEF EnsureDirectory
    <3>2. CASE EmptyDirectory(r)
      BY <3>2, Alone DEF EmptyDirectory
    <3>3. CASE Stamp(r)
      BY <3>3, Alone DEF Stamp
    <3>4. CASE OpenFile(r)
      <4>1. PICK g \in File :
               /\ g.created = created[r] /\ g.created <= g.opened
               /\ g.expires <= g.opened + g.ttl
               /\ files' = [files EXCEPT ![hash[r]] = {g}]
        BY <3>4, StoredFile
      <4>2. /\ pc[r] = "open" /\ pc' = [pc EXCEPT ![r] = "write"] /\ pc \in [Requests -> Labels]
            /\ hash \in [Requests -> Hashes] /\ files \in [Hashes -> SUBSET File]
            /\ UNCHANGED <<hash, created, dir, clock, maxAge>> /\ dir[hash[r]]
        BY <3>4 DEF OpenFile
      <4>3. \A s \in Requests : s # r /\ hash[s] = hash[r] => pc[s] \notin Holding
        BY <4>2, Alone
      <4>4. DirectoryInv /\ \A f : Valid(f)' <=> Valid(f)
        BY <3>4 DEF OpenFile
      <4> HIDE DEF IInv, Valid, DirectoryInv
      <4>5. Knows(r)'
        BY <4>1, <4>2
      <4>6. ASSUME NEW s \in Requests, s # r PROVE Knows(s)'
        <5>1. Knows(s)
          BY <4>4 DEF DirectoryInv
        <5>2. CASE hash[s] = hash[r]
          BY <4>2, <4>3, <4>6, <5>2
        <5>3. CASE hash[s] # hash[r]
          BY <4>1, <4>2, <4>4, <4>6, <5>1, <5>3
        <5> QED
          BY <5>2, <5>3
      <4>7. \A h \in Hashes : files'[h] # {} => dir'[h]
        BY <4>1, <4>2, <4>4 DEF DirectoryInv
      <4> QED
        BY <4>5, <4>6, <4>7 DEF DirectoryInv
    <3>5. CASE WriteFile(r)
      <4>1. PICK f \in files[hash[r]], g \in File :
               /\ g.full /\ g.created = f.created /\ g.expires = f.expires
               /\ g.opened = f.opened /\ g.ttl = f.ttl
               /\ files' = [files EXCEPT ![hash[r]] = {g}]
        BY <3>5, WrittenFile
      <4> QED
        BY <3>5, <4>1, Alone DEF WriteFile
    <3>6. CASE StoreFails(r)
      BY <3>6, Alone DEF StoreFails
    <3> QED
      BY <2>7, <3>1, <3>2, <3>3, <3>4, <3>5, <3>6 DEF CacheEntry
  <2>8. CASE UnlockAfterStore(r) \/ Reply(r) \/ Return(r)
    BY <2>8, Alone DEF UnlockAfterStore, Reply, Return, Release, Sends
  <2> QED
    BY <1>1, <2>1, <2>2, <2>3, <2>4, <2>5, <2>6, <2>7, <2>8
       DEF ServiceRequest, ContainsCacheEntry, ForwardRequestToProxy
<1>2. CASE Dies
  BY <1>2, Alone DEF Dies
<1>3. ASSUME NEW line \in CommandLines, Launch(line) PROVE DirectoryInv'
  BY <1>3, Alone DEF Launch, Listens, Refuses, Clears, ClearFails
<1>4. CASE Tick
  BY <1>4, ExpiredForGood DEF Tick
<1> QED
  BY <1>1, <1>2, <1>3, <1>4 DEF Next, Throws, KillProxyServer

\* A file expires no later than the response.
LEMMA FileInvStep ==
    ASSUME IInv, Next
    PROVE  FileInv'
<1> USE CacheAssumption, FreeAssumption
<1> USE DEF IInv, TypeOK, Step, vars, config, request, disk, Quiet,
           FileInv, File
<1>1. ASSUME NEW r \in Requests, ServiceRequest(r) \/ Arrives(r), ~Throws(r)
      PROVE  FileInv'
  <2>1. CASE Arrives(r)
    BY <2>1 DEF Arrives, Accept, Forbid, Sends
  <2>2. CASE LockForLookup(r) \/ LockForStore(r)
    BY <2>2 DEF LockForLookup, LockForStore, Acquire
  <2>3. CASE Lookup(r)
    BY <2>3 DEF Lookup, Entries
  <2>4. CASE RemoveFile(r) \/ RemoveDirectory(r)
    BY <2>4 DEF RemoveFile, RemoveDirectory
  <2>5. CASE CacheHTTP(r) \/ UnlockAfterLookup(r)
    BY <2>5 DEF CacheHTTP, UnlockAfterLookup, Release, Sends
  <2>6. CASE Connect(r) \/ Receive(r) \/ Decide(r)
    BY <2>6 DEF Connect, Receive, Decide
  <2>7. CASE CacheEntry(r)
    <3>1. CASE EnsureDirectory(r)
      BY <3>1 DEF EnsureDirectory
    <3>2. CASE EmptyDirectory(r)
      BY <3>2 DEF EmptyDirectory
    <3>3. CASE Stamp(r)
      BY <3>3 DEF Stamp
    <3>4. CASE OpenFile(r)
      <4>1. PICK g \in File :
               /\ g.created = created[r] /\ g.created <= g.opened
               /\ g.expires <= g.opened + g.ttl
               /\ files' = [files EXCEPT ![hash[r]] = {g}]
        BY <3>4, StoredFile
      <4> QED
        BY <3>4, <4>1 DEF OpenFile
    <3>5. CASE WriteFile(r)
      <4>1. PICK f \in files[hash[r]], g \in File :
               /\ g.full /\ g.created = f.created /\ g.expires = f.expires
               /\ g.opened = f.opened /\ g.ttl = f.ttl
               /\ files' = [files EXCEPT ![hash[r]] = {g}]
        BY <3>5, WrittenFile
      <4> QED
        BY <3>5, <4>1 DEF WriteFile
    <3>6. CASE StoreFails(r)
      BY <3>6 DEF StoreFails
    <3> QED
      BY <2>7, <3>1, <3>2, <3>3, <3>4, <3>5, <3>6 DEF CacheEntry
  <2>8. CASE UnlockAfterStore(r) \/ Reply(r) \/ Return(r)
    BY <2>8 DEF UnlockAfterStore, Reply, Return, Release, Sends
  <2> QED
    BY <1>1, <2>1, <2>2, <2>3, <2>4, <2>5, <2>6, <2>7, <2>8
       DEF ServiceRequest, ContainsCacheEntry, ForwardRequestToProxy
<1>2. CASE Dies
  BY <1>2 DEF Dies
<1>3. ASSUME NEW line \in CommandLines, Launch(line) PROVE FileInv'
  BY <1>3 DEF Launch, Listens, Refuses, Clears, ClearFails
<1>4. CASE Tick
  BY <1>4 DEF Tick
<1> QED
  BY <1>1, <1>2, <1>3, <1>4 DEF Next, Throws, KillProxyServer

\* A file is whole when its writer leaves, and the writer is one.
LEMMA WholeInvStep ==
    ASSUME IInv, Next
    PROVE  WholeInv'
<1> USE CacheAssumption, FreeAssumption
<1> USE DEF IInv, TypeOK, Step, vars, config, request, disk, Quiet,
           WholeInv, UpInv, DirectoryInv, Knows, LockInv, Holding
<1>1. ASSUME NEW r \in Requests, ServiceRequest(r) \/ Arrives(r), ~Throws(r)
      PROVE  WholeInv'
  <2>1. CASE Arrives(r)
    BY <2>1, Alone DEF Arrives, Accept, Forbid, Sends
  <2>2. CASE LockForLookup(r) \/ LockForStore(r)
    BY <2>2, Alone DEF LockForLookup, LockForStore, Acquire
  <2>3. CASE Lookup(r)
    BY <2>3, Alone DEF Lookup, Entries
  <2>4. CASE RemoveFile(r) \/ RemoveDirectory(r)
    BY <2>4, Alone DEF RemoveFile, RemoveDirectory
  <2>5. CASE CacheHTTP(r) \/ UnlockAfterLookup(r)
    BY <2>5, Alone DEF CacheHTTP, UnlockAfterLookup, Release, Sends
  <2>6. CASE Connect(r) \/ Receive(r) \/ Decide(r)
    BY <2>6, Alone DEF Connect, Receive, Decide
  <2>7. CASE CacheEntry(r)
    <3>1. CASE EnsureDirectory(r)
      BY <3>1, Alone DEF EnsureDirectory
    <3>2. CASE EmptyDirectory(r)
      BY <3>2, Alone DEF EmptyDirectory
    <3>3. CASE Stamp(r)
      BY <3>3, Alone DEF Stamp
    <3>4. CASE OpenFile(r)
      <4>1. PICK g \in File :
               /\ g.created = created[r] /\ g.created <= g.opened
               /\ g.expires <= g.opened + g.ttl
               /\ files' = [files EXCEPT ![hash[r]] = {g}]
        BY <3>4, StoredFile
      <4> QED
        BY <3>4, <4>1, Alone DEF OpenFile
    <3>5. CASE WriteFile(r)
      <4>1. PICK f \in files[hash[r]], g \in File :
               /\ g.full /\ g.created = f.created /\ g.expires = f.expires
               /\ g.opened = f.opened /\ g.ttl = f.ttl
               /\ files' = [files EXCEPT ![hash[r]] = {g}]
        BY <3>5, WrittenFile
      <4> QED
        BY <3>5, <4>1, Alone DEF WriteFile
    <3>6. CASE StoreFails(r)
      BY <3>6, Alone DEF StoreFails
    <3> QED
      BY <2>7, <3>1, <3>2, <3>3, <3>4, <3>5, <3>6 DEF CacheEntry
  <2>8. CASE UnlockAfterStore(r) \/ Reply(r) \/ Return(r)
    BY <2>8, Alone DEF UnlockAfterStore, Reply, Return, Release, Sends
  <2> QED
    BY <1>1, <2>1, <2>2, <2>3, <2>4, <2>5, <2>6, <2>7, <2>8
       DEF ServiceRequest, ContainsCacheEntry, ForwardRequestToProxy
<1>2. CASE Dies
  BY <1>2, Alone DEF Dies
<1>3. ASSUME NEW line \in CommandLines, Launch(line) PROVE WholeInv'
  BY <1>3, Alone DEF Launch, Listens, Refuses, Clears, ClearFails
<1>4. CASE Tick
  BY <1>4, Alone DEF Tick
<1> QED
  BY <1>1, <1>2, <1>3, <1>4 DEF Next, Throws, KillProxyServer

\* Every variable stays in its type.
LEMMA TypeOKStep ==
    ASSUME IInv, Next
    PROVE  TypeOK'
<1> USE CacheAssumption, FreeAssumption
<1> USE DEF IInv, TypeOK, Step, vars, config, request, disk, Quiet,
           Labels, Holding, Methods, Locks, LockOf
<1>0. 0 \in Hashes
  BY DEF Hashes
<1>1. ASSUME NEW r \in Requests, ServiceRequest(r) \/ Arrives(r), ~Throws(r)
      PROVE  TypeOK'
  <2>1. CASE Arrives(r)
    <3>1. CASE Forbid(r)
      BY <3>1 DEF Forbid, Sends
    <3>2. ASSUME NEW m \in Methods, NEW h \in Hashes, Accept(r, m, h) PROVE TypeOK'
      BY <3>2 DEF Accept
    <3> QED
      BY <2>1, <3>1, <3>2 DEF Arrives
  <2>2. CASE LockForLookup(r) \/ LockForStore(r)
    <3>1. CASE LockForLookup(r)
      BY <3>1, LockOfHash DEF LockForLookup, Acquire
    <3>2. CASE LockForStore(r)
      BY <3>2, LockOfHash DEF LockForStore, Acquire
    <3> QED
      BY <2>2, <3>1, <3>2
  <2>3. CASE Lookup(r)
    BY <2>3, LockOfHash DEF Lookup, Entries
  <2>4. CASE RemoveFile(r) \/ RemoveDirectory(r)
    <3>1. CASE RemoveFile(r)
      <4>1. \A h \in Hashes : files'[h] \subseteq files[h]
        BY <3>1 DEF RemoveFile
      <4>2. files' \in [Hashes -> SUBSET File]
        BY <3>1, <4>1 DEF RemoveFile
      <4> QED
        BY <3>1, <4>2 DEF RemoveFile
    <3>2. CASE RemoveDirectory(r)
      BY <3>2 DEF RemoveDirectory
    <3> QED
      BY <2>4, <3>1, <3>2
  <2>5. CASE CacheHTTP(r) \/ UnlockAfterLookup(r)
    <3>1. CASE CacheHTTP(r)
      BY <3>1 DEF CacheHTTP, Sends
    <3>2. CASE UnlockAfterLookup(r)
      BY <3>2 DEF UnlockAfterLookup, Release
    <3> QED
      BY <2>5, <3>1, <3>2
  <2>6. CASE Connect(r) \/ Receive(r) \/ Decide(r)
    <3>1. CASE Connect(r)
      BY <3>1 DEF Connect
    <3>2. CASE Receive(r)
      BY <3>2 DEF Receive
    <3>3. CASE Decide(r)
      BY <3>3 DEF Decide
    <3> QED
      BY <2>6, <3>1, <3>2, <3>3
  <2>7. CASE CacheEntry(r)
    <3>1. CASE EnsureDirectory(r)
      BY <3>1 DEF EnsureDirectory
    <3>2. CASE EmptyDirectory(r)
      BY <3>2 DEF EmptyDirectory
    <3>3. CASE Stamp(r)
      BY <3>3 DEF Stamp
    <3>4. CASE OpenFile(r)
      <4>1. PICK g \in File :
               /\ g.created = created[r] /\ g.created <= g.opened
               /\ g.expires <= g.opened + g.ttl
               /\ files' = [files EXCEPT ![hash[r]] = {g}]
        BY <3>4, StoredFile
      <4>2. files' \in [Hashes -> SUBSET File]
        BY <4>1
      <4>3. pc' \in [Requests -> Labels]
        BY <3>4 DEF OpenFile
      <4> QED
        BY <3>4, <4>2, <4>3 DEF OpenFile
    <3>5. CASE WriteFile(r)
      <4>1. PICK f \in files[hash[r]], g \in File :
               /\ g.full /\ g.created = f.created /\ g.expires = f.expires
               /\ g.opened = f.opened /\ g.ttl = f.ttl
               /\ files' = [files EXCEPT ![hash[r]] = {g}]
        BY <3>5, WrittenFile
      <4>2. files' \in [Hashes -> SUBSET File]
        BY <4>1
      <4>3. pc' \in [Requests -> Labels]
        BY <3>5 DEF WriteFile
      <4> QED
        BY <3>5, <4>2, <4>3 DEF WriteFile
    <3>6. CASE StoreFails(r)
      BY <3>6 DEF StoreFails
    <3> QED
      BY <2>7, <3>1, <3>2, <3>3, <3>4, <3>5, <3>6 DEF CacheEntry
  <2>8. CASE UnlockAfterStore(r) \/ Reply(r) \/ Return(r)
    <3>1. CASE UnlockAfterStore(r)
      BY <3>1 DEF UnlockAfterStore, Release
    <3>2. CASE Reply(r)
      BY <3>2 DEF Reply, Sends
    <3>3. CASE Return(r)
      BY <1>0, <3>3 DEF Return
    <3> QED
      BY <2>8, <3>1, <3>2, <3>3
  <2> QED
    BY <1>1, <2>1, <2>2, <2>3, <2>4, <2>5, <2>6, <2>7, <2>8
       DEF ServiceRequest, ContainsCacheEntry, ForwardRequestToProxy
<1>2. CASE Dies
  BY <1>0, <1>2 DEF Dies
<1>3. ASSUME NEW line \in CommandLines, Launch(line) PROVE TypeOK'
  <2>1. Listens(line) \/ Refuses
    BY <1>3 DEF Launch
  <2>2. maxAge' \in Int /\ up' \in BOOLEAN /\ runs' \in Nat
    <3>1. CASE Listens(line)
      BY <3>1, MaxAgeIsNumber DEF Listens
    <3>2. CASE Refuses
      BY <3>2 DEF Refuses
    <3> QED
      BY <2>1, <3>1, <3>2
  <2>3. UNCHANGED disk \/ Clears \/ ClearFails
    BY <1>3 DEF Launch
  <2>4. dir' \in [Hashes -> BOOLEAN] /\ files' \in [Hashes -> SUBSET File]
    <3>1. CASE UNCHANGED disk
      BY <3>1
    <3>2. CASE Clears
      BY <3>2 DEF Clears
    <3>3. CASE ClearFails
      BY <3>3 DEF ClearFails
    <3> QED
      BY <2>3, <3>1, <3>2, <3>3
  <2> QED
    BY <1>3, <2>2, <2>4 DEF Launch
<1>4. CASE Tick
  BY <1>4, LockOfHash DEF Tick
<1> QED
  BY <1>1, <1>2, <1>3, <1>4 DEF Next, Throws, KillProxyServer

\* Before the first run nothing is cached and nothing under way.
LEMMA InitIInv == Init => IInv
<1> SUFFICES ASSUME Init PROVE IInv
  OBVIOUS
<1> USE CacheAssumption DEF Init, Quiet
<1>1. TypeOK
  <2>1. 0 \in Hashes
    BY DEF Hashes
  <2>2. up \in BOOLEAN
    OBVIOUS
  <2>6. maxAge \in Int /\ clock \in Nat /\ runs \in Nat
    OBVIOUS
  <2>3. /\ pc \in [Requests -> Labels] /\ method \in [Requests -> Methods]
        /\ lock \in [Locks -> Requests \cup {Free}]
    BY DEF Labels, Methods, Locks
  <2>4. /\ hash \in [Requests -> Hashes] /\ ttl \in [Requests -> Nat]
        /\ created \in [Requests -> Nat] /\ replies \in [Requests -> Nat]
    BY <2>1
  <2>5. dir \in [Hashes -> BOOLEAN] /\ files \in [Hashes -> SUBSET File]
    OBVIOUS
  <2> QED
    BY <2>2, <2>3, <2>4, <2>5, <2>6 DEF TypeOK
<1>2. LockInv /\ UpInv /\ SingleInv
  BY DEF LockInv, Holding, UpInv, SingleInv
<1>3. DirectoryInv /\ FileInv /\ WholeInv
  BY DEF DirectoryInv, Knows, FileInv, WholeInv
<1> QED
  BY <1>1, <1>2, <1>3 DEF IInv

\* The inductive invariant is preserved by every step.
LEMMA IInvStep == IInv /\ [Next]_vars => IInv'
<1> SUFFICES ASSUME IInv, [Next]_vars PROVE IInv'
  OBVIOUS
<1>1. CASE Next
  BY <1>1, TypeOKStep, LockInvStep, UpInvStep, SingleInvStep, DirectoryInvStep, FileInvStep,
     WholeInvStep DEF IInv
<1>2. CASE UNCHANGED vars
  BY <1>2 DEF IInv, TypeOK, LockInv, LockOf, UpInv, SingleInv, DirectoryInv, Knows, Valid,
         FileInv, WholeInv, vars, config, request, disk
<1> QED
  BY <1>1, <1>2

\* IInv is an invariant.
LEMMA IInvHolds == Spec => []IInv
<1> QED
  BY InitIInv, IInvStep, PTL DEF Spec

-----------------------------------------------------------------------------
(* The theorems.                                                           *)

\* Between two of its steps in a directory a request finds it as it left it.
THEOREM DirectoryStaysPutCorrect == Spec => []DirectoryStaysPut
<1>1. ASSUME IInv PROVE DirectoryStaysPut
  <2> SUFFICES ASSUME NEW r \in Requests
               PROVE  LET F == files[hash[r]]
                      IN /\ pc[r] = "remove" => \E f \in F : ~Valid(f)
                         /\ pc[r] = "hit" => F # {}
                         /\ pc[r] = "rmdir" => dir[hash[r]] /\ F = {}
                         /\ pc[r] \in {"stamp", "open"} => dir[hash[r]] /\ F = {}
                         /\ pc[r] = "write" => {f.created : f \in F} = {created[r]}
    BY DEF DirectoryStaysPut
  <2>1. Knows(r)
    BY <1>1 DEF IInv, DirectoryInv
  <2> QED
    BY <2>1 DEF Knows
<1> QED
  BY <1>1, IInvHolds, PTL

\* A directory of the cache holds one file at most, and during the first run of
\* the proxy one that can be looked up is whole.
THEOREM OneWholeFileCorrect == Spec => []OneWholeFile
<1>1. ASSUME IInv PROVE OneWholeFile
  <2> SUFFICES ASSUME NEW h \in Hashes
               PROVE  /\ Cardinality(files[h]) <= 1
                      /\ up /\ runs = 1 /\ lock[h % NumLocks] = Free
                            => \A f \in files[h] : f.full
    BY DEF OneWholeFile
  <2>1. Cardinality(files[h]) <= 1
    <3>1. CASE files[h] = {}
      BY <3>1, FS_EmptySet
    <3>2. CASE files[h] # {}
      <4>1. PICK f : files[h] = {f}
        BY <1>1, <3>2 DEF IInv, SingleInv
      <4>2. Cardinality(files[h]) = 1
        BY <4>1, FS_Singleton
      <4> QED
        BY <4>2
    <3> QED
      BY <3>1, <3>2
  <2>2. ASSUME up, runs = 1, lock[h % NumLocks] = Free, NEW f \in files[h], ~f.full
        PROVE  FALSE
    <3>1. PICK r \in Requests : pc[r] = "write" /\ hash[r] = h
      BY <1>1, <2>2 DEF IInv, WholeInv
    <3>2. lock[h % NumLocks] = r
      BY <1>1, <3>1 DEF IInv, LockInv, LockOf, Holding
    <3> QED
      BY <2>2, <3>2, FreeAssumption
  <2> QED
    BY <2>1, <2>2
<1> QED
  BY <1>1, IInvHolds, PTL

\* Only a lookup says that there is an entry.
LEMMA OnlyLookupHits ==
    ASSUME IInv, Next, NEW r \in Requests, pc[r] = "lookup", pc'[r] = "hit"
    PROVE  Lookup(r)
<1> USE DEF IInv, TypeOK, Step
<1>1. CASE Dies \/ Tick \/ \E line \in CommandLines : Launch(line)
  BY <1>1 DEF Dies, Quiet, Tick, Launch
<1>2. ASSUME NEW s \in Requests, ServiceRequest(s) \/ Arrives(s), ~Throws(s)
      PROVE  Lookup(r)
  <2>1. CASE Lookup(s)
    BY <2>1 DEF Lookup, Entries
  <2>2. CASE Arrives(s)
    BY <2>2 DEF Arrives, Accept, Forbid
  <2>3. CASE LockForLookup(s) \/ RemoveFile(s) \/ RemoveDirectory(s) \/ CacheHTTP(s)
             \/ UnlockAfterLookup(s) \/ Return(s)
    BY <2>3 DEF LockForLookup, RemoveFile, RemoveDirectory, CacheHTTP, UnlockAfterLookup, Return
  <2>4. CASE ForwardRequestToProxy(s)
    BY <2>4 DEF ForwardRequestToProxy, Connect, Receive, LockForStore, Decide, CacheEntry,
           EnsureDirectory, EmptyDirectory, Stamp, OpenFile, WriteFile, StoreFails,
           UnlockAfterStore, Reply
  <2> QED
    BY <1>2, <2>1, <2>2, <2>3, <2>4 DEF ServiceRequest, ContainsCacheEntry
<1> QED
  BY <1>1, <1>2 DEF Next, Throws, KillProxyServer

\* A hit is on a response no older than its own max-age, nor than the --max-age
\* of this run, even where the sum of two longs wraps around.
THEOREM HitsAreFreshCorrect == Spec => HitsAreFresh
<1> DEFINE Fresh(r) == \E f \in files[hash[r]] :
                           /\ clock - f.opened <= f.ttl
                           /\ maxAge > 0 => clock - f.opened <= maxAge
<1>1. ASSUME IInv, Next, NEW r \in Requests, pc[r] = "lookup", pc'[r] = "hit"
      PROVE  Fresh(r)
  <2>1. PICK f \in files[hash[r]] : Valid(f)
    <3>1. Lookup(r)
      BY <1>1, OnlyLookupHits
    <3> QED
      BY <1>1, <3>1 DEF Lookup, Entries, Step, IInv, TypeOK
  <2>2. f \in File /\ maxAge \in Int /\ clock \in Nat
    BY <1>1, <2>1 DEF IInv, TypeOK
  <2>3. /\ f.created \in Int /\ f.expires \in Int /\ f.opened \in Int /\ f.ttl \in Int
    BY <2>2 DEF File
  <2>4. f.created <= f.opened /\ f.expires <= f.opened + f.ttl
    BY <1>1, <2>1 DEF IInv, FileInv, TypeOK
  <2>5. CASE maxAge > 0
    <3>1. Sum(f.created, maxAge) \in Int /\ Sum(f.created, maxAge) <= f.created + maxAge
      BY <2>2, <2>3, Times
    <3>2. /\ Lesser(Sum(f.created, maxAge), f.expires) \in Int
          /\ Lesser(Sum(f.created, maxAge), f.expires) <= Sum(f.created, maxAge)
          /\ Lesser(Sum(f.created, maxAge), f.expires) <= f.expires
      BY <2>3, <3>1, Times
    <3>3. clock <= Lesser(Sum(f.created, maxAge), f.expires)
      BY <2>1, <2>5 DEF Valid
    <3> QED
      BY <2>1, <2>2, <2>3, <2>4, <3>1, <3>2, <3>3
  <2>6. CASE ~(maxAge > 0)
    <3>1. clock <= f.expires
      BY <2>1, <2>6 DEF Valid
    <3> QED
      BY <2>1, <2>2, <2>3, <2>4, <2>6, <3>1
  <2> QED
    BY <2>5, <2>6
<1>2. IInv /\ [Next]_vars
         => [\A r \in Requests : pc[r] = "lookup" /\ pc'[r] = "hit" => Fresh(r)]_vars
  BY <1>1
<1> QED
  BY <1>2, IInvHolds, PTL DEF Spec, HitsAreFresh
=============================================================================
