------------------------------- MODULE UnixFS -------------------------------
(***************************************************************************)
(* The Unix version 6 file system reader of assign1: the layers from       *)
(* diskimg_readsector to pathname_lookup as operators on a disk, and       *)
(* diskimageaccess, which walks a disk by inode number (-i) and by path    *)
(* (-p), as a state machine whose stack is that of DumpPathAndChildren.    *)
(*                                                                         *)
(* The disk.  An image gives every allocated inode its kind and data, and  *)
(* Layout is what format the headers give it on disk.  A file's data are   *)
(* its units in order: tokens of a regular file, entries of a directory,   *)
(* UnitsPerSector of them to a sector (32 entries in the code).  A sector  *)
(* number is a value the code gets and hands on, so it says what is in the *)
(* sector.  Sectors in bad cannot be read.                                 *)
(*                                                                         *)
(* Names.  A name in LongNames fills all of d_name and has no terminator:  *)
(* the string goes on with the bytes behind it, first of all the low byte  *)
(* of the next entry's inode number.  What is behind the last entry of a   *)
(* buffer, and the inode "before" inode 1, are whatever memory holds.      *)
(***************************************************************************)
EXTENDS Integers, Sequences, FiniteSets, SequencesExt

CONSTANTS Images,           \* the images a disk may hold
          BadSectors,       \* the sets of sectors that may be unreadable
          Commands,         \* command lines: [flags, disks, magic]
          InodeSectors,     \* s_isize
          InodesPerSector,  \* 16
          UnitsPerSector,   \* 512 bytes, in units
          NumAddrs,         \* 8, length of i_addr
          AddrsPerSector,   \* 256, sector numbers in a sector
          MaxEntries,       \* 10000, entries GetDirEntries has room for
          MaxFrames,        \* calls the stack has room for, 160 KB each
          LongNames,        \* names of 14 characters
          RunOn,            \* a text of more than 14 characters
          Failed, Garbage   \* -1, and contents of no inode

ASSUME SizesAssumption ==
    /\ {InodeSectors, InodesPerSector, UnitsPerSector, AddrsPerSector,
        MaxEntries, MaxFrames} \subseteq Nat \ {0}
    /\ NumAddrs \in Nat \ {0, 1}

VARIABLES image, bad, command,  \* the world: never changes
          pc,                   \* where main or DumpPathAndChildren is
          inumber,              \* loop variable of DumpInodeChecksum
          stack,                \* calls of DumpPathAndChildren, innermost last
          lines                 \* what has been printed

world == <<image, bad, command>>
vars == <<world, pc, inumber, stack, lines>>

Root == 1
Entry(name, inum) == [name |-> name, inum |-> inum]
Blank == Entry("", 0)             \* a unit behind the end of the data
Blocks(size) == (size + UnitsPerSector - 1) \div UnitsPerSector
Live(e) == e.inum # 0

\* What the format takes for granted of the file system on a disk: it has a root,
\* a file has no more blocks than its tables have room for, and the entries in
\* use of a directory have different names and name allocated inodes.
WellFormed(im) ==
    /\ Root \in DOMAIN im
    /\ DOMAIN im \subseteq 1..(InodeSectors * InodesPerSector)
    /\ \A i \in DOMAIN im :
          LET file == im[i]
          IN /\ file.kind \in {"file", "dir", "special"} /\ file.large \in BOOLEAN
             /\ file.data \in Seq(Range(file.data))
             /\ Blocks(Len(file.data)) <=
                   IF file.large THEN (NumAddrs - 1 + AddrsPerSector) * AddrsPerSector
                   ELSE NumAddrs
             /\ file.kind = "dir" =>
                   /\ \A e \in Range(file.data) : /\ e.inum \in DOMAIN im \cup {0}
                                                  /\ e.name # RunOn
                   /\ \A j, k \in DOMAIN file.data :
                         /\ Live(file.data[j]) /\ Live(file.data[k])
                         /\ file.data[j].name = file.data[k].name
                         => j = k

ASSUME ImagesAssumption == \A im \in Images : WellFormed(im)

-----------------------------------------------------------------------------
(* What is on the disk.                                                    *)

Inodes == DOMAIN image
Size(i) == Len(image[i].data)
Boot == <<"boot">>
Super == <<"super">>
DataSector(i, b) == <<"data", i, b>>

\* What the calls below return on success, of which none is -1.
SectorNumbers == {Boot} \cup ({"first"} \X Nat) \cup ({"single", "second", "data"} \X Nat \X Nat)
InodeRecords == [alloc : BOOLEAN, kind : {"file", "dir", "special"}, large : BOOLEAN,
                 size : Nat, addr : [0..(NumAddrs - 1) -> SectorNumbers]]
Units == {Blank} \cup UNION {UNION {Range(im[i].data) : i \in DOMAIN im} : im \in Images}

ASSUME FailedAssumption ==
    /\ Failed \notin Nat \cup SectorNumbers \cup InodeRecords \cup Seq(Units)
    /\ Failed \notin [0..(InodesPerSector - 1) -> InodeRecords]
    /\ Failed \notin [0..(AddrsPerSector - 1) -> SectorNumbers]
    /\ Garbage \notin Seq(Units) /\ Garbage # Failed

\* struct inode; an inode that is not allocated has mode 0.
InodeOnDisk(i) ==
    IF i \notin Inodes
    THEN [alloc |-> FALSE, kind |-> "file", large |-> FALSE, size |-> 0,
          addr |-> [k \in 0..(NumAddrs - 1) |-> Boot]]
    ELSE [alloc |-> TRUE, kind |-> image[i].kind, large |-> image[i].large,
          size |-> Size(i),
          addr |-> [k \in 0..(NumAddrs - 1) |->
                      IF ~image[i].large
                      THEN IF k < Blocks(Size(i)) THEN DataSector(i, k) ELSE Boot
                      ELSE IF k < NumAddrs - 1 THEN <<"single", i, k>>
                      ELSE <<"first", i>>]]

Unit(i, k) == IF i \in Inodes /\ k <= Size(i) THEN image[i].data[k] ELSE Blank

\* The t-th table of sector numbers of inode i, in the order of its blocks.
Table(i, t) == [k \in 0..(AddrsPerSector - 1) |-> DataSector(i, t * AddrsPerSector + k)]

\* The content of a sector.
Layout(s) ==
    CASE s = Boot -> command.magic
      [] s = Super -> InodeSectors
      [] s[1] = "inode" -> [k \in 0..(InodesPerSector - 1) |->
                              InodeOnDisk(s[2] * InodesPerSector + k + 1)]
      [] s[1] = "data" -> [k \in 1..UnitsPerSector |->
                              Unit(s[2], s[3] * UnitsPerSector + k)]
      [] s[1] = "single" -> Table(s[2], s[3])
      [] s[1] = "first" -> [k \in 0..(AddrsPerSector - 1) |-> <<"second", s[2], k>>]
      [] s[1] = "second" -> Table(s[2], NumAddrs - 1 + s[3])

-----------------------------------------------------------------------------
(* diskimg.c, inode.c, file.c                                              *)

diskimg_readsector(s) == IF s \in bad THEN Failed ELSE Layout(s)

\* For i > 0: see DumpGarbage for 0.
inode_iget(i) ==
    LET buf == diskimg_readsector(<<"inode", (i - 1) \div InodesPerSector>>)
    IN IF buf = Failed THEN Failed ELSE buf[(i - 1) % InodesPerSector]

\* Mutant: the two tables of a doubly indirect block are used the wrong way round.
inode_indexlookup_swapped(in, block) ==
    LET last == NumAddrs - 1
        at == block - last * AddrsPerSector
    IN IF ~in.large THEN in.addr[block]
       ELSE IF block < last * AddrsPerSector
       THEN LET buf == diskimg_readsector(in.addr[block \div AddrsPerSector])
            IN IF buf = Failed THEN Failed ELSE buf[block % AddrsPerSector]
       ELSE LET first == diskimg_readsector(in.addr[last])
                second == IF first = Failed THEN Failed
                          ELSE diskimg_readsector(first[at % AddrsPerSector])
            IN IF second = Failed THEN Failed ELSE second[at \div AddrsPerSector]

\* The test of the mode in front of this fails for no allocated inode: ! binds
\* before %.
inode_indexlookup(in, block) ==
    LET last == NumAddrs - 1
        at == block - last * AddrsPerSector
    IN IF ~in.large THEN in.addr[block]
       ELSE IF block < last * AddrsPerSector
       THEN LET buf == diskimg_readsector(in.addr[block \div AddrsPerSector])
            IN IF buf = Failed THEN Failed ELSE buf[block % AddrsPerSector]
       ELSE LET first == diskimg_readsector(in.addr[last])
                second == IF first = Failed THEN Failed
                          ELSE diskimg_readsector(first[at \div AddrsPerSector])
            IN IF second = Failed THEN Failed ELSE second[at % AddrsPerSector]

\* Mutant: a last block that is full counts as empty.
ValidUnitsOfLast(size, block) ==
    IF block = (size - 1) \div UnitsPerSector THEN size % UnitsPerSector
    ELSE UnitsPerSector

\* A block is valid as a whole unless the file ends in it, behind the end too.
ValidUnitsOf(size, block) ==
    IF block = size \div UnitsPerSector THEN size % UnitsPerSector ELSE UnitsPerSector

file_getblock(i, block) ==
    LET in == inode_iget(i)
        s == IF in = Failed THEN Failed ELSE inode_indexlookup(in, block)
        buf == IF s = Failed THEN Failed ELSE diskimg_readsector(s)
    IN IF buf = Failed THEN Failed
       ELSE SubSeq(buf, 1, ValidUnitsOf(in.size, block))

-----------------------------------------------------------------------------
(* directory.c, pathname.c, chksumfile.c: all that a call may return.      *)

LowByteZero(inum) == inum % 256 = 0

\* Whether strcmp finds name at the k-th entry of a block, surely or perhaps.
\* Behind the entries of a block that is not full the disk holds zeroes.
MustMatch(block, k, name) ==
    /\ block[k].name = name
    /\ \/ name \notin LongNames
       \/ k < Len(block) /\ LowByteZero(block[k + 1].inum)
       \/ k = Len(block) /\ k < UnitsPerSector
MayMatch(block, k, name) ==
    \/ MustMatch(block, k, name)
    \/ block[k].name = name /\ k = UnitsPerSector

\* The inode number of the first entry that matches, or Failed.
directory_findname(d, name) ==
    LET in == inode_iget(d)
        block == [b \in 1..Blocks(in.size) |-> file_getblock(d, b - 1)]
        Bad(b) == block[b] = Failed
        At == {p \in (DOMAIN block) \X (1..UnitsPerSector) :
                  ~Bad(p[1]) /\ p[2] <= Len(block[p[1]])}
        Must(p) == MustMatch(block[p[1]], p[2], name)
        May(p) == MayMatch(block[p[1]], p[2], name)
        Before(p, q) == p[1] < q[1] \/ (p[1] = q[1] /\ p[2] < q[2])
        Reached(p) == /\ \A b \in 1..p[1] : ~Bad(b)
                      /\ ~\E q \in At : Before(q, p) /\ Must(q)
    IN IF in = Failed \/ in.kind # "dir" \/ name = RunOn THEN {Failed}
       ELSE {block[p[1]][p[2]].inum : p \in {q \in At : Reached(q) /\ May(q)}}
            \cup (IF \E p \in At : Reached(p) /\ Must(p) THEN {} ELSE {Failed})

\* A path is the sequence of its components, "/" the empty one.  The inode that
\* is read for number 0 is taken not to be a directory.
pathname_lookup(path) ==
    LET dirNum[k \in 0..Len(path)] ==
            IF k = 0 THEN {Root}
            ELSE UNION {IF d \in {Failed, 0} THEN {Failed}
                        ELSE directory_findname(d, path[k]) : d \in dirNum[k - 1]}
    IN dirNum[Len(path)]

\* A checksum tells contents apart, so it stands for them.
chksumfile_byinumber(i) ==
    LET in == inode_iget(i)
        block == [b \in 1..Blocks(in.size) |-> file_getblock(i, b - 1)]
    IN IF i = 0 THEN {Failed, Garbage}
       ELSE IF in = Failed THEN {Failed}
       ELSE IF ~in.alloc \/ \E b \in DOMAIN block : block[b] = Failed THEN {Failed}
       ELSE {FlattenSeq(block)}

chksumfile_bypathname(path) ==
    UNION {IF i = Failed THEN {Failed} ELSE chksumfile_byinumber(i)
             : i \in pathname_lookup(path)}

-----------------------------------------------------------------------------
(* diskimageaccess.c                                                       *)

\* At most MaxEntries entries; <<>> stands for -1, for which the caller's loop
\* does as little.
GetDirEntries(i) ==
    LET in == inode_iget(i)
        full == (MaxEntries + UnitsPerSector - 1) \div UnitsPerSector
        n == Blocks(in.size)
        block == [b \in 1..(IF n < full THEN n ELSE full) |-> file_getblock(i, b - 1)]
        entries == FlattenSeq(block)
    IN IF in = Failed \/ ~in.alloc \/ in.kind # "dir" THEN <<>>
       ELSE IF \E b \in DOMAIN block : block[b] = Failed THEN <<>>
       ELSE SubSeq(entries, 1, IF Len(entries) < MaxEntries THEN Len(entries)
                               ELSE MaxEntries)

\* The string that starts at the k-th name of entries.
Texts(entries, k) ==
    LET name == entries[k].name
    IN IF name \notin LongNames THEN {name}
       ELSE IF k = Len(entries) THEN {name, RunOn}
       ELSE IF LowByteZero(entries[k + 1].inum) THEN {name} ELSE {RunOn}

Call(path, inum) == [path |-> path, inum |-> inum, entries |-> <<>>, i |-> 1]
InodeLine(i, data) == [by |-> "inode", path |-> <<>>, inum |-> i, data |-> data]
PathLine(path, i, data) == [by |-> "path", path |-> path, inum |-> i, data |-> data]

Init ==
    /\ image \in Images /\ bad \in BadSectors /\ command \in Commands
    /\ pc = "start" /\ inumber = 1 /\ stack = <<>> /\ lines = <<>>

\* What main does when it is through with -i.
ThenPaths ==
    IF "p" \in command.flags
    THEN pc' = "enter" /\ stack' = <<Call(<<>>, Root)>>
    ELSE pc' = "done" /\ stack' = <<>>

\* The command line, diskimg_open and unixfilesystem_init.
MainFails ==
    /\ pc = "start"
    /\ \/ command.disks # 1
       \/ diskimg_readsector(Boot) \in {Failed, FALSE}
       \/ diskimg_readsector(Super) = Failed
    /\ pc' = "failed"
    /\ UNCHANGED <<world, inumber, stack, lines>>

Main ==
    /\ pc = "start" /\ command.disks = 1
    /\ diskimg_readsector(Boot) \notin {Failed, FALSE}
    /\ diskimg_readsector(Super) # Failed
    /\ IF "i" \in command.flags THEN pc' = "inodes" /\ UNCHANGED stack ELSE ThenPaths
    /\ UNCHANGED <<world, inumber, lines>>

\* DumpInodeChecksum, for one inode number; an inode that cannot be read ends it.
InodesEnd ==
    /\ pc = "inodes"
    /\ inumber < InodeSectors * InodesPerSector => inode_iget(inumber) = Failed
    /\ ThenPaths
    /\ UNCHANGED <<world, inumber, lines>>

InodeStep ==
    /\ pc = "inodes" /\ inumber < InodeSectors * InodesPerSector
    /\ inode_iget(inumber) # Failed
    /\ \E data \in IF inode_iget(inumber).alloc THEN chksumfile_byinumber(inumber)
                   ELSE {Failed} :
          lines' = IF data = Failed THEN lines
                   ELSE Append(lines, InodeLine(inumber, data))
    /\ inumber' = inumber + 1
    /\ UNCHANGED <<world, pc, stack>>

\* DumpPathAndChildren returns.
Return ==
    /\ stack' = Front(stack)
    /\ pc' = IF Len(stack) = 1 THEN "done" ELSE "loop"

Top == Last(stack)

\* A call for which the stack has no room.
Overflow ==
    /\ pc = "enter" /\ Len(stack) > MaxFrames
    /\ pc' = "crashed"
    /\ UNCHANGED <<world, inumber, stack, lines>>

\* A call for inode 0, which an entry that was removed still names: what is read
\* may or may not look allocated, and be the same twice.
DumpGarbage ==
    /\ pc = "enter" /\ Len(stack) <= MaxFrames /\ Top.inum = 0
    /\ \/ pc' = "aborted" /\ UNCHANGED <<stack, lines>>
       \/ /\ Return
          /\ lines' \in {lines, Append(lines, PathLine(Top.path, 0, Garbage))}
    /\ UNCHANGED <<world, inumber>>

\* The body of DumpPathAndChildren up to its loop.  Only a line that was printed
\* is followed by the directory's entries.
DumpPath ==
    /\ pc = "enter" /\ Len(stack) <= MaxFrames /\ Top.inum # 0
    /\ LET in == inode_iget(Top.inum)
       IN IF in = Failed THEN Return /\ UNCHANGED lines
          ELSE IF ~in.alloc THEN pc' = "aborted" /\ UNCHANGED <<stack, lines>>
          ELSE \E one \in chksumfile_byinumber(Top.inum),
                  two \in chksumfile_bypathname(Top.path) :
               IF Failed \in {one, two} \/ one # two THEN Return /\ UNCHANGED lines
               ELSE /\ lines' = Append(lines, PathLine(Top.path, Top.inum, two))
                    /\ IF in.kind = "dir"
                       THEN /\ stack' = [stack EXCEPT ![Len(stack)].entries =
                                             GetDirEntries(Top.inum)]
                            /\ pc' = "loop"
                       ELSE Return
    /\ UNCHANGED <<world, inumber>>

\* Mutant: the parent directory is not left out.
SkippedSelf(name) == name = "."

Skipped(name) == name \in {".", ".."}

\* A turn of its loop.
DumpChild ==
    /\ pc = "loop" /\ Top.i <= Len(Top.entries)
    /\ LET next == [stack EXCEPT ![Len(stack)].i = @ + 1]
           entry == Top.entries[Top.i]
       IN IF Skipped(entry.name) THEN stack' = next /\ UNCHANGED pc
          ELSE /\ \E text \in Texts(Top.entries, Top.i) :
                     stack' = Append(next, Call(Append(Top.path, text), entry.inum))
               /\ pc' = "enter"
    /\ UNCHANGED <<world, inumber, lines>>

DumpReturn ==
    /\ pc = "loop" /\ Top.i > Len(Top.entries)
    /\ Return
    /\ UNCHANGED <<world, inumber, lines>>

Next == \/ MainFails \/ Main \/ InodesEnd \/ InodeStep
        \/ Overflow \/ DumpGarbage \/ DumpPath \/ DumpChild \/ DumpReturn

Spec == Init /\ [][Next]_vars

-----------------------------------------------------------------------------
(* What the image says, without its layout.                                *)

Data(i) == image[i].data
IsChild(e) == e.name \notin {".", ".."}

\* The sectors that hold inode i, its tables and its data.
SectorsOf(i) ==
    LET n == Blocks(Size(i))
    IN {<<"inode", (i - 1) \div InodesPerSector>>}
       \cup {DataSector(i, b) : b \in 0..(n - 1)}
       \cup IF ~image[i].large THEN {}
            ELSE {<<"single", i, t>> : t \in {u \in 0..(NumAddrs - 2) : u * AddrsPerSector < n}}
                 \cup {s \in {<<"first", i>>} : (NumAddrs - 1) * AddrsPerSector < n}
                 \cup {<<"second", i, t>> : t \in {u \in 0..(AddrsPerSector - 1) :
                                    (NumAddrs - 1 + u) * AddrsPerSector < n}}
Readable(i) == SectorsOf(i) \cap bad = {}

\* The lines that one of the two dumps has printed.
LinesBy(by) == {lines[k] : k \in {m \in DOMAIN lines : lines[m].by = by}}

\* The inode that directory d has under a name, and the inode a path leads to, by
\* the entries that are in use; 0 if none.
Child(d, name) ==
    LET found == IF d \notin Inodes \/ image[d].kind # "dir" THEN {}
                 ELSE {e \in Range(Data(d)) : Live(e) /\ e.name = name}
    IN IF found = {} THEN 0 ELSE (CHOOSE e \in found : TRUE).inum
Denoted(path) ==
    LET inode[k \in 0..Len(path)] ==
            IF k = 0 THEN Root ELSE Child(inode[k - 1], path[k])
    IN inode[Len(path)]

\* Entries whose name a lookup finds: of a name that has its terminator, and not
\* behind a removed entry of the same name.
Findable(d, k) ==
    LET e == Data(d)[k]
    IN /\ Live(e) /\ IsChild(e) /\ e.name \notin LongNames
       /\ \A j \in 1..(k - 1) : Data(d)[j].name # e.name

\* The inode numbers the n-th call on the stack can be about.
Level[n \in 0..MaxFrames] ==
    IF n = 0 THEN {Root}
    ELSE UNION {{e.inum : e \in {f \in Range(Data(d)) : IsChild(f)}}
                : d \in {i \in Level[n - 1] \cap Inodes : image[i].kind = "dir"}}

-----------------------------------------------------------------------------
(* Properties.                                                             *)

\* -i prints every allocated inode that can be read, in order and with all of
\* its contents, whatever tables its blocks are found through, up to a sector of
\* inodes that cannot be read; but not the last inode of the disk, at which the
\* loop ends (diskimageaccess.c:90 speaks of all of them).
InodesListed ==
    LET Listed == {i \in Inodes :
                      /\ i < InodeSectors * InodesPerSector /\ Readable(i)
                      /\ \A k \in 1..i : inode_iget(k) # Failed}
    IN "i" \in command.flags /\ pc \notin {"start", "inodes", "failed"}
       => /\ LinesBy("inode") = {InodeLine(i, Data(i)) : i \in Listed}
          /\ \A j, k \in DOMAIN lines :
                j < k /\ lines[j].by = "inode" /\ lines[k].by = "inode"
                => lines[j].inum < lines[k].inum

\* What -p prints is true, and nothing twice: the path leads to that inode by
\* the entries in use, and the contents are the inode's.  When it ends it has
\* printed the root and, of every directory it printed, each of the first
\* MaxEntries entries that can be read and that a lookup finds (in a path with
\* a name of 14 characters it is chance what a lookup finds).
PathsTrue ==
    \A l \in LinesBy("path") : l.inum # 0 =>
        l.inum = Denoted(l.path) /\ l.data = Data(l.inum)
NothingTwice ==
    \A m, n \in DOMAIN lines : lines[m] = lines[n] /\ lines[m].inum # 0 => m = n
ChildListed(l, k) ==
    LET e == Data(l.inum)[k]
    IN k <= MaxEntries /\ Findable(l.inum, k) /\ Readable(e.inum) =>
       PathLine(Append(l.path, e.name), e.inum, Data(e.inum)) \in LinesBy("path")
TreeListed ==
    /\ Readable(Root) => PathLine(<<>>, Root, Data(Root)) \in LinesBy("path")
    /\ \A l \in LinesBy("path") :
          /\ l.inum # 0 /\ image[l.inum].kind = "dir"
          /\ Range(l.path) \cap LongNames = {}
          => \A k \in 1..Size(l.inum) : ChildListed(l, k)
PathsListed ==
    /\ PathsTrue /\ NothingTwice
    /\ "p" \in command.flags /\ pc = "done" => TreeListed

\* The assertion on the inode fails only for an entry that was removed, and the
\* stack overflows only in a tree that is too deep: the walk does not go in
\* circles through "." and "..".
FailsOnlyOn ==
    /\ pc = "aborted" => \E d \in Inodes :
           image[d].kind = "dir" /\ \E e \in Range(Data(d)) : ~Live(e)
    /\ pc = "crashed" => Level[MaxFrames] # {}
=============================================================================
