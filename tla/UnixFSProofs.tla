---------------------------- MODULE UnixFSProofs ----------------------------
(***************************************************************************)
(* Proofs about UnixFS for every disk that is well formed: any tree of any *)
(* files, any sizes of inodes, sectors and tables, any sectors unreadable. *)
(*                                                                         *)
(* The argument.  First the disk, without steps: a layer that succeeds     *)
(* reads back what Layout has put there, and fails only on a sector of the *)
(* inode that is unreadable (InodeFound, SectorFound, BlockFound,          *)
(* Contents), and a lookup in a directory finds the entry in use that has  *)
(* the name, and so does a lookup of a path (NameFound).                   *)
(* Then the walk.  Each call that goes through its entries is about the    *)
(* directory its path leads to (OpenedInv), and the calls are a path of    *)
(* the tree (StackInv, LevelInv); so a line says what the image has        *)
(* (LineInv).  A line below a call is below an entry the call has taken    *)
(* up, so nothing is printed twice (OnceInv); every entry taken up that    *)
(* could be printed has been, but for the one a call is at (ListedInv,     *)
(* RootInv).  What -i prints grows with the loop variable (InodeInv).      *)
(*                                                                         *)
(* A fact about all sequences or numbers is proved for the set of those    *)
(* for which it fails, which has no least element.                         *)
(***************************************************************************)
EXTENDS UnixFS, SequenceTheorems, WellFoundedInduction, TLAPS

-----------------------------------------------------------------------------
(* The inductive invariant.                                                *)

Names == {u.name : u \in Units} \cup {RunOn}
Frames == [path : Seq(Names), inum : Nat, entries : Seq(Units), i : Nat \ {0}]
Lines == [by : {"inode", "path"}, path : Seq(Names), inum : Nat,
          data : Seq(Units) \cup {Garbage}]
Walking == pc \in {"enter", "loop"}

TypeInv ==
    /\ image \in Images
    /\ pc \in {"start", "inodes", "enter", "loop", "done", "failed", "aborted", "crashed"}
    /\ inumber \in Nat \ {0}
    /\ stack \in Seq(Frames) /\ lines \in Seq(Lines)

\* The entries of a directory that there is room for.
EntriesOf(d) == SubSeq(Data(d), 1, IF Size(d) < MaxEntries THEN Size(d) ELSE MaxEntries)

\* A path whose names all have their terminator.
Clean(path) == Range(path) \cap LongNames = {}

\* A call that goes through the entries of its directory: it has printed its line,
\* and what it looked up was that directory.
Opened(k) == k \in 1..Len(stack) /\ (k < Len(stack) \/ pc = "loop")
OpenedFrame(f) ==
    /\ f.inum \in Inodes /\ image[f.inum].kind = "dir" /\ Readable(f.inum)
    /\ f.entries = EntriesOf(f.inum) /\ f.i <= Len(f.entries) + 1
    /\ f.inum = Denoted(f.path)
    /\ Clean(f.path) => pathname_lookup(f.path) = {f.inum}
OpenedInv ==
    Walking => \A k \in 1..Len(stack) : Opened(k) =>
       /\ OpenedFrame(stack[k])
       /\ PathLine(stack[k].path, stack[k].inum, Data(stack[k].inum)) \in LinesBy("path")

\* The first call is about the root, and every other about the last entry that the
\* call below it has taken up.
LastOf(f) == f.entries[f.i - 1]
CalledBy(g, f) ==
    /\ f.i > 1 /\ IsChild(LastOf(f)) /\ g.inum = LastOf(f).inum
    /\ \E t \in Texts(f.entries, f.i - 1) : g.path = Append(f.path, t)
StackInv ==
    /\ pc \in {"start", "inodes", "done"} => stack = <<>>
    /\ Walking =>
         /\ stack # <<>> /\ stack[1].path = <<>> /\ stack[1].inum = Root
         /\ Len(stack) <= MaxFrames + 1 /\ (pc = "loop" => Len(stack) <= MaxFrames)
         /\ pc = "enter" => stack[Len(stack)].i = 1 /\ stack[Len(stack)].entries = <<>>
         /\ \A k \in 1..(Len(stack) - 1) : CalledBy(stack[k + 1], stack[k])
         /\ \A k \in 1..Len(stack) :
               /\ Len(stack[k].path) = k - 1
               /\ \A m \in k..Len(stack) : \A j \in 1..(k - 1) :
                     stack[m].path[j] = stack[k].path[j]

\* How deep the calls are in the tree.
LevelInv == Walking => \A k \in 1..Len(stack) : stack[k].inum \in Level[k - 1]

\* A line of -p is true of the file it names.
TrueLine(l) == /\ l.inum \in Inodes /\ Readable(l.inum)
               /\ l.inum = Denoted(l.path) /\ l.data = Data(l.inum)
LineInv == \A l \in LinesBy("path") : l.inum # 0 => TrueLine(l)

\* What has been printed below a call that goes through its entries is below an
\* entry it has taken up; and there is nothing below a call that is to begin.
Extends(p, q) == Len(q) <= Len(p) /\ \A j \in 1..Len(q) : p[j] = q[j]
TakenUp(f, name) == \E j \in 1..(f.i - 1) : Live(f.entries[j]) /\ f.entries[j].name = name
OnceInv ==
    Walking => \A l \in LinesBy("path") : \A k \in 1..Len(stack) :
       l.inum # 0 /\ Extends(l.path, stack[k].path) =>
          IF Opened(k) THEN l.path = stack[k].path \/ TakenUp(stack[k], l.path[k])
          ELSE stack[k].inum = 0

\* The first entry that a call is not through with; and what there is of the
\* entries of a directory that has been printed.
Ahead(k) == IF pc = "enter" /\ k = Len(stack) - 1 THEN stack[k].i - 1 ELSE stack[k].i
ListedInv ==
    \A l \in LinesBy("path") :
       l.inum # 0 /\ image[l.inum].kind = "dir" /\ Clean(l.path) =>
          \/ \A e \in 1..Size(l.inum) : ChildListed(l, e)
          \/ pc \in {"aborted", "crashed"}
          \/ /\ Walking
             /\ \E k \in 1..Len(stack) :
                  /\ Opened(k) /\ stack[k].path = l.path /\ stack[k].inum = l.inum
                  /\ \A e \in 1..Size(l.inum) : e < Ahead(k) => ChildListed(l, e)
RootInv ==
    pc = "done" /\ "p" \in command.flags /\ Readable(Root) =>
       PathLine(<<>>, Root, Data(Root)) \in LinesBy("path")

\* -i has printed the inodes up to inumber that can be read, in order, and nothing
\* of -p comes before it has ended.
InOrder ==
    \A j, k \in DOMAIN lines :
       j < k /\ lines[j].by = "inode" /\ lines[k].by = "inode" => lines[j].inum < lines[k].inum
InodeInv ==
    /\ \A k \in DOMAIN lines : lines[k].by = "inode" => lines[k].inum < inumber
    /\ InOrder
    /\ LinesBy("inode") = {InodeLine(i, Data(i)) : i \in {n \in Inodes : n < inumber /\ Readable(n)}}
    /\ inumber <= InodeSectors * InodesPerSector
    /\ \A k \in 1..(inumber - 1) : inode_iget(k) # Failed
    /\ pc \in {"start", "inodes", "failed"} => LinesBy("path") = {}
    /\ pc \notin {"start", "inodes", "failed"} /\ "i" \in command.flags
       /\ inumber < InodeSectors * InodesPerSector => inode_iget(inumber) = Failed

IInv == /\ TypeInv /\ OpenedInv /\ StackInv /\ LevelInv /\ LineInv /\ OnceInv
        /\ NothingTwice /\ ListedInv /\ RootInv /\ InodeInv /\ FailsOnlyOn

-----------------------------------------------------------------------------
(* Induction, in a form that is about sets and thus needs no operator as a *)
(* parameter; and division.                                                *)

\* A set of naturals that is not empty has a least element.
LEMMA LeastElement ==
    ASSUME NEW S, S \subseteq Nat, S # {}
    PROVE  \E n \in S : \A m \in S : n <= m
<1>1. PICK n \in S : \A m \in S : ~ (<<m, n>> \in OpToRel(<, Nat))
  BY WFMin, NatLessThanWellFounded, Zenon
<1>2. \A m \in S : ~ (m < n)
  BY <1>1, Zenon DEF OpToRel
<1> QED
  BY <1>2, SMT

\* A set that has 0, and the successor of each of its naturals, has all of them.
LEMMA SetInduction ==
    ASSUME NEW S, 0 \in S, \A n \in Nat : n \in S => n + 1 \in S
    PROVE  Nat \subseteq S
<1>1. SUFFICES ASSUME NEW b \in Nat, b \notin S PROVE FALSE
  OBVIOUS
<1> DEFINE B == {n \in Nat : n \notin S}
<1>2. PICK m \in B : \A k \in B : m <= k
  BY <1>1, LeastElement
<1>3. m # 0 /\ m - 1 \notin B
  BY <1>2, SMT
<1> QED
  BY <1>2, <1>3, SMT

\* What \div and % are.
LEMMA Division ==
    ASSUME NEW a \in Nat, NEW b \in Nat \ {0}
    PROVE  /\ a \div b \in Nat /\ a % b \in 0..(b - 1)
           /\ a = b * (a \div b) + (a % b)
<1>1. a % b \in 0..(b - 1)
  BY SMT
<1>2. a = b * (a \div b) + (a % b)
  BY SMT
<1>3. a \div b \in Int
  BY SMT
<1>4. a \div b >= 0
  BY SMT
<1> QED
  BY <1>1, <1>2, <1>3, <1>4, SMT

LEMMA DivisionOf ==
    ASSUME NEW q \in Nat, NEW b \in Nat \ {0}, NEW r \in 0..(b - 1)
    PROVE  (b * q + r) \div b = q /\ (b * q + r) % b = r
<1> QED
  BY SMT

LEMMA Products ==
    ASSUME NEW a \in Nat, NEW b \in Nat, NEW c \in Nat
    PROVE  /\ a * b \in Nat /\ a * b = b * a
           /\ (a + 1) * b = a * b + b
           /\ a <= b => c * a <= c * b
           /\ a < b => c * a + c <= c * b
<1> QED
  BY SMT

-----------------------------------------------------------------------------
(* The disk: inodes, tables and the blocks of a file.                      *)

\* The constants are positive.
LEMMA Sizes ==
    /\ InodeSectors \in Nat \ {0} /\ InodesPerSector \in Nat \ {0}
    /\ UnitsPerSector \in Nat \ {0} /\ AddrsPerSector \in Nat \ {0}
    /\ MaxEntries \in Nat \ {0} /\ MaxFrames \in Nat \ {0} /\ NumAddrs \in Nat \ {0, 1}
<1> QED
  BY SizesAssumption

\* What is known of the file system on the disk.
LEMMA ImageKnown ==
    ASSUME image \in Images
    PROVE  /\ Root \in Inodes
           /\ \A i \in Inodes :
                /\ i \in 1..(InodeSectors * InodesPerSector)
                /\ image[i].kind \in {"file", "dir", "special"} /\ image[i].large \in BOOLEAN
                /\ Data(i) \in Seq(Units) /\ Size(i) \in Nat
                /\ Blocks(Size(i)) <= IF image[i].large
                                      THEN (NumAddrs - 1 + AddrsPerSector) * AddrsPerSector
                                      ELSE NumAddrs
<1>1. WellFormed(image)
  BY ImagesAssumption
<1>2. \A i \in Inodes : Data(i) \in Seq(Units)
  <2> SUFFICES ASSUME NEW i \in Inodes PROVE Data(i) \in Seq(Units)
    OBVIOUS
  <2>1. Data(i) \in Seq(Range(Data(i)))
    BY <1>1 DEF WellFormed, Inodes, Data
  <2>2. Range(Data(i)) \subseteq Units
    BY DEF Units, Data, Inodes
  <2> QED
    BY <2>1, <2>2
<1> QED
  BY <1>1, <1>2 DEF WellFormed, Inodes, Data, Size

\* What is known of the entries of its directories.
LEMMA EntriesKnown ==
    ASSUME image \in Images, NEW d \in Inodes, image[d].kind = "dir", NEW k \in 1..Size(d)
    PROVE  /\ Data(d)[k].inum \in Inodes \cup {0} /\ Data(d)[k].inum \in Nat
           /\ Data(d)[k].name # RunOn
           /\ \A j \in 1..Size(d) : Live(Data(d)[j]) /\ Live(Data(d)[k])
                                    /\ Data(d)[j].name = Data(d)[k].name => j = k
<1>1. WellFormed(image)
  BY ImagesAssumption
<1>2. Data(d) \in Seq(Units) /\ Inodes \subseteq Nat
  BY ImageKnown
<1>3. k \in DOMAIN Data(d) /\ Data(d)[k] \in Range(Data(d))
  BY <1>2 DEF Size, Data, Range
<1>4. \A e \in Range(Data(d)) : e.inum \in Inodes \cup {0} /\ e.name # RunOn
  BY <1>1 DEF WellFormed, Inodes, Data
<1>5. \A j \in DOMAIN Data(d) : Live(Data(d)[j]) /\ Live(Data(d)[k])
                                /\ Data(d)[j].name = Data(d)[k].name => j = k
  BY <1>1, <1>3 DEF WellFormed, Inodes, Data
<1>6. DOMAIN Data(d) = 1..Size(d)
  BY <1>2 DEF Size, Data
<1> DEFINE e == Data(d)[k]
<1>7. e.inum \in Inodes \cup {0} /\ e.name # RunOn
  BY <1>3, <1>4
<1> HIDE DEF e
<1>8. e.inum \in Nat
  <2>1. 0 \in Nat /\ \A i \in Inodes : i \in Nat
    BY <1>2
  <2> QED
    BY <2>1, <1>7, Zenon
<1>9. \A j \in 1..Size(d) : Live(Data(d)[j]) /\ Live(Data(d)[k])
                            /\ Data(d)[j].name = Data(d)[k].name => j = k
  BY <1>5, <1>6, Zenon
<1> QED
  BY <1>7, <1>8, <1>9 DEF e

\* How many blocks there are.
LEMMA BlocksKnown ==
    ASSUME NEW n \in Nat
    PROVE  /\ Blocks(n) \in Nat /\ Blocks(n) * UnitsPerSector >= n
           /\ \A b \in Nat : b < Blocks(n) <=> b * UnitsPerSector < n
           /\ n = 0 => Blocks(n) = 0
<1> DEFINE U == UnitsPerSector
           q == (n + U - 1) \div U
           r == (n + U - 1) % U
<1>1. U \in Nat \ {0}
  BY Sizes
<1>2. n + U - 1 \in Nat
  BY <1>1
<1>3. q \in Nat /\ r \in 0..(U - 1) /\ n + U - 1 = U * q + r
  BY <1>1, <1>2, Division
<1> HIDE DEF U, q, r
<1>4. q * U \in Nat /\ U * q = q * U
  BY <1>1, <1>3, Products
<1>5. q * U >= n /\ q * U < n + U
  BY <1>1, <1>3, <1>4, SMT
<1>6. \A b \in Nat : b < q => b * U < n
  <2> SUFFICES ASSUME NEW b \in Nat, b < q PROVE b * U < n
    OBVIOUS
  <2>1. U * b + U <= U * q /\ b * U = U * b /\ b * U \in Nat
    BY <1>1, <1>3, Products
  <2> QED
    BY <2>1, <1>1, <1>4, <1>5, SMT
<1>7. \A b \in Nat : b >= q => b * U >= n
  <2> SUFFICES ASSUME NEW b \in Nat, q <= b PROVE b * U >= n
    BY <1>3
  <2>1. U * q <= U * b /\ b * U = U * b /\ b * U \in Nat
    BY <1>1, <1>3, Products
  <2> QED
    BY <2>1, <1>1, <1>4, <1>5, SMT
<1>8. n = 0 => q = 0
  BY <1>3, <1>6, <1>1, SMT
<1> QED
  BY <1>1, <1>3, <1>5, <1>6, <1>7, <1>8 DEF Blocks, U, q

\* What is in the sectors, and that none of it is -1.
LEMMA SectorsHold ==
    ASSUME image \in Images, NEW i \in Nat, NEW t \in Nat
    PROVE  /\ Layout(<<"inode", i>>) = [k \in 0..(InodesPerSector - 1) |->
                                          InodeOnDisk(i * InodesPerSector + k + 1)]
           /\ Layout(DataSector(i, t)) = [k \in 1..UnitsPerSector |->
                                            Unit(i, t * UnitsPerSector + k)]
           /\ Layout(<<"single", i, t>>) = Table(i, t)
           /\ Layout(<<"first", i>>) = [k \in 0..(AddrsPerSector - 1) |-> <<"second", i, k>>]
           /\ Layout(<<"second", i, t>>) = Table(i, NumAddrs - 1 + t)
<1>1. <<"inode", i>> # Boot /\ <<"inode", i>> # Super /\ <<"inode", i>>[1] = "inode"
      /\ <<"inode", i>>[2] = i
  BY DEF Boot, Super
<1>2. DataSector(i, t) # Boot /\ DataSector(i, t) # Super /\ DataSector(i, t)[1] = "data"
      /\ DataSector(i, t)[2] = i /\ DataSector(i, t)[3] = t
  BY DEF Boot, Super, DataSector
<1>3. <<"single", i, t>> # Boot /\ <<"single", i, t>> # Super /\ <<"single", i, t>>[1] = "single"
      /\ <<"single", i, t>>[2] = i /\ <<"single", i, t>>[3] = t
  BY DEF Boot, Super
<1>4. <<"first", i>> # Boot /\ <<"first", i>> # Super /\ <<"first", i>>[1] = "first"
      /\ <<"first", i>>[2] = i
  BY DEF Boot, Super
<1>5. <<"second", i, t>> # Boot /\ <<"second", i, t>> # Super /\ <<"second", i, t>>[1] = "second"
      /\ <<"second", i, t>>[2] = i /\ <<"second", i, t>>[3] = t
  BY DEF Boot, Super
<1>6. /\ "inode" # "data" /\ "inode" # "single" /\ "inode" # "first" /\ "inode" # "second"
      /\ "data" # "single" /\ "data" # "first" /\ "data" # "second"
      /\ "single" # "first" /\ "single" # "second" /\ "first" # "second"
  OBVIOUS
<1> QED
  <2>1. Layout(<<"inode", i>>) = [k \in 0..(InodesPerSector - 1) |->
                                          InodeOnDisk(i * InodesPerSector + k + 1)]
    BY <1>1, <1>6 DEF Layout
  <2>2. Layout(DataSector(i, t)) = [k \in 1..UnitsPerSector |->
                                            Unit(i, t * UnitsPerSector + k)]
    BY <1>2, <1>6 DEF Layout
  <2>3. Layout(<<"single", i, t>>) = Table(i, t)
    BY <1>3, <1>6 DEF Layout
  <2>4. Layout(<<"first", i>>) = [k \in 0..(AddrsPerSector - 1) |-> <<"second", i, k>>]
    BY <1>4, <1>6 DEF Layout
  <2>5. Layout(<<"second", i, t>>) = Table(i, NumAddrs - 1 + t)
    BY <1>5, <1>6 DEF Layout
  <2> QED
    BY <2>1, <2>2, <2>3, <2>4, <2>5

\* What is at a place of the disk that can be read.
InodeSector(i) == <<"inode", (i - 1) \div InodesPerSector>>
TablesOf(i, b) ==
    IF ~image[i].large THEN {}
    ELSE IF b < (NumAddrs - 1) * AddrsPerSector
    THEN {<<"single", i, b \div AddrsPerSector>>}
    ELSE {<<"first", i>>, <<"second", i, (b - (NumAddrs - 1) * AddrsPerSector) \div AddrsPerSector>>}
BlockEnd(i, b) == IF b * UnitsPerSector + UnitsPerSector < Size(i)
                  THEN b * UnitsPerSector + UnitsPerSector ELSE Size(i)
BlockOf(i, b) == SubSeq(Data(i), b * UnitsPerSector + 1, BlockEnd(i, b))

\* An inode has the type of one, and is not -1.
LEMMA InodeType ==
    ASSUME image \in Images, NEW i \in Nat
    PROVE  InodeOnDisk(i) \in InodeRecords
<1>1. \A k \in 0..(NumAddrs - 1) : /\ Boot \in SectorNumbers
                                   /\ DataSector(i, k) \in SectorNumbers
                                   /\ <<"single", i, k>> \in SectorNumbers
                                   /\ <<"first", i>> \in SectorNumbers
  BY Sizes DEF SectorNumbers, DataSector
<1>2. CASE i \notin Inodes
  <2>1. InodeOnDisk(i) = [alloc |-> FALSE, kind |-> "file", large |-> FALSE, size |-> 0,
                          addr |-> [k \in 0..(NumAddrs - 1) |-> Boot]]
    BY <1>2 DEF InodeOnDisk
  <2>2. [k \in 0..(NumAddrs - 1) |-> Boot] \in [0..(NumAddrs - 1) -> SectorNumbers]
    BY <1>1
  <2> QED
    BY <2>1, <2>2 DEF InodeRecords
<1>3. CASE i \in Inodes
  <2> DEFINE addr == [k \in 0..(NumAddrs - 1) |->
                      IF ~image[i].large
                      THEN IF k < Blocks(Size(i)) THEN DataSector(i, k) ELSE Boot
                      ELSE IF k < NumAddrs - 1 THEN <<"single", i, k>>
                      ELSE <<"first", i>>]
  <2>1. InodeOnDisk(i) = [alloc |-> TRUE, kind |-> image[i].kind, large |-> image[i].large,
                          size |-> Size(i), addr |-> addr]
    BY <1>3 DEF InodeOnDisk
  <2>2. addr \in [0..(NumAddrs - 1) -> SectorNumbers]
    BY <1>1
  <2> HIDE DEF addr
  <2>3. image[i].kind \in {"file", "dir", "special"} /\ image[i].large \in BOOLEAN
        /\ Size(i) \in Nat
    BY <1>3, ImageKnown
  <2> QED
    BY <2>1, <2>2, <2>3 DEF InodeRecords
<1> QED
  BY <1>2, <1>3

\* inode_iget finds the inode, if its sector can be read.
LEMMA InodeFound ==
    ASSUME image \in Images, NEW i \in Nat \ {0}
    PROVE  /\ InodeSector(i) \in bad => inode_iget(i) = Failed
           /\ InodeSector(i) \notin bad => inode_iget(i) = InodeOnDisk(i)
           /\ InodeOnDisk(i) # Failed
<1> DEFINE P == InodesPerSector
           q == (i - 1) \div P
           r == (i - 1) % P
           buf == [k \in 0..(P - 1) |-> InodeOnDisk(q * P + k + 1)]
<1>1. P \in Nat \ {0} /\ i - 1 \in Nat
  BY Sizes
<1>2. q \in Nat /\ r \in 0..(P - 1) /\ i - 1 = P * q + r
  BY <1>1, Division
<1>3. q * P \in Nat /\ P * q = q * P
  BY <1>1, <1>2, Products
<1>4. q * P + r + 1 = i
  BY <1>1, <1>2, <1>3
<1>5. Layout(<<"inode", q>>) = buf
  BY <1>2, SectorsHold
<1>6. buf \in [0..(P - 1) -> InodeRecords]
  <2>1. \A k \in 0..(P - 1) : InodeOnDisk(q * P + k + 1) \in InodeRecords
    BY <1>1, <1>3, InodeType
  <2> QED
    BY <2>1
<1>7. buf # Failed /\ InodeOnDisk(i) # Failed
  BY <1>6, InodeType, FailedAssumption
<1>8. buf[r] = InodeOnDisk(i)
  BY <1>2, <1>4
<1> HIDE DEF buf, q, r
<1>9. InodeSector(i) = <<"inode", q>>
  BY DEF InodeSector, q, P
<1>10. inode_iget(i) = IF diskimg_readsector(<<"inode", q>>) = Failed THEN Failed
                       ELSE diskimg_readsector(<<"inode", q>>)[r]
  BY DEF inode_iget, q, r, P
<1> QED
  BY <1>5, <1>7, <1>8, <1>9, <1>10 DEF diskimg_readsector

\* A table has the type of one.
LEMMA TableType ==
    ASSUME NEW i \in Nat, NEW t \in Nat
    PROVE  /\ Table(i, t) \in [0..(AddrsPerSector - 1) -> SectorNumbers]
           /\ [k \in 0..(AddrsPerSector - 1) |-> <<"second", i, k>>]
                \in [0..(AddrsPerSector - 1) -> SectorNumbers]
<1>1. AddrsPerSector \in Nat \ {0}
  BY Sizes
<1>2. \A k \in 0..(AddrsPerSector - 1) : t * AddrsPerSector + k \in Nat
  BY <1>1, Products
<1>3. \A n \in Nat : DataSector(i, n) \in SectorNumbers /\ <<"second", i, n>> \in SectorNumbers
  BY DEF DataSector, SectorNumbers
<1>4. \A k \in 0..(AddrsPerSector - 1) : /\ DataSector(i, t * AddrsPerSector + k) \in SectorNumbers
                                         /\ <<"second", i, k>> \in SectorNumbers
  <2> SUFFICES ASSUME NEW k \in 0..(AddrsPerSector - 1)
               PROVE  /\ DataSector(i, t * AddrsPerSector + k) \in SectorNumbers
                      /\ <<"second", i, k>> \in SectorNumbers
    OBVIOUS
  <2> DEFINE n == t * AddrsPerSector + k
  <2>1. n \in Nat /\ k \in Nat
    BY <1>1, <1>2
  <2> HIDE DEF n
  <2>2. DataSector(i, n) \in SectorNumbers /\ <<"second", i, k>> \in SectorNumbers
    BY <2>1, <1>3
  <2> QED
    BY <2>2 DEF n
<1> QED
  BY <1>4 DEF Table

\* inode_indexlookup finds the sector of a block, if the tables can be read.
LEMMA SectorFound ==
    ASSUME image \in Images, NEW i \in Inodes, NEW b \in Nat, b < Blocks(Size(i))
    PROVE  /\ TablesOf(i, b) \cap bad = {}
                 => inode_indexlookup(InodeOnDisk(i), b) = DataSector(i, b)
           /\ TablesOf(i, b) \cap bad # {} => inode_indexlookup(InodeOnDisk(i), b) = Failed
           /\ DataSector(i, b) # Failed
<1> DEFINE A == AddrsPerSector
           last == NumAddrs - 1
           in == InodeOnDisk(i)
<1>1. i \in Nat /\ A \in Nat \ {0} /\ NumAddrs \in Nat \ {0, 1} /\ last \in Nat \ {0}
      /\ image[i].large \in BOOLEAN /\ Size(i) \in Nat
      /\ Blocks(Size(i)) <= IF image[i].large THEN (last + A) * A ELSE NumAddrs
  BY ImageKnown, Sizes
<1>2. in.large = image[i].large
      /\ in.addr = [k \in 0..(NumAddrs - 1) |->
                      IF ~image[i].large
                      THEN IF k < Blocks(Size(i)) THEN DataSector(i, k) ELSE Boot
                      ELSE IF k < NumAddrs - 1 THEN <<"single", i, k>>
                      ELSE <<"first", i>>]
  BY DEF InodeOnDisk
<1>3. DataSector(i, b) \in SectorNumbers
  BY <1>1 DEF DataSector, SectorNumbers
<1>4. DataSector(i, b) # Failed
  BY <1>3, FailedAssumption
<1>5. last * A \in Nat /\ last * A = A * last /\ (last + A) * A = last * A + A * A /\ A * A \in Nat
  <2>1. last * A \in Nat /\ last * A = A * last /\ A * A \in Nat
    BY <1>1, Products
  <2>2. (last + A) * A = last * A + A * A
    BY <1>1, SMT
  <2> QED
    BY <2>1, <2>2
<1>6. CASE ~image[i].large
  <2>1. TablesOf(i, b) = {}
    BY <1>6 DEF TablesOf
  <2>2. inode_indexlookup(in, b) = in.addr[b]
    BY <1>2, <1>6 DEF inode_indexlookup
  <2>3. b \in 0..(NumAddrs - 1)
    BY <1>1, <1>6, BlocksKnown
  <2>4. in.addr[b] = DataSector(i, b)
    BY <2>3, <1>2, <1>6
  <2> QED
    BY <2>1, <2>2, <2>4, <1>4
<1>7. CASE image[i].large /\ b < last * A
  <2> DEFINE q == b \div A
             r == b % A
  <2>1. q \in Nat /\ r \in 0..(A - 1) /\ b = A * q + r
    BY <1>1, Division
  <2>2. q < last
    <3>1. SUFFICES ASSUME last <= q PROVE FALSE
      BY <1>1, <2>1
    <3>2. A * last <= A * q
      BY <3>1, <1>1, <2>1, Products
    <3>3. A * q \in Nat
      BY <1>1, <2>1, Products
    <3> QED
      BY <3>2, <3>3, <2>1, <1>1, <1>5, <1>7
  <2>3. TablesOf(i, b) = {<<"single", i, q>>}
    BY <1>7 DEF TablesOf
  <2> DEFINE s == <<"single", i, q>>
  <2>4. q \in 0..(NumAddrs - 1) /\ in.addr[q] = s
    BY <2>1, <2>2, <1>1, <1>2, <1>7
  <2>5. Layout(s) = Table(i, q) /\ Table(i, q) # Failed
    <3> HIDE DEF q
    <3>1. Table(i, q) \in [0..(A - 1) -> SectorNumbers]
      BY <1>1, <2>1, TableType
    <3>2. Layout(s) = Table(i, q)
      BY <1>1, <2>1, SectorsHold
    <3> QED
      BY <3>1, <3>2, FailedAssumption
  <2>6. q * A = A * q /\ q * A \in Nat
    BY <1>1, <2>1, Products
  <2>7. Table(i, q)[r] = DataSector(i, b)
    BY <2>1, <2>6, <1>1 DEF Table
  <2>8. inode_indexlookup(in, b) = IF diskimg_readsector(in.addr[q]) = Failed THEN Failed
                                   ELSE diskimg_readsector(in.addr[q])[r]
    BY <1>2, <1>7 DEF inode_indexlookup
  <2> HIDE DEF q, r
  <2> QED
    BY <2>3, <2>4, <2>5, <2>7, <2>8, <1>4 DEF diskimg_readsector
<1>8. CASE image[i].large /\ ~(b < last * A)
  <2> DEFINE at == b - last * A
             q == at \div A
             r == at % A
  <2>1. at \in Nat
    BY <1>5, <1>8
  <2>2. q \in Nat /\ r \in 0..(A - 1) /\ at = A * q + r
    BY <1>1, <2>1, Division
  <2>3. at < A * A
    BY <1>1, <1>5, <1>8, BlocksKnown
  <2>4. q < A
    <3>1. SUFFICES ASSUME A <= q PROVE FALSE
      BY <1>1, <2>2
    <3>2. A * A <= A * q
      BY <3>1, <1>1, <2>2, Products
    <3>3. A * q \in Nat
      BY <1>1, <2>2, Products
    <3> QED
      BY <3>2, <3>3, <2>2, <2>3, <1>5, <1>1
  <2>5. TablesOf(i, b) = {<<"first", i>>, <<"second", i, q>>}
    BY <1>8 DEF TablesOf
  <2> DEFINE f == <<"first", i>>
             s == <<"second", i, q>>
             table == [k \in 0..(A - 1) |-> <<"second", i, k>>]
  <2>6. in.addr[last] = f
    BY <1>1, <1>2, <1>8
  <2>7. Layout(f) = table /\ table # Failed /\ table[q] = s
    <3>1. table \in [0..(A - 1) -> SectorNumbers]
      BY <1>1, TableType
    <3>2. Layout(f) = table
      BY <1>1, SectorsHold
    <3>3. table # Failed
      BY <3>1, FailedAssumption
    <3>4. q \in 0..(A - 1)
      BY <2>2, <2>4, <1>1
    <3> HIDE DEF q
    <3> QED
      BY <3>2, <3>3, <3>4
  <2>8. Layout(s) = Table(i, last + q) /\ Table(i, last + q) # Failed
    <3> HIDE DEF q
    <3>1. last + q \in Nat
      BY <1>1, <2>2
    <3>2. Table(i, last + q) \in [0..(A - 1) -> SectorNumbers]
      BY <1>1, <3>1, TableType
    <3>3. Layout(s) = Table(i, last + q)
      BY <1>1, <2>2, SectorsHold
    <3> QED
      BY <3>2, <3>3, FailedAssumption
  <2>9. (last + q) * A = last * A + A * q
    BY <1>1, <2>2, SMT
  <2>10. Table(i, last + q)[r] = DataSector(i, b)
    <3>1. (last + q) * A + r = b
      BY <2>1, <2>2, <2>9, <1>1, <1>5
    <3>2. Table(i, last + q)[r] = DataSector(i, (last + q) * A + r)
      BY <2>2 DEF Table
    <3> QED
      BY <3>1, <3>2
  <2>11. inode_indexlookup(in, b) =
            LET first == diskimg_readsector(in.addr[last])
                second == IF first = Failed THEN Failed ELSE diskimg_readsector(first[q])
            IN IF second = Failed THEN Failed ELSE second[r]
    BY <1>2, <1>8 DEF inode_indexlookup
  <2> HIDE DEF q, r, table
  <2> QED
    BY <2>5, <2>6, <2>7, <2>8, <2>10, <2>11, <1>4 DEF diskimg_readsector
<1> QED
  BY <1>1, <1>6, <1>7, <1>8

\* A part of a sequence, and when two are the same.
LEMMA PartOf ==
    ASSUME NEW S, NEW s \in Seq(S), NEW m \in Nat, NEW n \in Nat, m <= n, n <= Len(s)
    PROVE  /\ SubSeq(s, m + 1, n) \in Seq(S) /\ Len(SubSeq(s, m + 1, n)) = n - m
           /\ \A k \in 1..(n - m) : SubSeq(s, m + 1, n)[k] = s[m + k]
<1> QED
  OBVIOUS

LEMMA SameSeq ==
    ASSUME NEW S, NEW s \in Seq(S), NEW t \in Seq(S), Len(s) = Len(t),
           \A k \in 1..Len(s) : s[k] = t[k]
    PROVE  s = t
<1> QED
  OBVIOUS

\* A block: where it ends, and what it has.
LEMMA BlockKnown ==
    ASSUME image \in Images, NEW i \in Inodes, NEW b \in Nat, b < Blocks(Size(i))
    PROVE  /\ b * UnitsPerSector \in Nat /\ BlockEnd(i, b) \in Nat
           /\ b * UnitsPerSector < BlockEnd(i, b) /\ BlockEnd(i, b) <= Size(i)
           /\ BlockEnd(i, b) - b * UnitsPerSector = ValidUnitsOf(Size(i), b)
           /\ BlockEnd(i, b) <= b * UnitsPerSector + UnitsPerSector
           /\ BlockOf(i, b) \in Seq(Units) /\ BlockOf(i, b) # Failed
           /\ Len(BlockOf(i, b)) = BlockEnd(i, b) - b * UnitsPerSector
           /\ \A k \in 1..Len(BlockOf(i, b)) :
                 BlockOf(i, b)[k] = Data(i)[b * UnitsPerSector + k]
<1> DEFINE U == UnitsPerSector
           at == b * U
           n == Size(i)
<1>1. U \in Nat \ {0} /\ n \in Nat /\ Data(i) \in Seq(Units) /\ n = Len(Data(i))
  BY ImageKnown, Sizes DEF Size, Data
<1>2. at \in Nat /\ at = U * b /\ at < n
  BY <1>1, Products, BlocksKnown
<1>3. BlockEnd(i, b) = IF at + U < n THEN at + U ELSE n
  BY DEF BlockEnd
<1>4. BlockEnd(i, b) - at = ValidUnitsOf(n, b)
  <2> DEFINE q == n \div U
             r == n % U
  <2>1. q \in Nat /\ r \in 0..(U - 1) /\ n = U * q + r
    BY <1>1, Division
  <2>2. ValidUnitsOf(n, b) = IF b = q THEN r ELSE U
    BY DEF ValidUnitsOf
  <2> HIDE DEF q, r, at, n
  <2>3. CASE b = q
    <3>1. n = at + r /\ at \in Nat /\ n \in Nat /\ U \in Nat \ {0} /\ r \in 0..(U - 1)
      BY <2>1, <2>3, <1>1, <1>2
    <3>2. BlockEnd(i, b) = n
      BY <3>1, <1>3
    <3> QED
      BY <3>1, <3>2, <2>2, <2>3
  <2>4. CASE b # q
    <3>1. ~(q < b)
      <4>1. SUFFICES ASSUME q < b PROVE FALSE
        OBVIOUS
      <4>2. U * q + U <= U * b /\ U * q \in Nat
        BY <4>1, <1>1, <2>1, Products
      <4> QED
        BY <4>2, <2>1, <1>1, <1>2
    <3>2. U * b + U <= U * q /\ U * q \in Nat
      BY <3>1, <2>4, <1>1, <2>1, Products
    <3>3. at + U <= n
      BY <3>2, <2>1, <1>1, <1>2
    <3> QED
      BY <3>3, <2>2, <2>4, <1>1, <1>2, <1>3
  <2> QED
    BY <2>3, <2>4
<1> HIDE DEF at, n
<1>5. at < BlockEnd(i, b) /\ BlockEnd(i, b) \in Nat /\ BlockEnd(i, b) <= n /\ BlockEnd(i, b) <= at + U
  BY <1>1, <1>2, <1>3
<1>6. BlockOf(i, b) = SubSeq(Data(i), at + 1, BlockEnd(i, b))
  BY DEF BlockOf, at
<1>7. BlockOf(i, b) \in Seq(Units) /\ Len(BlockOf(i, b)) = BlockEnd(i, b) - at
      /\ \A k \in 1..(BlockEnd(i, b) - at) : BlockOf(i, b)[k] = Data(i)[at + k]
  BY <1>1, <1>2, <1>5, <1>6, PartOf
<1>8. BlockOf(i, b) # Failed
  BY <1>7, FailedAssumption
<1> QED
  BY <1>2, <1>4, <1>5, <1>7, <1>8 DEF at, n

\* file_getblock reads the block, if all sectors on the way to it can be read.
SectorsFor(i, b) == TablesOf(i, b) \cup {DataSector(i, b)}
LEMMA BlockFound ==
    ASSUME image \in Images, NEW i \in Inodes, NEW b \in Nat, b < Blocks(Size(i)),
           InodeSector(i) \notin bad
    PROVE  /\ SectorsFor(i, b) \cap bad = {} => file_getblock(i, b) = BlockOf(i, b)
           /\ SectorsFor(i, b) \cap bad # {} => file_getblock(i, b) = Failed
<1> DEFINE U == UnitsPerSector
           in == InodeOnDisk(i)
           buf == [k \in 1..U |-> Unit(i, b * U + k)]
           s == inode_indexlookup(in, b)
<1>1. i \in Nat \ {0} /\ Size(i) \in Nat /\ U \in Nat \ {0} /\ Data(i) \in Seq(Units)
      /\ Size(i) = Len(Data(i))
  BY ImageKnown, Sizes DEF Size, Data
<1>2. inode_iget(i) = in /\ in # Failed /\ in.size = Size(i)
  BY <1>1, InodeFound DEF InodeOnDisk
<1>3. file_getblock(i, b) =
        LET t == IF s = Failed THEN Failed ELSE diskimg_readsector(s)
        IN IF t = Failed THEN Failed ELSE SubSeq(t, 1, ValidUnitsOf(Size(i), b))
  BY <1>2 DEF file_getblock
<1>4. /\ TablesOf(i, b) \cap bad = {} => s = DataSector(i, b)
      /\ TablesOf(i, b) \cap bad # {} => s = Failed
      /\ DataSector(i, b) # Failed
  BY SectorFound
<1>5. Layout(DataSector(i, b)) = buf
  BY <1>1, SectorsHold
<1>6. buf \in Seq(Units) /\ Len(buf) = U
  <2>1. \A k \in Nat : Unit(i, k) \in Units \/ k = 0
    BY <1>1 DEF Unit, Units, Data, Size
  <2>2. \A k \in 1..U : b * U + k \in Nat \ {0}
    BY <1>1, Products
  <2>3. \A k \in 1..U : Unit(i, b * U + k) \in Units
    <3> SUFFICES ASSUME NEW k \in 1..U PROVE Unit(i, b * U + k) \in Units
      OBVIOUS
    <3> DEFINE m == b * U + k
    <3>1. m \in Nat \ {0}
      BY <2>2
    <3> HIDE DEF m
    <3>2. Unit(i, m) \in Units
      BY <2>1, <3>1
    <3> QED
      BY <3>2 DEF m
  <2> QED
    BY <2>3, <1>1
<1>7. buf # Failed
  BY <1>6, FailedAssumption
<1>8. SubSeq(buf, 1, ValidUnitsOf(Size(i), b)) = BlockOf(i, b)
  <2> DEFINE v == ValidUnitsOf(Size(i), b)
  <2>1. /\ v = BlockEnd(i, b) - b * U /\ b * U \in Nat /\ BlockEnd(i, b) \in Nat
        /\ b * U < BlockEnd(i, b) /\ BlockEnd(i, b) <= Size(i) /\ BlockEnd(i, b) <= b * U + U
        /\ BlockOf(i, b) \in Seq(Units) /\ Len(BlockOf(i, b)) = v
        /\ \A k \in 1..v : BlockOf(i, b)[k] = Data(i)[b * U + k]
    BY BlockKnown
  <2> HIDE DEF v
  <2>2. v \in Nat /\ v <= U
    BY <2>1, <1>1
  <2>3. \A k \in 1..v : buf[k] = Data(i)[b * U + k]
    <3> SUFFICES ASSUME NEW k \in 1..v PROVE buf[k] = Data(i)[b * U + k]
      OBVIOUS
    <3>1. k \in 1..U /\ b * U + k <= Size(i)
      BY <2>1, <2>2, <1>1
    <3>2. buf[k] = Unit(i, b * U + k)
      BY <3>1
    <3> QED
      BY <3>1, <3>2 DEF Unit, Data
  <2> HIDE DEF buf
  <2>4. SubSeq(buf, 1, v) \in Seq(Units) /\ Len(SubSeq(buf, 1, v)) = v
        /\ \A k \in 1..v : SubSeq(buf, 1, v)[k] = buf[k]
    BY <1>6, <2>2
  <2>5. SubSeq(buf, 1, v) = BlockOf(i, b)
    BY <2>1, <2>3, <2>4, SameSeq
  <2> QED
    BY <2>5 DEF v
<1> HIDE DEF buf, s
<1> QED
  BY <1>3, <1>4, <1>5, <1>7, <1>8 DEF SectorsFor, diskimg_readsector

\* A file can be read if its inode can, and so can every block.
LEMMA ReadableMeans ==
    ASSUME image \in Images, NEW i \in Inodes
    PROVE  Readable(i) <=> /\ InodeSector(i) \notin bad
                           /\ \A b \in 0..(Blocks(Size(i)) - 1) : SectorsFor(i, b) \cap bad = {}
<1> DEFINE A == AddrsPerSector
           last == NumAddrs - 1
           n == Blocks(Size(i))
<1>1. i \in Nat /\ A \in Nat \ {0} /\ NumAddrs \in Nat \ {0, 1} /\ last \in Nat \ {0}
      /\ image[i].large \in BOOLEAN /\ Size(i) \in Nat
      /\ n <= IF image[i].large THEN (last + A) * A ELSE NumAddrs
  BY ImageKnown, Sizes
<1>2. n \in Nat
  BY <1>1, BlocksKnown
<1>3. last * A \in Nat /\ last * A = A * last
  BY <1>1, Products
<1>4. (last + A) * A = last * A + A * A /\ A * A \in Nat
  <2>1. A * A \in Nat
    BY <1>1, Products
  <2> QED
    BY <2>1, <1>1, SMT
<1> HIDE DEF n
<1>5. SectorsOf(i) = {InodeSector(i)} \cup {DataSector(i, b) : b \in 0..(n - 1)}
       \cup IF ~image[i].large THEN {}
            ELSE {<<"single", i, t>> : t \in {u \in 0..(last - 1) : u * A < n}}
                 \cup {s \in {<<"first", i>>} : last * A < n}
                 \cup {<<"second", i, t>> : t \in {u \in 0..(A - 1) : (last + u) * A < n}}
  <2>1. NumAddrs - 2 = last - 1
    BY <1>1
  <2> QED
    BY <2>1 DEF SectorsOf, InodeSector, n
<1>6. ASSUME NEW b \in 0..(n - 1) PROVE SectorsFor(i, b) \subseteq SectorsOf(i)
  <2>1. DataSector(i, b) \in SectorsOf(i)
    BY <1>5
  <2>2. CASE ~image[i].large
    BY <2>1, <2>2 DEF SectorsFor, TablesOf
  <2>3. CASE image[i].large /\ b < last * A
    <3> DEFINE q == b \div A
               r == b % A
    <3>1. q \in Nat /\ r \in 0..(A - 1) /\ b = A * q + r
      <4>1. b \in Nat
        BY <1>2
      <4> QED
        BY <4>1, <1>1, Division
    <3>2. A * q \in Nat /\ A * q = q * A
      BY <1>1, <3>1, Products
    <3>3. q < last
      <4>1. SUFFICES ASSUME last <= q PROVE FALSE
        BY <1>1, <3>1
      <4>2. A * last <= A * q
        BY <4>1, <1>1, <3>1, Products
      <4> QED
        BY <4>2, <3>1, <3>2, <1>1, <1>3, <2>3
    <3>4. q * A < n
      BY <3>1, <3>2, <1>1, <1>2
    <3>5. TablesOf(i, b) = {<<"single", i, q>>}
      BY <2>3 DEF TablesOf
    <3> HIDE DEF q, r
    <3>6. q \in {u \in 0..(last - 1) : u * A < n}
      BY <3>1, <3>3, <3>4, <1>1
    <3>7. <<"single", i, q>> \in SectorsOf(i)
      BY <3>6, <1>5, <2>3
    <3> QED
      BY <3>5, <3>7, <2>1 DEF SectorsFor
  <2>4. CASE image[i].large /\ ~(b < last * A)
    <3> DEFINE at == b - last * A
               q == at \div A
               r == at % A
    <3>1. at \in Nat
      BY <1>2, <1>3, <2>4
    <3>2. q \in Nat /\ r \in 0..(A - 1) /\ at = A * q + r
      BY <1>1, <3>1, Division
    <3>3. A * q \in Nat /\ A * q = q * A
      BY <1>1, <3>2, Products
    <3>4. q < A
      <4>1. SUFFICES ASSUME A <= q PROVE FALSE
        BY <1>1, <3>2
      <4>2. A * A <= A * q
        BY <4>1, <1>1, <3>2, Products
      <4> QED
        BY <4>2, <3>2, <3>3, <1>1, <1>2, <1>3, <1>4, <2>4
    <3>5. (last + q) * A = last * A + A * q
      BY <1>1, <3>2, SMT
    <3>6. (last + q) * A < n /\ last * A < n
      BY <3>2, <3>3, <3>5, <1>1, <1>2, <1>3, <2>4
    <3>7. TablesOf(i, b) = {<<"first", i>>, <<"second", i, q>>}
      BY <2>4 DEF TablesOf
    <3> HIDE DEF q, r, at
    <3>8. q \in {u \in 0..(A - 1) : (last + u) * A < n}
      BY <3>2, <3>4, <3>6, <1>1
    <3>9. <<"second", i, q>> \in SectorsOf(i) /\ <<"first", i>> \in SectorsOf(i)
      BY <3>6, <3>8, <1>5, <2>4
    <3> QED
      BY <3>7, <3>9, <2>1 DEF SectorsFor
  <2> QED
    BY <2>2, <2>3, <2>4, <1>1
<1>7. ASSUME NEW s \in SectorsOf(i), s # InodeSector(i)
      PROVE  \E b \in 0..(n - 1) : s \in SectorsFor(i, b)
  <2>1. CASE s \in {DataSector(i, b) : b \in 0..(n - 1)}
    BY <2>1 DEF SectorsFor
  <2>2. CASE image[i].large /\ s \in {<<"single", i, t>> : t \in {u \in 0..(last - 1) : u * A < n}}
    <3>1. PICK t \in 0..(last - 1) : t * A < n /\ s = <<"single", i, t>>
      BY <2>2
    <3> DEFINE b == A * t + 0
    <3>2. t \in Nat /\ A * t = t * A /\ A * t \in Nat /\ b \div A = t
      BY <1>1, <3>1, Products, DivisionOf
    <3>3. A * t + A <= A * last
      BY <1>1, <3>1, <3>2, Products
    <3>4. b \in 0..(n - 1) /\ b < last * A
      BY <3>1, <3>2, <3>3, <1>1, <1>2, <1>3
    <3> HIDE DEF b
    <3>5. s \in TablesOf(i, b)
      BY <3>1, <3>2, <3>4, <2>2 DEF TablesOf
    <3> QED
      BY <3>4, <3>5 DEF SectorsFor
  <2>3. CASE image[i].large /\ s = <<"first", i>> /\ last * A < n
    <3>1. last * A \in 0..(n - 1)
      BY <2>3, <1>2, <1>3
    <3>2. s \in TablesOf(i, last * A)
      BY <2>3, <3>1 DEF TablesOf
    <3> QED
      BY <3>1, <3>2 DEF SectorsFor
  <2>4. CASE image[i].large /\ s \in {<<"second", i, t>> : t \in {u \in 0..(A - 1) : (last + u) * A < n}}
    <3>1. PICK t \in 0..(A - 1) : (last + t) * A < n /\ s = <<"second", i, t>>
      BY <2>4
    <3> DEFINE at == A * t + 0
               b == last * A + at
    <3>2. t \in Nat /\ A * t = t * A /\ A * t \in Nat /\ at \div A = t
      BY <1>1, <3>1, Products, DivisionOf
    <3>3. (last + t) * A = last * A + A * t
      BY <1>1, <3>2, SMT
    <3>4. at \in Nat /\ b \in 0..(n - 1) /\ ~(b < last * A) /\ b - last * A = at
      BY <3>1, <3>2, <3>3, <1>1, <1>2, <1>3
    <3> HIDE DEF at, b
    <3>5. s \in TablesOf(i, b)
      BY <3>1, <3>2, <3>4, <2>4 DEF TablesOf
    <3> QED
      BY <3>4, <3>5 DEF SectorsFor
  <2> QED
    BY <2>1, <2>2, <2>3, <2>4, <1>5, <1>7, <1>1
<1>8. InodeSector(i) \in SectorsOf(i)
  BY <1>5
<1> QED
  BY <1>6, <1>7, <1>8 DEF Readable, n

-----------------------------------------------------------------------------
(* What is read of a file: its blocks, one behind the other.               *)

\* A sequence up to b is the one up to a and the part behind it.
LEMMA Concatenated ==
    ASSUME NEW S, NEW s \in Seq(S), NEW a \in Nat, NEW b \in Nat, a <= b, b <= Len(s)
    PROVE  SubSeq(s, 1, b) = SubSeq(s, 1, a) \o SubSeq(s, a + 1, b)
<1>1. 1 \in 1..(Len(s) + 1) /\ a \in (1 - 1)..Len(s) /\ b \in a..Len(s)
  OBVIOUS
<1> QED
  BY <1>1, ConcatAdjacentSubSeq

\* What FlattenSeq is.
LEMMA FlattenIs ==
    ASSUME NEW n \in Nat \ {0}, NEW parts, Len(parts) = n,
           \E t : t = [i \in 1..n |-> IF i = 1 THEN parts[i] ELSE t[i - 1] \o parts[i]]
    PROVE  \E f : /\ FlattenSeq(parts) = f[n]
                  /\ f = [i \in 1..n |-> IF i = 1 THEN parts[i] ELSE f[i - 1] \o parts[i]]
<1> DEFINE Body(f) == [i \in 1..n |-> IF i = 1 THEN parts[i] ELSE f[i - 1] \o parts[i]]
           flat == CHOOSE f : f = Body(f)
<1>2. FlattenSeq(parts) = flat[n]
  BY DEF FlattenSeq
<1>3. \E t : t = Body(t)
  OBVIOUS
<1> HIDE DEF Body
<1>4. flat = Body(flat)
  BY <1>3, Zenon
<1> HIDE DEF flat
<1> QED
  BY <1>2, <1>4 DEF Body

\* The parts of a sequence, in order, make it up.
LEMMA Flattened ==
    ASSUME NEW S, NEW s \in Seq(S), NEW n \in Nat, NEW parts \in [1..n -> Seq(S)],
           NEW end \in [0..n -> Nat], end[0] = 0,
           \A k \in 1..n : /\ end[k - 1] <= end[k] /\ end[k] <= Len(s)
                           /\ parts[k] = SubSeq(s, end[k - 1] + 1, end[k])
    PROVE  FlattenSeq(parts) = SubSeq(s, 1, end[n])
<1>1. CASE n = 0
  <2>1. parts = <<>> /\ Len(parts) = 0
    BY <1>1
  <2>2. FlattenSeq(parts) = <<>>
    BY <2>1 DEF FlattenSeq
  <2>3. SubSeq(s, 1, 0) = <<>>
    OBVIOUS
  <2> QED
    BY <2>2, <2>3, <1>1
<1>2. CASE n # 0
  <2> DEFINE part == [i \in 1..n |-> SubSeq(s, 1, end[i])]
  <2>1. \A i \in 1..n : end[i] \in Nat /\ end[i] <= Len(s)
    OBVIOUS
  <2>2. ASSUME NEW i \in 1..n, i # 1
        PROVE  SubSeq(s, 1, end[i]) = SubSeq(s, 1, end[i - 1]) \o parts[i]
    <3>1. i - 1 \in 0..n /\ i \in 0..n
      BY <2>2
    <3>2. end[i - 1] \in Nat /\ end[i] \in Nat
      BY <3>1
    <3>3. /\ end[i - 1] <= end[i] /\ end[i] <= Len(s)
          /\ parts[i] = SubSeq(s, end[i - 1] + 1, end[i])
      OBVIOUS
    <3> QED
      BY <3>2, <3>3, Concatenated
  <2>3. parts[1] = SubSeq(s, 1, end[1])
    <3>1. 1 \in 1..n /\ 1 - 1 = 0
      BY <1>2
    <3>2. parts[1] = SubSeq(s, end[1 - 1] + 1, end[1])
      BY <3>1
    <3> QED
      BY <3>1, <3>2
  <2>4. \A i \in 1..n : part[i] = IF i = 1 THEN parts[i] ELSE part[i - 1] \o parts[i]
    <3> SUFFICES ASSUME NEW i \in 1..n
                 PROVE  part[i] = IF i = 1 THEN parts[i] ELSE part[i - 1] \o parts[i]
      OBVIOUS
    <3>1. i # 1 => i - 1 \in 1..n
      OBVIOUS
    <3>2. part[i] = SubSeq(s, 1, end[i]) /\ (i # 1 => part[i - 1] = SubSeq(s, 1, end[i - 1]))
      BY <3>1
    <3> HIDE DEF part
    <3> QED
      BY <3>2, <2>2, <2>3
  <2>5. part = [i \in 1..n |-> part[i]]
    OBVIOUS
  <2> HIDE DEF part
  <2>6. part = [i \in 1..n |-> IF i = 1 THEN parts[i] ELSE part[i - 1] \o parts[i]]
    BY <2>4, <2>5, Zenon
  <2>7. n \in Nat \ {0}
    BY <1>2
  <2>8. PICK flat : /\ FlattenSeq(parts) = flat[n]
                    /\ flat = [i \in 1..n |-> IF i = 1 THEN parts[i] ELSE flat[i - 1] \o parts[i]]
    <3>1. \E f : /\ FlattenSeq(parts) = f[n]
                 /\ f = [i \in 1..n |-> IF i = 1 THEN parts[i] ELSE f[i - 1] \o parts[i]]
      <4>1. Len(parts) = n
        OBVIOUS
      <4>2. \E t : t = [i \in 1..n |-> IF i = 1 THEN parts[i] ELSE t[i - 1] \o parts[i]]
        BY <2>6, Zenon
      <4> QED
        BY <4>1, <4>2, <2>7, FlattenIs, Zenon
    <3> QED
      BY <3>1, Zenon
  <2>9. flat[1] = parts[1]
    BY <2>7, <2>8
  <2>10. \A i \in 1..n : i # 1 => flat[i] = flat[i - 1] \o parts[i]
    BY <2>8
  <2> DEFINE T == {i \in Nat : i + 1 \in 1..n => flat[i + 1] = SubSeq(s, 1, end[i + 1])}
  <2>11. 0 \in T
    <3>1. flat[0 + 1] = SubSeq(s, 1, end[0 + 1])
      BY <2>3, <2>9
    <3> QED
      BY <3>1
  <2>12. ASSUME NEW i \in Nat, i \in T PROVE i + 1 \in T
    <3>1. ASSUME (i + 1) + 1 \in 1..n PROVE flat[(i + 1) + 1] = SubSeq(s, 1, end[(i + 1) + 1])
      <4> DEFINE j == (i + 1) + 1
      <4>1. j \in 1..n /\ j # 1 /\ j - 1 = i + 1 /\ i + 1 \in 1..n
        BY <3>1
      <4>2. flat[i + 1] = SubSeq(s, 1, end[i + 1])
        BY <4>1, <2>12
      <4> HIDE DEF j, T
      <4>3. flat[j] = flat[j - 1] \o parts[j]
        BY <4>1, <2>10
      <4>4. SubSeq(s, 1, end[j]) = SubSeq(s, 1, end[j - 1]) \o parts[j]
        BY <4>1, <2>2
      <4>5. flat[j] = SubSeq(s, 1, end[j])
        BY <4>1, <4>2, <4>3, <4>4
      <4> QED
        BY <4>5 DEF j
    <3>2. i + 1 \in Nat
      OBVIOUS
    <3> QED
      BY <3>1, <3>2, Zenon
  <2> HIDE DEF T
  <2>13. Nat \subseteq T
    BY <2>11, <2>12, SetInduction
  <2>14. n - 1 \in T /\ (n - 1) + 1 = n /\ n \in 1..n
    BY <2>13, <1>2
  <2> QED
    BY <2>8, <2>14 DEF T
<1> QED
  BY <1>1, <1>2

\* What the first m blocks hold.
LEMMA BlocksTogether ==
    ASSUME image \in Images, NEW i \in Inodes, NEW m \in Nat, m <= Blocks(Size(i)),
           Readable(i)
    PROVE  LET block == [b \in 1..m |-> file_getblock(i, b - 1)]
               held == IF m * UnitsPerSector < Size(i) THEN m * UnitsPerSector ELSE Size(i)
           IN /\ \A b \in 1..m : block[b] # Failed
              /\ FlattenSeq(block) = SubSeq(Data(i), 1, held)
<1> DEFINE U == UnitsPerSector
           block == [b \in 1..m |-> file_getblock(i, b - 1)]
           n == Size(i)
           end == [b \in 0..m |-> IF b * U < n THEN b * U ELSE n]
<1>1. U \in Nat \ {0} /\ n \in Nat /\ Data(i) \in Seq(Units) /\ n = Len(Data(i))
      /\ Blocks(n) \in Nat
  BY ImageKnown, Sizes, BlocksKnown DEF Size, Data
<1>2. \A b \in 0..m : b * U \in Nat
  BY <1>1, Products
<1>3. ASSUME NEW b \in 1..m
      PROVE  /\ b - 1 \in Nat /\ b - 1 < Blocks(n) /\ (b - 1) * U < n
             /\ b * U = (b - 1) * U + U
             /\ block[b] = BlockOf(i, b - 1) /\ BlockOf(i, b - 1) \in Seq(Units)
             /\ block[b] # Failed
  <2>1. b - 1 \in Nat /\ b - 1 < Blocks(n) /\ b - 1 \in 0..(Blocks(n) - 1)
    BY <1>1
  <2>2. (b - 1) * U < n
    BY <2>1, <1>1, BlocksKnown
  <2>3. ((b - 1) + 1) * U = (b - 1) * U + U /\ (b - 1) + 1 = b
    BY <2>1, <1>1, Products
  <2>4. SectorsFor(i, b - 1) \cap bad = {} /\ InodeSector(i) \notin bad
    BY <2>1, ReadableMeans
  <2>5. file_getblock(i, b - 1) = BlockOf(i, b - 1)
    BY <2>1, <2>4, BlockFound
  <2>6. BlockOf(i, b - 1) \in Seq(Units) /\ BlockOf(i, b - 1) # Failed
    BY <2>1, BlockKnown
  <2> QED
    BY <2>1, <2>2, <2>3, <2>5, <2>6
<1> HIDE DEF n
<1>4. end \in [0..m -> Nat] /\ end[0] = 0
  <2>1. 0 * U = 0
    BY <1>1
  <2> QED
    BY <2>1, <1>1, <1>2
<1>5. ASSUME NEW b \in 1..m
      PROVE  /\ end[b - 1] <= end[b] /\ end[b] <= Len(Data(i))
             /\ block[b] = SubSeq(Data(i), end[b - 1] + 1, end[b])
  <2> DEFINE at == (b - 1) * U
  <2>1. b - 1 \in 0..m /\ b \in 0..m
    OBVIOUS
  <2>2. at \in Nat /\ at < n /\ b * U = at + U
    BY <2>1, <1>2, <1>3
  <2>3. end[b - 1] = at
    BY <2>1, <2>2
  <2>4. end[b] = BlockEnd(i, b - 1)
    BY <2>1, <2>2 DEF BlockEnd, n
  <2>5. end[b] = IF at + U < n THEN at + U ELSE n
    BY <2>1, <2>2
  <2>6. block[b] = SubSeq(Data(i), at + 1, BlockEnd(i, b - 1))
    BY <1>3 DEF BlockOf
  <2> HIDE DEF at, end
  <2> QED
    BY <2>2, <2>3, <2>4, <2>5, <2>6, <1>1
<1>6. block \in [1..m -> Seq(Units)]
  BY <1>3
<1> HIDE DEF block, end
<1>7. FlattenSeq(block) = SubSeq(Data(i), 1, end[m])
  BY <1>1, <1>4, <1>5, <1>6, Flattened
<1>8. end[m] = IF m * U < n THEN m * U ELSE n
  BY DEF end
<1> QED
  BY <1>3, <1>7, <1>8 DEF block, n

LEMMA FirstOf ==
    ASSUME NEW S, NEW s \in Seq(S), NEW a \in Nat, NEW b \in Nat, b <= a, a <= Len(s)
    PROVE  /\ SubSeq(s, 1, a) \in Seq(S) /\ Len(SubSeq(s, 1, a)) = a
           /\ \A k \in 1..a : SubSeq(s, 1, a)[k] = s[k]
           /\ SubSeq(SubSeq(s, 1, a), 1, b) = SubSeq(s, 1, b)
           /\ a = Len(s) => SubSeq(s, 1, a) = s
<1> DEFINE t == SubSeq(s, 1, a)
           u == SubSeq(t, 1, b)
           v == SubSeq(s, 1, b)
<1>1. t \in Seq(S) /\ Len(t) = a /\ \A k \in 1..a : t[k] = s[k]
  OBVIOUS
<1>2. v \in Seq(S) /\ Len(v) = b /\ \A k \in 1..b : v[k] = s[k]
  OBVIOUS
<1> HIDE DEF t, v
<1>3. u \in Seq(S) /\ Len(u) = b /\ \A k \in 1..b : u[k] = t[k]
  BY <1>1
<1> HIDE DEF u
<1>4. \A k \in 1..b : u[k] = v[k]
  BY <1>1, <1>2, <1>3
<1>5. u = v
  BY <1>2, <1>3, <1>4, SameSeq
<1>6. a = Len(s) => t = s
  BY <1>1, SameSeq
<1> QED
  BY <1>1, <1>5, <1>6 DEF t, u, v

\* chksumfile_byinumber reads a file that can be read, and fails on every other.
LEMMA Contents ==
    ASSUME image \in Images, NEW i \in Nat \ {0}
    PROVE  chksumfile_byinumber(i) = IF i \in Inodes /\ Readable(i) THEN {Data(i)} ELSE {Failed}
<1> DEFINE in == InodeOnDisk(i)
           block(n) == [b \in 1..Blocks(n) |-> file_getblock(i, b - 1)]
<1>1. /\ InodeSector(i) \in bad => inode_iget(i) = Failed
      /\ InodeSector(i) \notin bad => inode_iget(i) = in
      /\ in # Failed
  BY InodeFound
<1>2. chksumfile_byinumber(i) =
        IF inode_iget(i) = Failed THEN {Failed}
        ELSE IF ~inode_iget(i).alloc \/ \E b \in DOMAIN block(inode_iget(i).size) :
                                            block(inode_iget(i).size)[b] = Failed THEN {Failed}
             ELSE {FlattenSeq(block(inode_iget(i).size))}
  BY DEF chksumfile_byinumber
<1> HIDE DEF block
<1>3. CASE InodeSector(i) \in bad
  <2>1. i \in Inodes => ~Readable(i)
    BY <1>3, ReadableMeans
  <2> QED
    BY <2>1, <1>1, <1>2, <1>3
<1>4. CASE InodeSector(i) \notin bad /\ i \notin Inodes
  <2>1. ~in.alloc
    BY <1>4 DEF InodeOnDisk
  <2> QED
    BY <2>1, <1>1, <1>2, <1>4
<1>5. CASE InodeSector(i) \notin bad /\ i \in Inodes
  <2> DEFINE n == Blocks(Size(i))
  <2>1. in.alloc /\ in.size = Size(i)
    BY <1>5 DEF InodeOnDisk
  <2>2. Size(i) \in Nat /\ n \in Nat /\ n * UnitsPerSector >= Size(i)
        /\ n * UnitsPerSector \in Nat /\ Data(i) \in Seq(Units) /\ Size(i) = Len(Data(i))
    BY <1>5, ImageKnown, BlocksKnown, Products, Sizes DEF Size, Data
  <2>3. chksumfile_byinumber(i) =
          IF \E b \in 1..n : file_getblock(i, b - 1) = Failed THEN {Failed}
          ELSE {FlattenSeq(block(Size(i)))}
    BY <2>1, <1>1, <1>2, <1>5 DEF block
  <2>4. CASE Readable(i)
    <3> DEFINE held == IF n * UnitsPerSector < Size(i) THEN n * UnitsPerSector ELSE Size(i)
    <3>1. /\ \A b \in 1..n : file_getblock(i, b - 1) # Failed
          /\ FlattenSeq(block(Size(i))) = SubSeq(Data(i), 1, held)
      <4>1. n <= n
        BY <2>2
      <4> QED
        BY <4>1, <2>2, <2>4, <1>5, BlocksTogether DEF block
    <3>2. held = Size(i)
      BY <2>2
    <3> HIDE DEF held, n
    <3>3. SubSeq(Data(i), 1, held) = Data(i)
      BY <2>2, <3>2, FirstOf
    <3> QED
      BY <3>1, <3>3, <2>3, <2>4, <1>5
  <2>5. CASE ~Readable(i)
    <3>1. PICK b \in 0..(n - 1) : SectorsFor(i, b) \cap bad # {}
      BY <2>5, <1>5, ReadableMeans
    <3>2. b \in Nat /\ b < n /\ b + 1 \in 1..n /\ (b + 1) - 1 = b
      BY <3>1, <2>2
    <3>3. file_getblock(i, b) = Failed
      BY <3>1, <3>2, <1>5, BlockFound
    <3> QED
      BY <3>2, <3>3, <2>3, <2>5
  <2> QED
    BY <2>4, <2>5
<1> QED
  BY <1>3, <1>4, <1>5

\* GetDirEntries returns the first entries of a directory that can be read.
LEMMA Entries ==
    ASSUME image \in Images, NEW d \in Inodes, image[d].kind = "dir", Readable(d)
    PROVE  GetDirEntries(d) = EntriesOf(d)
<1> DEFINE U == UnitsPerSector
           M == MaxEntries
           full == (M + U - 1) \div U
           n == Blocks(Size(d))
           m == IF n < full THEN n ELSE full
           block == [b \in 1..m |-> file_getblock(d, b - 1)]
           held == IF m * U < Size(d) THEN m * U ELSE Size(d)
           first == IF Size(d) < M THEN Size(d) ELSE M
<1>1. /\ Size(d) \in Nat /\ n \in Nat /\ n * U >= Size(d) /\ Data(d) \in Seq(Units)
      /\ Size(d) = Len(Data(d)) /\ M \in Nat \ {0} /\ d \in Nat \ {0} /\ U \in Nat \ {0}
  <2>1. Size(d) \in Nat /\ Data(d) \in Seq(Units) /\ d \in Nat \ {0}
    BY ImageKnown
  <2>2. n \in Nat /\ n * U >= Size(d)
    BY <2>1, BlocksKnown
  <2>3. Size(d) = Len(Data(d))
    BY DEF Size, Data
  <2> QED
    BY <2>1, <2>2, <2>3, Sizes
<1>2. full \in Nat /\ full * U >= M
  <2>1. full = Blocks(M)
    BY DEF Blocks
  <2> QED
    BY <2>1, <1>1, BlocksKnown
<1> HIDE DEF full, n
<1>3. m \in Nat /\ m <= n /\ m * U \in Nat
  BY <1>1, <1>2, Products
<1>4. held \in Nat /\ held <= Size(d) /\ first \in Nat /\ first <= held
      /\ first = IF held < M THEN held ELSE M
  BY <1>1, <1>2, <1>3
<1>5. (\A b \in 1..m : block[b] # Failed) /\ FlattenSeq(block) = SubSeq(Data(d), 1, held)
  BY <1>3, BlocksTogether DEF n
<1>6. inode_iget(d) = InodeOnDisk(d) /\ InodeOnDisk(d) # Failed
  BY <1>1, InodeFound, ReadableMeans
<1>7. InodeOnDisk(d).alloc /\ InodeOnDisk(d).kind = "dir" /\ InodeOnDisk(d).size = Size(d)
  BY DEF InodeOnDisk
<1>8. GetDirEntries(d) =
        SubSeq(FlattenSeq(block), 1, IF Len(FlattenSeq(block)) < M THEN Len(FlattenSeq(block))
                                     ELSE M)
  <2>1. DOMAIN block = 1..m
    OBVIOUS
  <2> QED
    BY <2>1, <1>5, <1>6, <1>7 DEF GetDirEntries, full, n
<1> HIDE DEF m, block, held, first
<1>9. Len(SubSeq(Data(d), 1, held)) = held
  BY <1>1, <1>4, FirstOf
<1>10. GetDirEntries(d) = SubSeq(SubSeq(Data(d), 1, held), 1, first)
  BY <1>4, <1>5, <1>8, <1>9
<1>11. SubSeq(SubSeq(Data(d), 1, held), 1, first) = SubSeq(Data(d), 1, first)
  BY <1>1, <1>4, FirstOf
<1> QED
  BY <1>10, <1>11 DEF EntriesOf, first

\* directory_findname finds the first entry that has the name, if the name has
\* its terminator.
LEMMA NameFound ==
    ASSUME image \in Images, NEW d \in Inodes, image[d].kind = "dir", Readable(d),
           NEW k \in 1..Size(d), NEW name, name = Data(d)[k].name, name \notin LongNames,
           \A j \in 1..(k - 1) : Data(d)[j].name # name
    PROVE  directory_findname(d, name) = {Data(d)[k].inum}
<1> DEFINE U == UnitsPerSector
           n == Blocks(Size(d))
           block == [b \in 1..n |-> file_getblock(d, b - 1)]
           At == {p \in (1..n) \X (1..U) : block[p[1]] # Failed /\ p[2] <= Len(block[p[1]])}
           Before(p, q) == p[1] < q[1] \/ (p[1] = q[1] /\ p[2] < q[2])
           Must(p) == MustMatch(block[p[1]], p[2], name)
           May(p) == MayMatch(block[p[1]], p[2], name)
           Reached(p) == /\ \A b \in 1..p[1] : block[b] # Failed
                         /\ ~\E q \in At : Before(q, p) /\ Must(q)
           index(p) == (p[1] - 1) * U + p[2]
<1>1. /\ Size(d) \in Nat /\ Data(d) \in Seq(Units) /\ d \in Nat \ {0} /\ U \in Nat \ {0}
      /\ Size(d) = Len(Data(d)) /\ k \in Nat /\ name # RunOn
  <2>1. Size(d) \in Nat /\ Data(d) \in Seq(Units) /\ d \in Nat \ {0}
    BY ImageKnown
  <2>2. Size(d) = Len(Data(d))
    BY DEF Size, Data
  <2>3. name # RunOn
    BY EntriesKnown
  <2> QED
    BY <2>1, <2>2, <2>3, Sizes
<1>2. n \in Nat /\ n * U >= Size(d)
  BY <1>1, BlocksKnown
<1>3. inode_iget(d) = InodeOnDisk(d) /\ InodeOnDisk(d) # Failed
      /\ InodeOnDisk(d).kind = "dir" /\ InodeOnDisk(d).size = Size(d)
  <2>1. inode_iget(d) = InodeOnDisk(d) /\ InodeOnDisk(d) # Failed
    BY <1>1, InodeFound, ReadableMeans
  <2> QED
    BY <2>1 DEF InodeOnDisk
<1>4. ASSUME NEW b \in 1..n
      PROVE  /\ b - 1 \in Nat /\ b - 1 < n /\ block[b] = BlockOf(d, b - 1)
             /\ block[b] # Failed
  <2>1. b - 1 \in Nat /\ b - 1 < n /\ b - 1 \in 0..(n - 1)
    BY <1>2
  <2>2. InodeSector(d) \notin bad /\ SectorsFor(d, b - 1) \cap bad = {}
    BY <2>1, ReadableMeans
  <2>3. file_getblock(d, b - 1) = BlockOf(d, b - 1) /\ BlockOf(d, b - 1) # Failed
    BY <2>1, <2>2, BlockFound, BlockKnown
  <2> QED
    BY <2>1, <2>3
<1>5. directory_findname(d, name) =
        {block[p[1]][p[2]].inum : p \in {q \in At : Reached(q) /\ May(q)}}
            \cup (IF \E p \in At : Reached(p) /\ Must(p) THEN {} ELSE {Failed})
  <2>1. DOMAIN block = 1..n
    OBVIOUS
  <2> QED
    BY <2>1, <1>1, <1>3 DEF directory_findname
<1> HIDE DEF n, block
<1>6. ASSUME NEW p \in At
      PROVE  /\ p[1] \in 1..n /\ p[2] \in 1..U /\ p = <<p[1], p[2]>>
             /\ index(p) \in 1..Size(d) /\ block[p[1]][p[2]] = Data(d)[index(p)]
             /\ (p[1] - 1) * U \in Nat
  <2> DEFINE b == p[1] - 1
             part == BlockOf(d, b)
  <2>1. p[1] \in 1..n /\ p[2] \in 1..U /\ p = <<p[1], p[2]>> /\ p[2] <= Len(block[p[1]])
    BY <1>6
  <2>2. b \in Nat /\ b < n /\ block[p[1]] = part
    BY <1>4, <2>1
  <2> HIDE DEF b
  <2>3. /\ b * U \in Nat /\ BlockEnd(d, b) \in Nat /\ BlockEnd(d, b) <= Size(d)
        /\ Len(part) = BlockEnd(d, b) - b * U
        /\ \A j \in 1..Len(part) : part[j] = Data(d)[b * U + j]
    BY <2>2, BlockKnown DEF n
  <2> HIDE DEF part
  <2>4. p[2] \in 1..Len(part) /\ b * U + p[2] \in 1..Size(d)
    BY <2>1, <2>2, <2>3, <1>1
  <2>5. index(p) = b * U + p[2]
    BY DEF b
  <2>6. block[p[1]][p[2]] = Data(d)[index(p)]
    BY <2>2, <2>3, <2>4, <2>5
  <2> HIDE DEF index
  <2>7. (p[1] - 1) * U \in Nat
    BY <2>3 DEF b
  <2> QED
    BY <2>1, <2>4, <2>5, <2>6, <2>7
<1>7. ASSUME NEW p \in At, NEW q \in At, Before(p, q)
      PROVE  index(p) < index(q)
  <2>1. /\ p[1] \in Nat /\ q[1] \in Nat /\ p[2] \in 1..U /\ q[2] \in 1..U
        /\ p[1] - 1 \in Nat /\ q[1] - 1 \in Nat
    BY <1>1, <1>2, <1>6
  <2>2. CASE p[1] < q[1]
    <3> DEFINE x == p[1] - 1
               y == q[1] - 1
    <3>1. x \in Nat /\ y \in Nat /\ x < y
      BY <2>1, <2>2
    <3> HIDE DEF x, y
    <3>2. U * x + U <= U * y /\ U * x = x * U /\ U * y = y * U /\ x * U \in Nat /\ y * U \in Nat
      BY <3>1, <1>1, Products
    <3>3. x * U + p[2] < y * U + q[2]
      BY <3>2, <2>1, <1>1
    <3> QED
      BY <3>3 DEF x, y
  <2>3. CASE p[1] = q[1] /\ p[2] < q[2]
    <3>1. (p[1] - 1) * U = (q[1] - 1) * U /\ (p[1] - 1) * U \in Nat
      BY <2>3, <1>6
    <3> QED
      BY <3>1, <2>1, <2>3, <1>1
  <2> QED
    BY <2>2, <2>3, <1>7
<1>8. ASSUME NEW p \in At
      PROVE  (Must(p) <=> Data(d)[index(p)].name = name) /\ (May(p) <=> Must(p))
  <2>1. block[p[1]][p[2]] = Data(d)[index(p)]
    BY <1>6
  <2> HIDE DEF index
  <2>2. Must(p) <=> Data(d)[index(p)].name = name
    BY <2>1 DEF MustMatch
  <2>3. May(p) <=> Data(d)[index(p)].name = name
    BY <2>1, <2>2 DEF MayMatch
  <2> QED
    BY <2>2, <2>3
<1> DEFINE q0 == (k - 1) \div U
           r0 == (k - 1) % U
           p0 == <<q0 + 1, r0 + 1>>
<1>9. q0 \in Nat /\ r0 \in 0..(U - 1) /\ k - 1 = U * q0 + r0 /\ U * q0 = q0 * U /\ q0 * U \in Nat
  <2>1. k - 1 \in Nat
    BY <1>1
  <2>2. q0 \in Nat /\ r0 \in 0..(U - 1) /\ k - 1 = U * q0 + r0
    BY <2>1, <1>1, Division
  <2> HIDE DEF q0
  <2> QED
    BY <2>2, <1>1, Products
<1> HIDE DEF q0, r0
<1>10. p0 \in At /\ index(p0) = k
  <2>1. q0 * U < Size(d)
    BY <1>1, <1>9
  <2>2. q0 < n
    BY <2>1, <1>1, <1>9, BlocksKnown DEF n
  <2>3. q0 + 1 \in 1..n /\ r0 + 1 \in 1..U /\ (q0 + 1) - 1 = q0
    BY <2>2, <1>1, <1>2, <1>9
  <2>4. block[q0 + 1] = BlockOf(d, q0) /\ block[q0 + 1] # Failed
    BY <1>4, <2>3
  <2>5. /\ Len(BlockOf(d, q0)) = BlockEnd(d, q0) - q0 * U
        /\ BlockEnd(d, q0) = IF q0 * U + U < Size(d) THEN q0 * U + U ELSE Size(d)
    BY <2>2, <1>9, BlockKnown DEF n, BlockEnd
  <2>6. r0 + 1 <= Len(BlockOf(d, q0))
    BY <2>5, <1>1, <1>9
  <2>7. p0 \in At
    BY <2>3, <2>4, <2>6
  <2>8. index(p0) = q0 * U + (r0 + 1)
    BY <2>3
  <2> QED
    BY <2>7, <2>8, <1>1, <1>9
<1> HIDE DEF At, p0
<1>11. Must(p0)
  BY <1>8, <1>10
<1>12. ASSUME NEW p \in At, Must(p) PROVE ~Before(p, p0)
  <2>1. SUFFICES ASSUME Before(p, p0) PROVE FALSE
    OBVIOUS
  <2>2. index(p) < index(p0)
    BY <2>1, <1>7, <1>10
  <2>3. index(p) \in 1..Size(d) /\ Data(d)[index(p)].name = name
    BY <1>6, <1>8, <1>12
  <2> HIDE DEF index, Must, Before
  <2>4. index(p) \in 1..(k - 1)
    BY <2>2, <2>3, <1>1, <1>10
  <2> QED
    BY <2>3, <2>4
<1>13. Reached(p0)
  <2>1. p0[1] \in 1..n
    BY <1>6, <1>10
  <2>2. \A b \in 1..p0[1] : b \in 1..n
    BY <2>1, <1>2
  <2> HIDE DEF Must, Before
  <2> QED
    BY <2>2, <1>4, <1>12
<1>14. ASSUME NEW p \in At, Reached(p), May(p) PROVE p = p0
  <2>1. Must(p)
    BY <1>8, <1>14
  <2>2. ~Before(p, p0)
    BY <1>12, <2>1
  <2>3. ~Before(p0, p)
    BY <1>10, <1>11, <1>14
  <2>4. /\ p[1] \in 1..n /\ p[2] \in 1..U /\ p = <<p[1], p[2]>>
        /\ p0[1] \in 1..n /\ p0[2] \in 1..U /\ p0 = <<p0[1], p0[2]>>
    BY <1>6, <1>10
  <2>5. p[1] = p0[1] /\ p[2] = p0[2]
    BY <2>2, <2>3, <2>4, <1>1, <1>2
  <2> QED
    BY <2>4, <2>5
<1>15. block[p0[1]][p0[2]] = Data(d)[k]
  BY <1>6, <1>10
<1>16. {q \in At : Reached(q) /\ May(q)} = {p0}
  <2> HIDE DEF Reached, May, Must
  <2> QED
    BY <1>8, <1>10, <1>11, <1>13, <1>14
<1>17. \E p \in At : Reached(p) /\ Must(p)
  <2> HIDE DEF Reached, Must
  <2> QED
    BY <1>10, <1>11, <1>13
<1> HIDE DEF Reached, May, Must, index
<1>18. {block[p[1]][p[2]].inum : p \in {p0}} = {Data(d)[k].inum}
  BY <1>15
<1> QED
  BY <1>5, <1>16, <1>17, <1>18

\* A text that runs on is the name of no entry.
LEMMA RunOnNotFound ==
    ASSUME NEW d PROVE directory_findname(d, RunOn) = {Failed}
<1> QED
  BY DEF directory_findname

-----------------------------------------------------------------------------
(* What a path leads to, by the entries in use and by the lookups.         *)

\* The inode of every part of a path, by the entries in use.
Leading(path, f) ==
    f = [k \in 0..Len(path) |-> IF k = 0 THEN Root ELSE Child(f[k - 1], path[k])]

LEMMA LeadingExists ==
    ASSUME NEW S, NEW path \in Seq(S)
    PROVE  \E f : Leading(path, f) /\ Denoted(path) = f[Len(path)]
<1> DEFINE R(m, f) == f = [k \in 0..m |-> IF k = 0 THEN Root ELSE Child(f[k - 1], path[k])]
           T == {m \in Nat : \E f : R(m, f)}
<1>1. 0 \in T
  <2> DEFINE f == [k \in 0..0 |-> Root]
  <2>1. R(0, f)
    <3> QED
      OBVIOUS
  <2> HIDE DEF R, f
  <2> QED
    BY <2>1
<1>2. ASSUME NEW m \in Nat, m \in T PROVE m + 1 \in T
  <2>1. PICK f : R(m, f)
    BY <1>2
  <2> DEFINE g == [k \in 0..(m + 1) |-> IF k <= m THEN f[k] ELSE Child(f[m], path[m + 1])]
             h == [k \in 0..(m + 1) |-> IF k = 0 THEN Root ELSE Child(g[k - 1], path[k])]
  <2>2. ASSUME NEW k \in 0..(m + 1) PROVE g[k] = h[k]
    <3>1. CASE k = 0
      <4>1. f[0] = Root /\ 0 <= m
        BY <2>1
      <4>2. g[k] = f[0] /\ h[k] = Root
        BY <4>1, <3>1
      <4> QED
        BY <4>1, <4>2
    <3>2. CASE k # 0 /\ k <= m
      <4>1. k \in 0..m /\ k - 1 \in 0..m /\ k - 1 \in 0..(m + 1) /\ k - 1 <= m
        BY <3>2
      <4>2. f[k] = Child(f[k - 1], path[k])
        BY <2>1, <3>2, <4>1
      <4>3. g[k] = f[k] /\ g[k - 1] = f[k - 1]
        BY <3>2, <4>1
      <4>4. h[k] = Child(g[k - 1], path[k])
        BY <3>2
      <4> HIDE DEF g, h
      <4> QED
        BY <4>2, <4>3, <4>4
    <3>3. CASE ~(k <= m)
      <4>1. k = m + 1 /\ k # 0 /\ k - 1 = m /\ m \in 0..(m + 1) /\ m <= m
        BY <3>3
      <4>2. g[k] = Child(f[m], path[m + 1]) /\ g[m] = f[m]
        BY <3>3, <4>1
      <4>3. h[k] = Child(g[k - 1], path[k])
        BY <4>1
      <4> HIDE DEF g, h
      <4> QED
        BY <4>1, <4>2, <4>3
    <3> QED
      BY <3>1, <3>2, <3>3
  <2>3. g = [k \in 0..(m + 1) |-> g[k]]
    OBVIOUS
  <2>4. h = [k \in 0..(m + 1) |-> h[k]]
    OBVIOUS
  <2> HIDE DEF g, h
  <2>5. g = h
    BY <2>2, <2>3, <2>4, Zenon
  <2>6. R(m + 1, g)
    BY <2>5 DEF h
  <2> HIDE DEF R
  <2> QED
    BY <2>6
<1> HIDE DEF T
<1>3. Nat \subseteq T
  BY <1>1, <1>2, SetInduction
<1>4. Len(path) \in T
  BY <1>3
<1>5. \E f : R(Len(path), f)
  BY <1>4 DEF T
<1> DEFINE f0 == CHOOSE f : R(Len(path), f)
<1>6. Denoted(path) = f0[Len(path)]
  BY DEF Denoted
<1> HIDE DEF R
<1>7. R(Len(path), f0)
  BY <1>5, Zenon
<1> HIDE DEF f0
<1>8. Leading(path, f0)
  BY <1>7 DEF R, Leading
<1> QED
  BY <1>6, <1>8

\* A path with one more name leads to what the directory has under that name.
LEMMA DenotedStep ==
    ASSUME NEW S, NEW path \in Seq(S), NEW name \in S
    PROVE  /\ Denoted(<<>>) = Root
           /\ Denoted(Append(path, name)) = Child(Denoted(path), name)
<1> DEFINE n == Len(path)
           more == Append(path, name)
<1>1. n \in Nat /\ more \in Seq(S) /\ Len(more) = n + 1 /\ more[n + 1] = name
      /\ \A k \in 1..n : more[k] = path[k]
  OBVIOUS
<1>2. PICK f : Leading(path, f) /\ Denoted(path) = f[n]
  BY LeadingExists
<1>3. PICK g : Leading(more, g) /\ Denoted(more) = g[n + 1]
  BY <1>1, LeadingExists
<1>4. f = [k \in 0..n |-> IF k = 0 THEN Root ELSE Child(f[k - 1], path[k])]
  BY <1>2 DEF Leading
<1>5. g = [k \in 0..(n + 1) |-> IF k = 0 THEN Root ELSE Child(g[k - 1], more[k])]
  BY <1>1, <1>3 DEF Leading
<1> HIDE DEF more, n
<1> DEFINE T == {m \in Nat : m <= n => f[m] = g[m]}
<1>6. 0 \in T
  <2>1. f[0] = Root
    BY <1>4, <1>1
  <2>2. g[0] = Root
    BY <1>5, <1>1
  <2> QED
    BY <2>1, <2>2
<1>7. ASSUME NEW m \in Nat, m \in T PROVE m + 1 \in T
  <2>1. SUFFICES ASSUME m + 1 <= n PROVE f[m + 1] = g[m + 1]
    OBVIOUS
  <2>2. m <= n /\ m + 1 \in 0..n /\ m + 1 \in 0..(n + 1) /\ m + 1 # 0 /\ (m + 1) - 1 = m
        /\ m + 1 \in 1..n
    BY <2>1, <1>1
  <2>3. f[m] = g[m]
    BY <2>2, <1>7
  <2> HIDE DEF T
  <2>4. f[m + 1] = Child(f[(m + 1) - 1], path[m + 1])
    BY <2>2, <1>4
  <2>5. g[m + 1] = Child(g[(m + 1) - 1], more[m + 1])
    BY <2>2, <1>5
  <2>6. more[m + 1] = path[m + 1]
    BY <2>2, <1>1
  <2> QED
    BY <2>2, <2>3, <2>4, <2>5, <2>6
<1> HIDE DEF T
<1>8. Nat \subseteq T
  BY <1>6, <1>7, SetInduction
<1>9. f[n] = g[n]
  BY <1>8, <1>1 DEF T
<1>10. g[n + 1] = Child(g[(n + 1) - 1], more[n + 1])
  <2>1. n + 1 \in 0..(n + 1) /\ n + 1 # 0
    BY <1>1
  <2> QED
    BY <2>1, <1>5
<1>11. (n + 1) - 1 = n
  BY <1>1
<1>12. Denoted(<<>>) = Root
  <2>1. <<>> \in Seq(S) /\ Len(<<>>) = 0
    OBVIOUS
  <2>2. PICK e : Leading(<<>>, e) /\ Denoted(<<>>) = e[0]
    BY <2>1, LeadingExists
  <2>3. e = [k \in 0..0 |-> IF k = 0 THEN Root ELSE Child(e[k - 1], <<>>[k])]
    BY <2>1, <2>2 DEF Leading
  <2>4. e[0] = Root
    BY <2>3
  <2> QED
    BY <2>2, <2>4
<1> QED
  BY <1>1, <1>2, <1>3, <1>9, <1>10, <1>11, <1>12 DEF more

\* The lookup of one name, in all that the lookups before it may have returned.
NextDirs(dirs, name) ==
    UNION {IF d \in {Failed, 0} THEN {Failed} ELSE directory_findname(d, name) : d \in dirs}

\* What the lookup of every part of a path may return.
LookingUp(path, f) ==
    f = [k \in 0..Len(path) |-> IF k = 0 THEN {Root} ELSE NextDirs(f[k - 1], path[k])]

LEMMA LookingUpExists ==
    ASSUME NEW S, NEW path \in Seq(S)
    PROVE  \E f : LookingUp(path, f) /\ pathname_lookup(path) = f[Len(path)]
<1> DEFINE R(m, f) == f = [k \in 0..m |-> IF k = 0 THEN {Root} ELSE NextDirs(f[k - 1], path[k])]
           T == {m \in Nat : \E f : R(m, f)}
<1>1. 0 \in T
  <2> DEFINE f == [k \in 0..0 |-> {Root}]
  <2>1. R(0, f)
    <3> QED
      OBVIOUS
  <2> HIDE DEF R, f
  <2> QED
    BY <2>1
<1>2. ASSUME NEW m \in Nat, m \in T PROVE m + 1 \in T
  <2>1. PICK f : R(m, f)
    BY <1>2
  <2> DEFINE g == [k \in 0..(m + 1) |-> IF k <= m THEN f[k] ELSE NextDirs(f[m], path[m + 1])]
             h == [k \in 0..(m + 1) |-> IF k = 0 THEN {Root} ELSE NextDirs(g[k - 1], path[k])]
  <2>2. ASSUME NEW k \in 0..(m + 1) PROVE g[k] = h[k]
    <3>1. CASE k = 0
      <4>1. f[0] = {Root} /\ 0 <= m
        BY <2>1
      <4>2. g[k] = f[0] /\ h[k] = {Root}
        BY <4>1, <3>1
      <4> QED
        BY <4>1, <4>2
    <3>2. CASE k # 0 /\ k <= m
      <4>1. k \in 0..m /\ k - 1 \in 0..m /\ k - 1 \in 0..(m + 1) /\ k - 1 <= m
        BY <3>2
      <4>2. f[k] = NextDirs(f[k - 1], path[k])
        BY <2>1, <3>2, <4>1
      <4>3. g[k] = f[k] /\ g[k - 1] = f[k - 1]
        BY <3>2, <4>1
      <4>4. h[k] = NextDirs(g[k - 1], path[k])
        BY <3>2
      <4> HIDE DEF g, h
      <4> QED
        BY <4>2, <4>3, <4>4
    <3>3. CASE ~(k <= m)
      <4>1. k = m + 1 /\ k # 0 /\ k - 1 = m /\ m \in 0..(m + 1) /\ m <= m
        BY <3>3
      <4>2. g[k] = NextDirs(f[m], path[m + 1]) /\ g[m] = f[m]
        BY <3>3, <4>1
      <4>3. h[k] = NextDirs(g[k - 1], path[k])
        BY <4>1
      <4> HIDE DEF g, h
      <4> QED
        BY <4>1, <4>2, <4>3
    <3> QED
      BY <3>1, <3>2, <3>3
  <2>3. g = [k \in 0..(m + 1) |-> g[k]]
    OBVIOUS
  <2>4. h = [k \in 0..(m + 1) |-> h[k]]
    OBVIOUS
  <2> HIDE DEF g, h
  <2>5. g = h
    BY <2>2, <2>3, <2>4, Zenon
  <2>6. R(m + 1, g)
    BY <2>5 DEF h
  <2> HIDE DEF R
  <2> QED
    BY <2>6
<1> HIDE DEF T
<1>3. Nat \subseteq T
  BY <1>1, <1>2, SetInduction
<1>4. Len(path) \in T
  BY <1>3
<1>5. \E f : R(Len(path), f)
  BY <1>4 DEF T
<1> DEFINE f0 == CHOOSE f : R(Len(path), f)
<1>6. pathname_lookup(path) = f0[Len(path)]
  BY DEF pathname_lookup, NextDirs
<1> HIDE DEF R
<1>7. R(Len(path), f0)
  BY <1>5, Zenon
<1> HIDE DEF f0
<1>8. LookingUp(path, f0)
  BY <1>7 DEF R, LookingUp
<1> QED
  BY <1>6, <1>8

\* The lookup of a path with one more name goes on from that of the path.
LEMMA pathname_lookupStep ==
    ASSUME NEW S, NEW path \in Seq(S), NEW name \in S
    PROVE  /\ pathname_lookup(<<>>) = {Root}
           /\ pathname_lookup(Append(path, name)) = NextDirs(pathname_lookup(path), name)
<1> DEFINE n == Len(path)
           more == Append(path, name)
<1>1. n \in Nat /\ more \in Seq(S) /\ Len(more) = n + 1 /\ more[n + 1] = name
      /\ \A k \in 1..n : more[k] = path[k]
  OBVIOUS
<1>2. PICK f : LookingUp(path, f) /\ pathname_lookup(path) = f[n]
  BY LookingUpExists
<1>3. PICK g : LookingUp(more, g) /\ pathname_lookup(more) = g[n + 1]
  BY <1>1, LookingUpExists
<1>4. f = [k \in 0..n |-> IF k = 0 THEN {Root} ELSE NextDirs(f[k - 1], path[k])]
  BY <1>2 DEF LookingUp
<1>5. g = [k \in 0..(n + 1) |-> IF k = 0 THEN {Root} ELSE NextDirs(g[k - 1], more[k])]
  BY <1>1, <1>3 DEF LookingUp
<1> HIDE DEF more, n
<1> DEFINE T == {m \in Nat : m <= n => f[m] = g[m]}
<1>6. 0 \in T
  <2>1. f[0] = {Root}
    BY <1>4, <1>1
  <2>2. g[0] = {Root}
    BY <1>5, <1>1
  <2> QED
    BY <2>1, <2>2
<1>7. ASSUME NEW m \in Nat, m \in T PROVE m + 1 \in T
  <2>1. SUFFICES ASSUME m + 1 <= n PROVE f[m + 1] = g[m + 1]
    OBVIOUS
  <2>2. m <= n /\ m + 1 \in 0..n /\ m + 1 \in 0..(n + 1) /\ m + 1 # 0 /\ (m + 1) - 1 = m
        /\ m + 1 \in 1..n
    BY <2>1, <1>1
  <2>3. f[m] = g[m]
    BY <2>2, <1>7
  <2> HIDE DEF T
  <2>4. f[m + 1] = NextDirs(f[(m + 1) - 1], path[m + 1])
    BY <2>2, <1>4
  <2>5. g[m + 1] = NextDirs(g[(m + 1) - 1], more[m + 1])
    BY <2>2, <1>5
  <2>6. more[m + 1] = path[m + 1]
    BY <2>2, <1>1
  <2> QED
    BY <2>2, <2>3, <2>4, <2>5, <2>6
<1> HIDE DEF T
<1>8. Nat \subseteq T
  BY <1>6, <1>7, SetInduction
<1>9. f[n] = g[n]
  BY <1>8, <1>1 DEF T
<1>10. g[n + 1] = NextDirs(g[(n + 1) - 1], more[n + 1])
  <2>1. n + 1 \in 0..(n + 1) /\ n + 1 # 0
    BY <1>1
  <2> QED
    BY <2>1, <1>5
<1>11. (n + 1) - 1 = n
  BY <1>1
<1>12. pathname_lookup(<<>>) = {Root}
  <2>1. <<>> \in Seq(S) /\ Len(<<>>) = 0
    OBVIOUS
  <2>2. PICK e : LookingUp(<<>>, e) /\ pathname_lookup(<<>>) = e[0]
    BY <2>1, LookingUpExists
  <2>3. e = [k \in 0..0 |-> IF k = 0 THEN {Root} ELSE NextDirs(e[k - 1], <<>>[k])]
    BY <2>1, <2>2 DEF LookingUp
  <2>4. e[0] = {Root}
    BY <2>3
  <2> QED
    BY <2>2, <2>4
<1> QED
  BY <1>1, <1>2, <1>3, <1>9, <1>10, <1>11, <1>12 DEF more

-----------------------------------------------------------------------------
(* The levels of the tree, and what no step changes.                       *)

Below(S) == UNION {{e.inum : e \in {f \in Range(Data(d)) : IsChild(f)}}
                   : d \in {i \in S \cap Inodes : image[i].kind = "dir"}}

\* Level is defined, level after level.
LEMMA LevelStep ==
    /\ Level[0] = {Root}
    /\ \A n \in 0..(MaxFrames - 1) : Level[n + 1] = Below(Level[n])
<1> DEFINE R(m, f) == f = [k \in 0..m |-> IF k = 0 THEN {Root} ELSE Below(f[k - 1])]
           T == {m \in Nat : \E f : R(m, f)}
<1>1. 0 \in T
  <2> DEFINE f == [k \in 0..0 |-> {Root}]
  <2>1. R(0, f)
    OBVIOUS
  <2> HIDE DEF R, f
  <2> QED
    BY <2>1
<1>2. ASSUME NEW m \in Nat, m \in T PROVE m + 1 \in T
  <2>1. PICK f : R(m, f)
    BY <1>2
  <2> DEFINE g == [k \in 0..(m + 1) |-> IF k <= m THEN f[k] ELSE Below(f[m])]
             h == [k \in 0..(m + 1) |-> IF k = 0 THEN {Root} ELSE Below(g[k - 1])]
  <2>2. ASSUME NEW k \in 0..(m + 1) PROVE g[k] = h[k]
    <3>1. CASE k = 0
      <4>1. f[0] = {Root} /\ 0 <= m
        BY <2>1
      <4>2. g[k] = f[0] /\ h[k] = {Root}
        BY <4>1, <3>1
      <4> QED
        BY <4>1, <4>2
    <3>2. CASE k # 0 /\ k <= m
      <4>1. k \in 0..m /\ k - 1 \in 0..m /\ k - 1 \in 0..(m + 1) /\ k - 1 <= m
        BY <3>2
      <4>2. f[k] = Below(f[k - 1])
        BY <2>1, <3>2, <4>1
      <4>3. g[k] = f[k] /\ g[k - 1] = f[k - 1]
        BY <3>2, <4>1
      <4>4. h[k] = Below(g[k - 1])
        BY <3>2
      <4> HIDE DEF g, h
      <4> QED
        BY <4>2, <4>3, <4>4
    <3>3. CASE ~(k <= m)
      <4>1. k = m + 1 /\ k # 0 /\ k - 1 = m /\ m \in 0..(m + 1) /\ m <= m
        BY <3>3
      <4>2. g[k] = Below(f[m]) /\ g[m] = f[m]
        BY <3>3, <4>1
      <4>3. h[k] = Below(g[k - 1])
        BY <4>1
      <4> HIDE DEF g, h
      <4> QED
        BY <4>1, <4>2, <4>3
    <3> QED
      BY <3>1, <3>2, <3>3
  <2>3. g = [k \in 0..(m + 1) |-> g[k]]
    OBVIOUS
  <2>4. h = [k \in 0..(m + 1) |-> h[k]]
    OBVIOUS
  <2> HIDE DEF g, h
  <2>5. g = h
    BY <2>2, <2>3, <2>4, Zenon
  <2>6. R(m + 1, g)
    BY <2>5 DEF h
  <2> HIDE DEF R
  <2> QED
    BY <2>6
<1> HIDE DEF T
<1>3. MaxFrames \in T
  BY <1>1, <1>2, SetInduction, Sizes
<1>4. \E f : R(MaxFrames, f)
  BY <1>3 DEF T
<1> DEFINE f0 == CHOOSE f : R(MaxFrames, f)
<1>5. Level = f0
  BY DEF Level, Below
<1> HIDE DEF R
<1>6. R(MaxFrames, f0)
  BY <1>4, Zenon
<1> HIDE DEF f0
<1>7. Level = [k \in 0..MaxFrames |-> IF k = 0 THEN {Root} ELSE Below(Level[k - 1])]
  BY <1>5, <1>6 DEF R
<1>8. Level[0] = {Root}
  BY <1>7, Sizes
<1>9. ASSUME NEW n \in 0..(MaxFrames - 1) PROVE Level[n + 1] = Below(Level[n])
  <2>1. n + 1 \in 0..MaxFrames /\ n + 1 # 0 /\ (n + 1) - 1 = n
    BY Sizes
  <2>2. Level[n + 1] = Below(Level[(n + 1) - 1])
    BY <2>1, <1>7
  <2> QED
    BY <2>1, <2>2
<1> QED
  BY <1>8, <1>9

\* The disk is as it was, and so is what is read from it.
FoundIn(in, block, name) ==
    LET Bad(b) == block[b] = Failed
        At == {p \in (DOMAIN block) \X (1..UnitsPerSector) :
                  ~Bad(p[1]) /\ p[2] <= Len(block[p[1]])}
        Must(p) == MustMatch(block[p[1]], p[2], name)
        May(p) == MayMatch(block[p[1]], p[2], name)
        Before(p, q) == p[1] < q[1] \/ (p[1] = q[1] /\ p[2] < q[2])
        Reached(p) == /\ \A b \in 1..p[1] : ~Bad(b)
                      /\ ~\E q \in At : Before(q, p) /\ Must(q)
    IN IF in = Failed \/ in.kind # "dir" \/ name = RunOn THEN {Failed}
       ELSE {block[p[1]][p[2]].inum : p \in {q \in At : Reached(q) /\ May(q)}}
            \cup (IF \E p \in At : Reached(p) /\ Must(p) THEN {} ELSE {Failed})

LEMMA SameDisk ==
    ASSUME UNCHANGED world
    PROVE  /\ \A i : inode_iget(i)' = inode_iget(i)
           /\ \A d, name : directory_findname(d, name)' = directory_findname(d, name)
<1>1. image' = image /\ bad' = bad /\ command' = command
  BY DEF world
<1>2. ASSUME NEW s PROVE Layout(s)' = Layout(s)
  BY <1>1 DEF Layout, InodeOnDisk, Inodes, Size, Unit, Table
<1>3. ASSUME NEW s PROVE diskimg_readsector(s)' = diskimg_readsector(s)
  BY <1>1, <1>2 DEF diskimg_readsector
<1>4. ASSUME NEW i PROVE inode_iget(i)' = inode_iget(i)
  BY <1>3 DEF inode_iget
<1>5. ASSUME NEW in, NEW b PROVE inode_indexlookup(in, b)' = inode_indexlookup(in, b)
  BY <1>3 DEF inode_indexlookup
<1>6. ASSUME NEW i, NEW b PROVE file_getblock(i, b)' = file_getblock(i, b)
  BY <1>3, <1>4, <1>5 DEF file_getblock
<1>7. ASSUME NEW d, NEW name
      PROVE  directory_findname(d, name)' = directory_findname(d, name)
  <2> DEFINE blocks == [b \in 1..Blocks(inode_iget(d).size) |-> file_getblock(d, b - 1)]
  <2>1. directory_findname(d, name) = FoundIn(inode_iget(d), blocks, name)
    BY DEF directory_findname, FoundIn
  <2>2. directory_findname(d, name)' = FoundIn(inode_iget(d)', blocks', name)
    BY DEF directory_findname, FoundIn
  <2>3. blocks' = blocks
    BY <1>4, <1>6
  <2> HIDE DEF blocks
  <2> QED
    BY <2>1, <2>2, <2>3, <1>4
<1> QED
  BY <1>4, <1>7

Lookups(path) == CHOOSE f : LookingUp(path, f)

LookupsRight ==
    \A path \in Seq(Names) :
       LookingUp(path, Lookups(path)) /\ pathname_lookup(path) = Lookups(path)[Len(path)]

LEMMA LookupsKnown == LookupsRight
<1> SUFFICES ASSUME NEW path \in Seq(Names)
             PROVE  /\ LookingUp(path, Lookups(path))
                    /\ pathname_lookup(path) = Lookups(path)[Len(path)]
  BY DEF LookupsRight
<1>1. \E f : LookingUp(path, f)
  BY LookingUpExists
<1>2. LookingUp(path, Lookups(path))
  BY <1>1, Zenon DEF Lookups
<1>3. pathname_lookup(path) = Lookups(path)[Len(path)]
  BY DEF pathname_lookup, LookingUp, NextDirs, Lookups
<1> QED
  BY <1>2, <1>3

LEMMA LookupsKnownNext == LookupsRight'
<1> QED
  BY LookupsKnown, PTL

LEMMA SameLookup ==
    ASSUME UNCHANGED world, NEW path \in Seq(Names)
    PROVE  pathname_lookup(path)' = pathname_lookup(path)
<1> DEFINE n == Len(path)
           e == Lookups(path)
<1>1. \A d, name : directory_findname(d, name)' = directory_findname(d, name)
  BY SameDisk
<1>2. ASSUME NEW dirs, NEW name PROVE NextDirs(dirs, name)' = NextDirs(dirs, name)
  BY <1>1 DEF NextDirs
<1>3. ASSUME NEW f PROVE LookingUp(path, f)' <=> LookingUp(path, f)
  BY <1>2 DEF LookingUp
<1>4. pathname_lookup(path) = e[n] /\ LookingUp(path, e)
  BY LookupsKnown DEF LookupsRight
<1>6. Seq(Names)' = Seq(Names)
  BY DEF Names, Units
<1>7. PICK g : LookingUp(path, g)' /\ pathname_lookup(path)' = g[n]
  BY <1>6, LookupsKnownNext DEF LookupsRight
<1> HIDE DEF e
<1>10. LookingUp(path, g)
  BY <1>3, <1>7
<1>11. e = [k \in 0..n |-> IF k = 0 THEN {Root} ELSE NextDirs(e[k - 1], path[k])]
  BY <1>4 DEF LookingUp
<1>12. g = [k \in 0..n |-> IF k = 0 THEN {Root} ELSE NextDirs(g[k - 1], path[k])]
  BY <1>10 DEF LookingUp
<1>13. n \in Nat
  OBVIOUS
<1> HIDE DEF n
<1> DEFINE T == {m \in Nat : m <= n => e[m] = g[m]}
<1>14. 0 \in T
  <2>1. e[0] = {Root} /\ g[0] = {Root}
    BY <1>11, <1>12, <1>13
  <2> QED
    BY <2>1
<1>15. ASSUME NEW m \in Nat, m \in T PROVE m + 1 \in T
  <2>1. SUFFICES ASSUME m + 1 <= n PROVE e[m + 1] = g[m + 1]
    OBVIOUS
  <2>2. m <= n /\ m + 1 \in 0..n /\ m + 1 # 0 /\ (m + 1) - 1 = m
    BY <2>1, <1>13
  <2>3. e[m] = g[m]
    BY <2>2, <1>15
  <2> HIDE DEF T
  <2>4. e[m + 1] = NextDirs(e[(m + 1) - 1], path[m + 1])
    BY <2>2, <1>11
  <2>5. g[m + 1] = NextDirs(g[(m + 1) - 1], path[m + 1])
    BY <2>2, <1>12
  <2> QED
    BY <2>2, <2>3, <2>4, <2>5
<1> HIDE DEF T
<1>16. Nat \subseteq T
  BY <1>14, <1>15, SetInduction
<1>17. e[n] = g[n]
  BY <1>13, <1>16 DEF T
<1> QED
  BY <1>4, <1>7, <1>17

\* The world is as it was, and so is all that is said of it.
LEMMA SameWorld ==
    ASSUME UNCHANGED world
    PROVE  /\ image' = image /\ bad' = bad /\ command' = command
           /\ Inodes' = Inodes /\ Level' = Level
           /\ \A i : /\ Data(i)' = Data(i) /\ Size(i)' = Size(i)
                     /\ Readable(i)' = Readable(i) /\ inode_iget(i)' = inode_iget(i)
                     /\ EntriesOf(i)' = EntriesOf(i)
           /\ \A p : Denoted(p)' = Denoted(p)
           /\ \A d, k : Findable(d, k)' = Findable(d, k)
           /\ \A f \in Frames : OpenedFrame(f)' = OpenedFrame(f)
           /\ \A l : TrueLine(l)' = TrueLine(l)
<1>1. image' = image /\ bad' = bad /\ command' = command
  BY DEF world
<1>2. Inodes' = Inodes
  BY <1>1 DEF Inodes
<1>3. Level' = Level
  BY <1>1 DEF Level, Data, Inodes
<1>4. ASSUME NEW i PROVE Data(i)' = Data(i) /\ Size(i)' = Size(i)
  BY <1>1 DEF Data, Size
<1>5. ASSUME NEW i PROVE Readable(i)' = Readable(i)
  BY <1>1 DEF Readable, SectorsOf, Size
<1>6. ASSUME NEW i PROVE inode_iget(i)' = inode_iget(i)
  BY SameDisk
<1>7. ASSUME NEW i PROVE EntriesOf(i)' = EntriesOf(i)
  BY <1>1 DEF EntriesOf, Data, Size
<1>8. ASSUME NEW p PROVE Denoted(p)' = Denoted(p)
  BY <1>1 DEF Denoted, Child, Data, Inodes
<1>9. ASSUME NEW d, NEW k PROVE Findable(d, k)' = Findable(d, k)
  BY <1>1 DEF Findable, Data
<1>10. \A p \in Seq(Names) : pathname_lookup(p)' = pathname_lookup(p)
  BY SameLookup
<1>11. ASSUME NEW f \in Frames PROVE OpenedFrame(f)' = OpenedFrame(f)
  <2>1. f.path \in Seq(Names)
    BY DEF Frames
  <2> QED
    BY <2>1, <1>1, <1>2, <1>5, <1>7, <1>8, <1>10 DEF OpenedFrame
<1>12. ASSUME NEW l PROVE TrueLine(l)' = TrueLine(l)
  BY <1>1, <1>2, <1>4, <1>5, <1>8 DEF TrueLine
<1> QED
  BY <1>1, <1>2, <1>3, <1>4, <1>5, <1>6, <1>7, <1>8, <1>9, <1>11, <1>12

\* A line more, and no line at all.
LEMMA LinesGrow ==
    ASSUME lines \in Seq(Lines), NEW l \in Lines, lines' = Append(lines, l), NEW by
    PROVE  /\ LinesBy(by)' = LinesBy(by) \cup (IF l.by = by THEN {l} ELSE {})
           /\ lines' \in Seq(Lines) /\ Len(lines') = Len(lines) + 1
           /\ DOMAIN lines' = 1..(Len(lines) + 1) /\ DOMAIN lines = 1..Len(lines)
           /\ \A k \in 1..Len(lines) : lines'[k] = lines[k]
           /\ lines'[Len(lines) + 1] = l
<1>1. lines' \in Seq(Lines) /\ Len(lines') = Len(lines) + 1 /\ Len(lines) \in Nat
      /\ DOMAIN lines' = 1..(Len(lines) + 1) /\ DOMAIN lines = 1..Len(lines)
      /\ (\A k \in 1..Len(lines) : lines'[k] = lines[k])
      /\ lines'[Len(lines) + 1] = l
  OBVIOUS
<1> DEFINE n == Len(lines) + 1
           more == lines'
<1>2. /\ n \in 1..n /\ \A k \in 1..n : k = n \/ k \in 1..Len(lines)
      /\ \A k \in 1..Len(lines) : k \in 1..n
  BY <1>1
<1>3. LinesBy(by)' = {more[k] : k \in {m \in 1..n : more[m].by = by}}
  BY <1>1 DEF LinesBy
<1>4. LinesBy(by) = {lines[k] : k \in {m \in 1..Len(lines) : lines[m].by = by}}
  BY <1>1 DEF LinesBy
<1>5. more[n] = l /\ \A k \in 1..Len(lines) : more[k] = lines[k]
  BY <1>1
<1> HIDE DEF more, n
<1>6. {more[k] : k \in {m \in 1..n : more[m].by = by}}
        = {lines[k] : k \in {m \in 1..Len(lines) : lines[m].by = by}}
             \cup (IF l.by = by THEN {l} ELSE {})
  BY <1>2, <1>5
<1> QED
  BY <1>1, <1>3, <1>4, <1>6

LEMMA LinesSame ==
    ASSUME UNCHANGED lines, NEW by
    PROVE  LinesBy(by)' = LinesBy(by)
<1> QED
  BY DEF LinesBy

\* What has been listed stays so.
LEMMA ListedStays ==
    ASSUME UNCHANGED world, LinesBy("path") \subseteq LinesBy("path")', NEW l, NEW k,
           ChildListed(l, k)
    PROVE  ChildListed(l, k)'
<1>1. /\ Data(l.inum)' = Data(l.inum) /\ Findable(l.inum, k)' = Findable(l.inum, k)
      /\ \A i : Readable(i)' = Readable(i) /\ Data(i)' = Data(i)
  BY SameWorld
<1> QED
  BY <1>1 DEF ChildListed

-----------------------------------------------------------------------------
(* The entries of a directory, and the names that lead to them.            *)

LEMMA EntryOf ==
    ASSUME image \in Images, NEW d \in Inodes, image[d].kind = "dir"
    PROVE  /\ EntriesOf(d) \in Seq(Units) /\ Len(EntriesOf(d)) \in Nat
           /\ Len(EntriesOf(d)) = IF Size(d) < MaxEntries THEN Size(d) ELSE MaxEntries
           /\ \A k \in 1..Len(EntriesOf(d)) :
                /\ k \in 1..Size(d) /\ k <= MaxEntries
                /\ EntriesOf(d)[k] = Data(d)[k] /\ EntriesOf(d)[k] \in Units
<1> DEFINE n == IF Size(d) < MaxEntries THEN Size(d) ELSE MaxEntries
<1>1. Data(d) \in Seq(Units) /\ Size(d) \in Nat /\ MaxEntries \in Nat
  BY ImageKnown, Sizes
<1>2. Size(d) = Len(Data(d))
  BY DEF Size, Data
<1>3. n \in Nat /\ n <= Len(Data(d)) /\ n <= Size(d) /\ n <= MaxEntries
  BY <1>1, <1>2
<1>4. EntriesOf(d) = SubSeq(Data(d), 1, n)
  BY DEF EntriesOf
<1> HIDE DEF n
<1>5. n <= n
  BY <1>3
<1>6. /\ EntriesOf(d) \in Seq(Units) /\ Len(EntriesOf(d)) = n
      /\ \A k \in 1..n : EntriesOf(d)[k] = Data(d)[k]
  BY <1>1, <1>3, <1>4, <1>5, FirstOf
<1>7. ASSUME NEW k \in 1..n
      PROVE  k \in 1..Size(d) /\ k <= MaxEntries /\ EntriesOf(d)[k] \in Units
  BY <1>1, <1>3, <1>6
<1> QED
  BY <1>3, <1>6, <1>7 DEF n

\* The text that a call makes of an entry.
LEMMA TextOf ==
    ASSUME image \in Images, NEW d \in Inodes, image[d].kind = "dir",
           NEW k \in 1..Len(EntriesOf(d)), NEW t \in Texts(EntriesOf(d), k)
    PROVE  /\ t \in Names /\ (t = Data(d)[k].name \/ t = RunOn)
           /\ Data(d)[k].name \notin LongNames => t = Data(d)[k].name
<1>1. EntriesOf(d)[k] = Data(d)[k] /\ EntriesOf(d)[k] \in Units
  BY EntryOf
<1>2. Data(d)[k].name \in Names /\ RunOn \in Names
  BY <1>1 DEF Names
<1>3. t \in {EntriesOf(d)[k].name, RunOn}
      /\ (EntriesOf(d)[k].name \notin LongNames => t = EntriesOf(d)[k].name)
  BY DEF Texts
<1> QED
  BY <1>1, <1>2, <1>3

\* An entry in use is the one that its directory has under its name.
LEMMA ChildFound ==
    ASSUME image \in Images, NEW d \in Inodes, image[d].kind = "dir"
    PROVE  /\ \A k \in 1..Size(d) : Live(Data(d)[k]) =>
                 Child(d, Data(d)[k].name) = Data(d)[k].inum
           /\ Child(d, RunOn) = 0
<1>1. Data(d) \in Seq(Units) /\ Size(d) \in Nat
  BY ImageKnown
<1>2. Size(d) = Len(Data(d))
  BY DEF Size, Data
<1>3. DOMAIN Data(d) = 1..Size(d)
  BY <1>1, <1>2
<1>4. Range(Data(d)) = {Data(d)[k] : k \in 1..Size(d)}
  BY <1>3 DEF Range
<1>5. ASSUME NEW k \in 1..Size(d), Live(Data(d)[k])
      PROVE  Child(d, Data(d)[k].name) = Data(d)[k].inum
  <2> DEFINE name == Data(d)[k].name
             found == {e \in Range(Data(d)) : Live(e) /\ e.name = name}
  <2>1. \A j \in 1..Size(d) : Live(Data(d)[j]) /\ Data(d)[j].name = name => j = k
    BY <1>5, EntriesKnown
  <2>2. Data(d)[k] \in found
    BY <1>4, <1>5
  <2>3. ASSUME NEW e \in found PROVE e = Data(d)[k]
    <3>1. PICK j \in 1..Size(d) : e = Data(d)[j]
      BY <1>4
    <3>2. Live(Data(d)[j]) /\ Data(d)[j].name = name
      BY <3>1
    <3> QED
      BY <2>1, <3>1, <3>2
  <2>4. found = {Data(d)[k]}
    BY <2>2, <2>3
  <2>5. Child(d, name) = IF found = {} THEN 0 ELSE (CHOOSE e \in found : TRUE).inum
    BY DEF Child
  <2> HIDE DEF found
  <2>6. (CHOOSE e \in found : TRUE) = Data(d)[k]
    BY <2>4
  <2> QED
    BY <2>4, <2>5, <2>6
<1>6. Child(d, RunOn) = 0
  <2>1. \A k \in 1..Size(d) : Data(d)[k].name # RunOn
    BY EntriesKnown
  <2>2. {e \in Range(Data(d)) : Live(e) /\ e.name = RunOn} = {}
    BY <1>4, <2>1
  <2> QED
    BY <2>2 DEF Child
<1> QED
  BY <1>5, <1>6

LEMMA LookupGoesOn ==
    ASSUME NEW path \in Seq(Names), NEW name \in Names
    PROVE  pathname_lookup(Append(path, name)) = NextDirs(pathname_lookup(path), name)
<1> QED
  BY pathname_lookupStep

\* A lookup below a directory that was found looks the name up there.
LEMMA LookupBelow ==
    ASSUME image \in Images, NEW path \in Seq(Names), NEW name \in Names,
           NEW d \in Inodes, pathname_lookup(path) = {d}
    PROVE  pathname_lookup(Append(path, name)) = directory_findname(d, name)
<1>1. pathname_lookup(Append(path, name)) = NextDirs(pathname_lookup(path), name)
  BY LookupGoesOn
<1>2. d \in Nat \ {0}
  BY ImageKnown
<1>3. d \notin {Failed, 0}
  BY <1>2, FailedAssumption
<1>4. NextDirs({d}, name) = directory_findname(d, name)
  BY <1>3 DEF NextDirs
<1> QED
  BY <1>1, <1>4

\* A text that runs on is found nowhere.
LEMMA RunOnLookup ==
    ASSUME NEW path \in Seq(Names)
    PROVE  pathname_lookup(Append(path, RunOn)) \subseteq {Failed}
<1>1. RunOn \in Names
  BY DEF Names
<1>2. pathname_lookup(Append(path, RunOn)) = NextDirs(pathname_lookup(path), RunOn)
  BY <1>1, pathname_lookupStep
<1>3. \A d : directory_findname(d, RunOn) = {Failed}
  BY RunOnNotFound
<1>4. \A dirs : NextDirs(dirs, RunOn) \subseteq {Failed}
  BY <1>3 DEF NextDirs
<1> QED
  BY <1>2, <1>4

\* The first entry of a name that has its terminator.
LEMMA FirstNamed ==
    ASSUME image \in Images, NEW d \in Inodes, image[d].kind = "dir", NEW k \in 1..Size(d)
    PROVE  \E j \in 1..Size(d) : /\ Data(d)[j].name = Data(d)[k].name
                                 /\ \A m \in 1..(j - 1) : Data(d)[m].name # Data(d)[k].name
<1> DEFINE S == {j \in 1..Size(d) : Data(d)[j].name = Data(d)[k].name}
<1>1. Size(d) \in Nat
  BY ImageKnown
<1>2. S \subseteq Nat /\ S # {}
  OBVIOUS
<1> HIDE DEF S
<1>3. PICK j \in S : \A m \in S : j <= m
  BY <1>2, LeastElement
<1>4. j \in 1..Size(d) /\ Data(d)[j].name = Data(d)[k].name
  BY <1>3 DEF S
<1>5. ASSUME NEW m \in 1..(j - 1) PROVE Data(d)[m].name # Data(d)[k].name
  <2>1. m \in 1..Size(d) /\ ~(j <= m)
    BY <1>1, <1>4
  <2> QED
    BY <1>3, <2>1 DEF S
<1> QED
  BY <1>4, <1>5

\* A call and the one it was made from.
LEMMA Caller ==
    ASSUME TypeInv, OpenedInv, StackInv, Walking, NEW k \in 1..(Len(stack) - 1)
    PROVE  LET f == stack[k]
               j == f.i - 1
               e == Data(f.inum)[j]
           IN /\ f \in Frames /\ stack[k + 1] \in Frames
              /\ OpenedFrame(f) /\ PathLine(f.path, f.inum, Data(f.inum)) \in LinesBy("path")
              /\ j \in 1..Len(f.entries) /\ j \in 1..Size(f.inum) /\ j <= MaxEntries
              /\ f.entries[j] = e /\ IsChild(e) /\ stack[k + 1].inum = e.inum
              /\ \E t \in Names : /\ stack[k + 1].path = Append(f.path, t)
                                  /\ t = e.name \/ t = RunOn
                                  /\ e.name \notin LongNames => t = e.name
<1> DEFINE f == stack[k]
           g == stack[k + 1]
           j == f.i - 1
<1>1. k \in 1..Len(stack) /\ k + 1 \in 1..Len(stack) /\ k < Len(stack) /\ stack \in Seq(Frames)
  BY DEF TypeInv
<1>2. f \in Frames /\ g \in Frames
  BY <1>1
<1>3. OpenedFrame(f) /\ PathLine(f.path, f.inum, Data(f.inum)) \in LinesBy("path")
  BY <1>1 DEF OpenedInv, Opened
<1>4. CalledBy(g, f)
  BY DEF StackInv
<1> HIDE DEF f, g
<1>5. f.i \in Nat \ {0} /\ f.i <= Len(f.entries) + 1 /\ f.i > 1 /\ f.entries = EntriesOf(f.inum)
      /\ f.inum \in Inodes /\ image[f.inum].kind = "dir"
  BY <1>2, <1>3, <1>4 DEF OpenedFrame, CalledBy, Frames
<1>6. image \in Images
  BY DEF TypeInv
<1>7. Len(f.entries) \in Nat
  BY <1>5, <1>6, EntryOf
<1>8. j \in 1..Len(f.entries)
  BY <1>5, <1>7
<1> HIDE DEF j
<1>9. j \in 1..Size(f.inum) /\ j <= MaxEntries /\ f.entries[j] = Data(f.inum)[j]
  BY <1>5, <1>6, <1>8, EntryOf
<1>10. IsChild(f.entries[j]) /\ g.inum = f.entries[j].inum
       /\ \E t \in Texts(f.entries, j) : g.path = Append(f.path, t)
  BY <1>4 DEF CalledBy, LastOf, j
<1>11. PICK t \in Texts(f.entries, j) : g.path = Append(f.path, t)
  BY <1>10
<1>12. /\ t \in Names /\ (t = Data(f.inum)[j].name \/ t = RunOn)
       /\ Data(f.inum)[j].name \notin LongNames => t = Data(f.inum)[j].name
  BY <1>5, <1>6, <1>8, TextOf
<1> QED
  BY <1>2, <1>3, <1>8, <1>9, <1>10, <1>11, <1>12 DEF f, g, j

-----------------------------------------------------------------------------
(* What -p prints is true, and what it has to print it prints.             *)

LEMMA TopIs ==
    ASSUME TypeInv, StackInv, Walking
    PROVE  /\ Len(stack) \in Nat \ {0} /\ stack[Len(stack)] \in Frames /\ Top = stack[Len(stack)]
           /\ Top.path \in Seq(Names) /\ Top.inum \in Nat /\ Top.entries \in Seq(Units)
           /\ Top.i \in Nat \ {0}
<1>1. stack \in Seq(Frames) /\ stack # <<>>
  BY DEF TypeInv, StackInv
<1>2. Len(stack) \in Nat \ {0} /\ stack[Len(stack)] \in Frames
  BY <1>1
<1>3. Top = stack[Len(stack)]
  BY DEF Top, Last
<1> QED
  BY <1>2, <1>3 DEF Frames

LEMMA CleanAppend ==
    ASSUME NEW p \in Seq(Names), NEW t \in Names
    PROVE  Clean(Append(p, t)) <=> Clean(p) /\ t \notin LongNames
<1> DEFINE q == Append(p, t)
           n == Len(p)
<1>1. /\ n \in Nat /\ DOMAIN p = 1..n /\ DOMAIN q = 1..(n + 1) /\ q[n + 1] = t
      /\ \A k \in 1..n : q[k] = p[k]
  OBVIOUS
<1> HIDE DEF q, n
<1>2. Range(p) = {p[k] : k \in 1..n} /\ Range(q) = {q[k] : k \in 1..(n + 1)}
  BY <1>1 DEF Range
<1>3. n + 1 \in 1..(n + 1) /\ \A k \in 1..(n + 1) : k = n + 1 \/ k \in 1..n
  BY <1>1
<1>4. \A k \in 1..n : k \in 1..(n + 1)
  BY <1>1
<1>5. Range(q) = Range(p) \cup {t}
  BY <1>1, <1>2, <1>3, <1>4
<1> QED
  BY <1>5 DEF Clean, q

\* A line that is printed.
LEMMA Printed ==
    ASSUME TypeInv, OpenedInv, StackInv, pc = "enter", Top.inum # 0,
           NEW one \in chksumfile_byinumber(Top.inum),
           NEW two \in chksumfile_bypathname(Top.path),
           Failed \notin {one, two}, one = two
    PROVE  /\ Top.inum \in Inodes /\ Readable(Top.inum) /\ two = Data(Top.inum)
           /\ Top.inum = Denoted(Top.path)
           /\ Clean(Top.path) => pathname_lookup(Top.path) = {Top.inum}
<1> DEFINE n == Len(stack)
<1>1. /\ n \in Nat \ {0} /\ Top = stack[n] /\ Top.path \in Seq(Names) /\ Top.inum \in Nat
      /\ image \in Images /\ Walking
  BY TopIs DEF TypeInv, Walking
<1>2. Top.inum \in Inodes /\ Readable(Top.inum) /\ two = Data(Top.inum)
  <2>1. Top.inum \in Nat \ {0}
    BY <1>1
  <2> QED
    BY <2>1, <1>1, Contents
<1>3. Data(Top.inum) \in Seq(Units)
  BY <1>1, <1>2, ImageKnown
<1>4. CASE n = 1
  <2>1. Top.path = <<>> /\ Top.inum = Root
    BY <1>1, <1>4 DEF StackInv
  <2>2. pathname_lookup(<<>>) = {Root} /\ Denoted(<<>>) = Root
    <3>1. <<>> \in Seq(Names) /\ RunOn \in Names
      BY DEF Names
    <3> QED
      BY <3>1, pathname_lookupStep, DenotedStep
  <2> QED
    BY <2>1, <2>2, <1>2
<1>5. CASE n # 1
  <2> DEFINE f == stack[n - 1]
             d == f.inum
             j == f.i - 1
             e == Data(d)[j]
  <2>1. n - 1 \in 1..(Len(stack) - 1) /\ (n - 1) + 1 = n
    <3>1. n = Len(stack)
      OBVIOUS
    <3> HIDE DEF n
    <3> QED
      BY <3>1, <1>1, <1>5
  <2>2. /\ f \in Frames /\ OpenedFrame(f) /\ j \in 1..Size(d) /\ Top.inum = e.inum
        /\ \E t \in Names : Top.path = Append(f.path, t) /\ (t = e.name \/ t = RunOn)
    BY <2>1, <1>1, Caller
  <2>3. /\ f.path \in Seq(Names) /\ d \in Inodes /\ image[d].kind = "dir" /\ Readable(d)
        /\ d = Denoted(f.path)
        /\ Clean(f.path) => pathname_lookup(f.path) = {d}
    BY <2>2 DEF Frames, OpenedFrame
  <2> HIDE DEF f, j, e
  <2>4. PICK t \in Names : Top.path = Append(f.path, t) /\ (t = e.name \/ t = RunOn)
    BY <2>2
  <2>5. t # RunOn
    <3>1. SUFFICES ASSUME t = RunOn PROVE FALSE
      OBVIOUS
    <3>2. pathname_lookup(Top.path) \subseteq {Failed}
      BY <3>1, <2>3, <2>4, RunOnLookup
    <3>3. two = Failed
      BY <3>2 DEF chksumfile_bypathname
    <3> QED
      BY <3>3
  <2>6. t = e.name /\ Live(e)
    BY <2>2, <2>4, <2>5 DEF Live
  <2>7. Denoted(Top.path) = Top.inum
    <3>1. Denoted(Append(f.path, t)) = Child(Denoted(f.path), t)
      BY <2>3, DenotedStep
    <3>2. Child(d, e.name) = e.inum
      BY <2>2, <2>3, <2>6, <1>1, ChildFound DEF e
    <3> QED
      <4>1. Denoted(f.path) = d /\ Top.path = Append(f.path, t) /\ t = e.name /\ Top.inum = e.inum
        BY <2>2, <2>3, <2>4, <2>6, Zenon
      <4> HIDE DEF d
      <4> QED
        BY <4>1, <3>1, <3>2
  <2>8. ASSUME Clean(Top.path) PROVE pathname_lookup(Top.path) = {Top.inum}
    <3>1. Clean(f.path) /\ t \notin LongNames
      BY <2>3, <2>4, <2>8, CleanAppend
    <3>2. pathname_lookup(Top.path) = directory_findname(d, t)
      <4>1. /\ pathname_lookup(f.path) = {d} /\ f.path \in Seq(Names) /\ d \in Inodes
            /\ Top.path = Append(f.path, t)
        BY <3>1, <2>3, <2>4, Zenon
      <4> HIDE DEF d
      <4>2. pathname_lookup(Append(f.path, t)) = directory_findname(d, t)
        BY <4>1, <1>1, LookupBelow
      <4> QED
        BY <4>1, <4>2
    <3>3. PICK k \in 1..Size(d) : /\ Data(d)[k].name = t
                                  /\ \A m \in 1..(k - 1) : Data(d)[m].name # t
      <4>1. j \in 1..Size(d) /\ t = Data(d)[j].name /\ d \in Inodes /\ image[d].kind = "dir"
        BY <2>2, <2>3, <2>6 DEF e
      <4> HIDE DEF d
      <4>2. \E k \in 1..Size(d) : /\ Data(d)[k].name = Data(d)[j].name
                                  /\ \A m \in 1..(k - 1) : Data(d)[m].name # Data(d)[j].name
        BY <4>1, <1>1, FirstNamed
      <4> QED
        BY <4>1, <4>2
    <3>4. directory_findname(d, t) = {Data(d)[k].inum}
      BY <3>1, <3>3, <2>3, <1>1, NameFound
    <3>5. Data(d)[k].inum # 0
      <4>1. SUFFICES ASSUME Data(d)[k].inum = 0 PROVE FALSE
        OBVIOUS
      <4>2. pathname_lookup(Top.path) = {0} /\ 0 # Failed
        BY <4>1, <3>2, <3>4, FailedAssumption
      <4>3. two \in chksumfile_byinumber(0)
        BY <4>2 DEF chksumfile_bypathname
      <4>4. two \in {Failed, Garbage}
        BY <4>3 DEF chksumfile_byinumber
      <4> QED
        BY <4>4, <1>2, <1>3, FailedAssumption
    <3>6. j = k
      <4>1. Live(Data(d)[k]) /\ Live(Data(d)[j]) /\ Data(d)[k].name = Data(d)[j].name
        BY <3>3, <3>5, <2>6 DEF Live, e
      <4> QED
        BY <4>1, <2>2, <2>3, <1>1, EntriesKnown
    <3> QED
      BY <3>2, <3>4, <3>6, <2>2 DEF e
  <2> QED
    BY <2>7, <2>8, <1>2
<1> QED
  BY <1>4, <1>5

\* A call whose file can be read and found prints it.
LEMMA MustPrint ==
    ASSUME image \in Images, DumpPath, Top.inum \in Inodes, Readable(Top.inum),
           pathname_lookup(Top.path) = {Top.inum}
    PROVE  lines' = Append(lines, PathLine(Top.path, Top.inum, Data(Top.inum)))
<1> DEFINE i == Top.inum
<1>1. i \in Nat \ {0} /\ i # Failed /\ Data(i) # Failed
  <2>1. i \in Nat \ {0} /\ Data(i) \in Seq(Units)
    BY ImageKnown
  <2> QED
    BY <2>1, FailedAssumption
<1>2. chksumfile_byinumber(i) = {Data(i)}
  BY <1>1, Contents
<1>3. chksumfile_bypathname(Top.path) = {Data(i)}
  BY <1>1, <1>2 DEF chksumfile_bypathname
<1>4. inode_iget(i) # Failed /\ inode_iget(i).alloc
  <2>1. InodeSector(i) \notin bad
    BY ReadableMeans
  <2>2. inode_iget(i) = InodeOnDisk(i) /\ InodeOnDisk(i) # Failed
    BY <2>1, <1>1, InodeFound
  <2>3. InodeOnDisk(i).alloc
    BY DEF InodeOnDisk
  <2> QED
    BY <2>2, <2>3
<1> HIDE DEF i
<1>5. \E one \in {Data(i)}, two \in {Data(i)} :
         /\ ~(Failed \in {one, two} \/ one # two)
         /\ lines' = Append(lines, PathLine(Top.path, i, two))
  BY <1>1, <1>2, <1>3, <1>4 DEF DumpPath, i
<1> QED
  BY <1>5 DEF i

-----------------------------------------------------------------------------
(* A call returns.                                                         *)

\* Every call below has taken up the entry that the path of the last one goes
\* through.
LEMMA OnPath ==
    ASSUME TypeInv, OpenedInv, StackInv, Walking, NEW k \in 1..(Len(stack) - 1),
           Top.inum # 0, Top.inum = Denoted(Top.path)
    PROVE  TakenUp(stack[k], Top.path[k])
<1> DEFINE n == Len(stack)
           f == stack[k]
           g == stack[k + 1]
           j == f.i - 1
           e == Data(f.inum)[j]
<1>1. /\ n \in Nat \ {0} /\ Top = stack[n] /\ image \in Images
      /\ k + 1 \in 1..n /\ k \in 1..n /\ k \in Nat /\ k + 1 <= n
  BY TopIs DEF TypeInv
<1>2. g.inum # 0 /\ g.inum = Denoted(g.path)
  <2>1. CASE k + 1 = n
    BY <2>1, <1>1
  <2>2. CASE k + 1 # n
    <3>1. Opened(k + 1)
      BY <2>2, <1>1 DEF Opened
    <3>2. OpenedFrame(g)
      BY <3>1, <1>1 DEF OpenedInv
    <3>3. g.inum \in Inodes /\ g.inum = Denoted(g.path)
      BY <3>2 DEF OpenedFrame
    <3> QED
      BY <3>3, <1>1, ImageKnown
  <2> QED
    BY <2>1, <2>2
<1>3. /\ f \in Frames /\ OpenedFrame(f) /\ j \in 1..Len(f.entries) /\ j \in 1..Size(f.inum)
      /\ f.entries[j] = e /\ g.inum = e.inum
      /\ \E t \in Names : g.path = Append(f.path, t) /\ (t = e.name \/ t = RunOn)
  BY Caller
<1>4. f.inum = Denoted(f.path) /\ f.inum \in Inodes /\ image[f.inum].kind = "dir"
      /\ f.path \in Seq(Names)
  BY <1>3 DEF OpenedFrame, Frames
<1>5. Len(f.path) = k - 1
  BY <1>1 DEF StackInv
<1>6. Top.path[k] = g.path[k]
  <2>1. n \in (k + 1)..Len(stack) /\ k \in 1..((k + 1) - 1)
    BY <1>1
  <2>2. stack[n].path[k] = stack[k + 1].path[k]
    BY <2>1, <1>1 DEF StackInv
  <2> QED
    BY <2>2, <1>1
<1> HIDE DEF f, g, j, e, n
<1>7. PICK t \in Names : g.path = Append(f.path, t) /\ (t = e.name \/ t = RunOn)
  BY <1>3
<1>8. g.path[k] = t
  BY <1>1, <1>4, <1>5, <1>7
<1>9. Denoted(g.path) = Child(f.inum, t)
  BY <1>4, <1>7, DenotedStep
<1>10. t # RunOn
  BY <1>1, <1>2, <1>4, <1>9, ChildFound
<1>11. f.entries[j].name = t /\ Live(f.entries[j])
  BY <1>2, <1>3, <1>7, <1>10 DEF Live
<1>12. j \in 1..(f.i - 1)
  BY <1>3 DEF j
<1>13. TakenUp(f, t)
  BY <1>11, <1>12 DEF TakenUp
<1> QED
  BY <1>6, <1>8, <1>13 DEF f

\* What is left of the stack, and of what is known of its calls.
LEMMA Popped ==
    ASSUME TypeInv, StackInv, Walking, Return
    PROVE  /\ Len(stack) \in Nat \ {0} /\ stack' \in Seq(Frames)
           /\ Len(stack') = Len(stack) - 1
           /\ \A k \in 1..(Len(stack) - 1) : stack'[k] = stack[k]
           /\ pc' = IF Len(stack) = 1 THEN "done" ELSE "loop"
           /\ Walking' <=> Len(stack) # 1
           /\ Len(stack) = 1 => stack' = <<>>
<1>1. Len(stack) \in Nat \ {0} /\ stack \in Seq(Frames)
  BY TopIs DEF TypeInv
<1>2. stack' = SubSeq(stack, 1, Len(stack) - 1)
  BY DEF Return, Front
<1>3. pc' = IF Len(stack) = 1 THEN "done" ELSE "loop"
  BY DEF Return
<1> DEFINE n == Len(stack) - 1
<1>4. n \in Nat /\ n <= Len(stack) /\ n <= n
  BY <1>1
<1> HIDE DEF n
<1>5. SubSeq(stack, 1, n) \in Seq(Frames) /\ Len(SubSeq(stack, 1, n)) = n
      /\ \A k \in 1..n : SubSeq(stack, 1, n)[k] = stack[k]
  BY <1>1, <1>4, FirstOf
<1>6. Len(stack) = 1 => stack' = <<>>
  BY <1>1, <1>2
<1>7. Walking' <=> Len(stack) # 1
  BY <1>3 DEF Walking
<1> QED
  BY <1>1, <1>2, <1>3, <1>5, <1>6, <1>7 DEF n

LEMMA ReturnStack ==
    ASSUME TypeInv, OpenedInv, StackInv, LevelInv, OnceInv, UNCHANGED world, Walking, Return,
           LinesBy("path") \subseteq LinesBy("path")',
           \A l \in LinesBy("path")' : l \in LinesBy("path") \/
              /\ l.path = Top.path /\ l.inum = Top.inum
              /\ l.inum # 0 => Top.inum = Denoted(Top.path)
    PROVE  OpenedInv' /\ StackInv' /\ LevelInv' /\ OnceInv'
<1> DEFINE n == Len(stack)
<1>1. /\ n \in Nat \ {0} /\ stack' \in Seq(Frames) /\ Len(stack') = n - 1
      /\ \A k \in 1..(n - 1) : stack'[k] = stack[k]
      /\ pc' = IF n = 1 THEN "done" ELSE "loop"
      /\ (Walking' <=> n # 1) /\ (n = 1 => stack' = <<>>)
  BY Popped
<1>2. /\ \A k \in 1..(n - 1) : Opened(k) /\ Opened(k)' /\ k \in 1..n
      /\ \A k \in 1..Len(stack') : k \in 1..(n - 1)
  BY <1>1 DEF Opened
<1>3. /\ \A f \in Frames : OpenedFrame(f)' = OpenedFrame(f)
      /\ \A i : Data(i)' = Data(i)
      /\ Level' = Level
  BY SameWorld
<1>4. \A k \in 1..(n - 1) : stack[k] \in Frames
  BY <1>1 DEF TypeInv
<1>5. OpenedInv'
  <2> SUFFICES ASSUME Walking', NEW k \in 1..Len(stack')
               PROVE  (/\ OpenedFrame(stack[k])
                       /\ PathLine(stack[k].path, stack[k].inum, Data(stack[k].inum))
                             \in LinesBy("path"))'
    BY DEF OpenedInv
  <2>1. k \in 1..(n - 1) /\ k \in 1..n /\ Opened(k) /\ stack'[k] = stack[k] /\ stack[k] \in Frames
    BY <1>1, <1>2, <1>4
  <2>2. PICK f \in Frames : f = stack[k]
    BY <2>1
  <2>3. OpenedFrame(f) /\ PathLine(f.path, f.inum, Data(f.inum)) \in LinesBy("path")
    BY <2>1, <2>2 DEF OpenedInv
  <2>4. OpenedFrame(f)' /\ Data(f.inum)' = Data(f.inum)
    BY <2>3, <1>3
  <2> QED
    BY <2>1, <2>2, <2>3, <2>4
<1>6. StackInv'
  <2>1. pc' \in {"start", "inodes", "done"} => stack' = <<>>
    BY <1>1
  <2>2. ASSUME Walking'
        PROVE  /\ stack' # <<>> /\ stack'[1].path = <<>> /\ stack'[1].inum = Root
               /\ Len(stack') <= MaxFrames + 1 /\ Len(stack') <= MaxFrames /\ pc' # "enter"
    <3>1. 1 \in 1..(n - 1) /\ Len(stack') # 0
      BY <2>2, <1>1
    <3>2. stack[1].path = <<>> /\ stack[1].inum = Root /\ n <= MaxFrames + 1
      BY DEF StackInv
    <3> QED
      BY <3>1, <3>2, <1>1, Sizes
  <2>3. ASSUME Walking', NEW k \in 1..(Len(stack') - 1)
        PROVE  CalledBy(stack'[k + 1], stack'[k])
    <3>1. k \in 1..(n - 1) /\ k + 1 \in 1..(n - 1)
      BY <1>1
    <3>2. CalledBy(stack[k + 1], stack[k])
      BY <3>1 DEF StackInv
    <3> QED
      BY <3>1, <3>2, <1>1
  <2>4. ASSUME Walking', NEW k \in 1..Len(stack')
        PROVE  /\ Len(stack'[k].path) = k - 1
               /\ \A m \in k..Len(stack') : \A j \in 1..(k - 1) :
                     stack'[m].path[j] = stack'[k].path[j]
    <3>1. k \in 1..(n - 1) /\ k \in 1..n
      BY <1>2
    <3>2. /\ Len(stack[k].path) = k - 1
          /\ \A m \in k..n : \A j \in 1..(k - 1) : stack[m].path[j] = stack[k].path[j]
      BY <3>1 DEF StackInv
    <3>3. \A m \in k..Len(stack') : m \in k..n /\ m \in 1..(n - 1)
      BY <3>1, <1>1
    <3> QED
      BY <3>1, <3>2, <3>3, <1>1
  <2> QED
    BY <2>1, <2>2, <2>3, <2>4 DEF StackInv
<1>7. LevelInv'
  <2> SUFFICES ASSUME NEW k \in 1..Len(stack')
               PROVE  stack'[k].inum \in Level'[k - 1]
    BY DEF LevelInv
  <2>1. k \in 1..(n - 1) /\ k \in 1..n
    BY <1>2
  <2> QED
    BY <2>1, <1>1, <1>3 DEF LevelInv
<1>8. OnceInv'
  <2> SUFFICES ASSUME Walking', NEW l \in LinesBy("path")', NEW k \in 1..Len(stack'), l.inum # 0,
                      Extends(l.path, stack'[k].path)
               PROVE  l.path = stack'[k].path \/ TakenUp(stack'[k], l.path[k])
    BY <1>2 DEF OnceInv
  <2>1. k \in 1..(n - 1) /\ k \in 1..n /\ stack'[k] = stack[k] /\ Opened(k)
    BY <1>1, <1>2
  <2>2. CASE l \in LinesBy("path")
    BY <2>1, <2>2 DEF OnceInv
  <2>3. CASE l \notin LinesBy("path")
    <3>1. l.path = Top.path /\ Top.inum # 0 /\ Top.inum = Denoted(Top.path)
      BY <2>3
    <3>2. TakenUp(stack[k], Top.path[k])
      BY <2>1, <3>1, OnPath
    <3> QED
      BY <2>1, <3>1, <3>2
  <2> QED
    BY <2>2, <2>3
<1> QED
  BY <1>5, <1>6, <1>7, <1>8

LEMMA ReturnListed ==
    ASSUME TypeInv, OpenedInv, StackInv, ListedInv, UNCHANGED world, Walking, Return,
           LinesBy("path") \subseteq LinesBy("path")',
           \A l \in LinesBy("path")' : l \in LinesBy("path") \/
              (l.inum # 0 => image[l.inum].kind # "dir"),
           pc = "loop" => Top.i > Len(Top.entries),
           \A k \in 1..(Len(stack) - 1) : pc = "enter" /\ k = Len(stack) - 1 =>
              \A l \in LinesBy("path") :
                 l.path = stack[k].path /\ l.inum = stack[k].inum /\ Clean(l.path)
                 => \A m : m = stack[k].i - 1 => ChildListed(l, m)',
           pc = "enter" /\ Len(stack) = 1 /\ Readable(Root) =>
              PathLine(<<>>, Root, Data(Root)) \in LinesBy("path")'
    PROVE  ListedInv' /\ RootInv'
<1> DEFINE n == Len(stack)
<1>1. /\ n \in Nat \ {0} /\ stack' \in Seq(Frames) /\ Len(stack') = n - 1
      /\ \A k \in 1..(n - 1) : stack'[k] = stack[k]
      /\ pc' = IF n = 1 THEN "done" ELSE "loop"
      /\ (Walking' <=> n # 1)
  BY Popped
<1>2. /\ image' = image /\ command' = command
      /\ \A i : Data(i)' = Data(i) /\ Size(i)' = Size(i) /\ Readable(i)' = Readable(i)
  BY SameWorld
<1>3. Top = stack[n] /\ image \in Images
  BY TopIs DEF TypeInv
<1>4. ListedInv'
  <2> SUFFICES ASSUME NEW l \in LinesBy("path")', l.inum # 0, image[l.inum].kind = "dir",
                      Clean(l.path)
               PROVE  \/ \A e \in 1..Size(l.inum) : ChildListed(l, e)'
                      \/ /\ Walking'
                         /\ \E k \in 1..Len(stack') :
                              /\ Opened(k)' /\ stack'[k].path = l.path /\ stack'[k].inum = l.inum
                              /\ \A e \in 1..Size(l.inum) : e < Ahead(k)' => ChildListed(l, e)'
    BY <1>2 DEF ListedInv
  <2>1. l \in LinesBy("path")
    OBVIOUS
  <2>2. \A e : ChildListed(l, e) => ChildListed(l, e)'
    BY ListedStays
  <2>3. CASE \A e \in 1..Size(l.inum) : ChildListed(l, e)
    BY <2>2, <2>3
  <2>4. ASSUME NEW k \in 1..n, Opened(k), stack[k].path = l.path, stack[k].inum = l.inum,
               \A e \in 1..Size(l.inum) : e < Ahead(k) => ChildListed(l, e)
        PROVE  \/ \A e \in 1..Size(l.inum) : ChildListed(l, e)'
               \/ /\ Walking'
                  /\ \E m \in 1..Len(stack') :
                       /\ Opened(m)' /\ stack'[m].path = l.path /\ stack'[m].inum = l.inum
                       /\ \A e \in 1..Size(l.inum) : e < Ahead(m)' => ChildListed(l, e)'
    <3>1. stack[k].i \in Nat
      <4>1. stack[k] \in Frames
        BY <1>1 DEF TypeInv
      <4> QED
        BY <4>1 DEF Frames
    <3>2. CASE k = n
      <4>1. pc = "loop"
        BY <1>1, <2>4, <3>2 DEF Opened
      <4>2. Ahead(k) = stack[k].i /\ stack[k].i > Len(stack[k].entries)
        BY <4>1, <1>3, <3>2 DEF Ahead
      <4>3. OpenedFrame(stack[k])
        BY <2>4 DEF OpenedInv
      <4>4. stack[k].entries = EntriesOf(l.inum) /\ l.inum \in Inodes
        BY <4>3, <2>4 DEF OpenedFrame
      <4>5. /\ Len(EntriesOf(l.inum)) \in Nat /\ MaxEntries \in Nat /\ Size(l.inum) \in Nat
            /\ Len(EntriesOf(l.inum)) = IF Size(l.inum) < MaxEntries THEN Size(l.inum) ELSE MaxEntries
        BY <4>4, <1>3, EntryOf, Sizes, ImageKnown
      <4>6. ASSUME NEW e \in 1..Size(l.inum) PROVE ChildListed(l, e)'
        <5>1. CASE e <= MaxEntries
          <6>1. e < Ahead(k)
            BY <5>1, <4>2, <4>4, <4>5, <3>1
          <6> QED
            BY <6>1, <2>2, <2>4
        <5>2. CASE ~(e <= MaxEntries)
          BY <5>2 DEF ChildListed
        <5> QED
          BY <5>1, <5>2
      <4> QED
        BY <4>6
    <3>3. CASE k # n
      <4>1. k \in 1..(n - 1) /\ n # 1 /\ k \in 1..Len(stack') /\ pc' = "loop" /\ stack'[k] = stack[k]
        BY <3>3, <1>1
      <4>2. Opened(k)' /\ Ahead(k)' = stack[k].i
        BY <4>1 DEF Opened, Ahead
      <4>3. ASSUME NEW e \in 1..Size(l.inum), e < stack[k].i PROVE ChildListed(l, e)'
        <5>1. CASE e < Ahead(k)
          BY <5>1, <2>2, <2>4
        <5>2. CASE ~(e < Ahead(k))
          <6>1. pc = "enter" /\ k = n - 1 /\ Ahead(k) = stack[k].i - 1
            BY <4>3, <5>2 DEF Ahead
          <6>2. e = stack[k].i - 1
            BY <6>1, <5>2, <4>3, <3>1
          <6> QED
            BY <6>1, <6>2, <4>1, <2>1, <2>4
        <5> QED
          BY <5>1, <5>2
      <4> QED
        BY <4>1, <4>2, <4>3, <1>1, <2>4
    <3> QED
      BY <3>2, <3>3
  <2> QED
    BY <2>1, <2>3, <2>4 DEF ListedInv, Walking
<1>5. RootInv'
  <2> SUFFICES ASSUME pc' = "done", Readable(Root)
               PROVE  PathLine(<<>>, Root, Data(Root)) \in LinesBy("path")'
    BY <1>2 DEF RootInv
  <2>1. n = 1
    BY <1>1
  <2>2. CASE pc = "loop"
    <3>1. 1 \in 1..n /\ Opened(1)
      BY <2>1, <2>2 DEF Opened
    <3>2. PathLine(stack[1].path, stack[1].inum, Data(stack[1].inum)) \in LinesBy("path")
      BY <3>1 DEF OpenedInv
    <3>3. stack[1].path = <<>> /\ stack[1].inum = Root
      BY DEF StackInv
    <3> QED
      BY <3>2, <3>3
  <2> QED
    BY <2>1, <2>2 DEF Walking
<1> QED
  BY <1>4, <1>5

-----------------------------------------------------------------------------
(* A line that is printed.                                                 *)

\* A line of -p leaves what -i has printed as it was.
LEMMA PathLinePrinted ==
    ASSUME TypeInv, InodeInv, UNCHANGED <<world, inumber>>,
           pc \notin {"start", "inodes", "failed"}, pc' \notin {"start", "inodes", "failed"},
           NEW l \in Lines, l.by = "path",
           lines' = Append(lines, l) \/ lines' = lines
    PROVE  InodeInv' /\ lines' \in Seq(Lines)
<1> DEFINE n == Len(lines)
<1>1. /\ \A i : Data(i)' = Data(i) /\ Readable(i)' = Readable(i) /\ inode_iget(i)' = inode_iget(i)
      /\ Inodes' = Inodes /\ command' = command /\ inumber' = inumber
  BY SameWorld
<1>2. lines \in Seq(Lines) /\ n \in Nat /\ DOMAIN lines = 1..n
  BY DEF TypeInv
<1>3. /\ lines' \in Seq(Lines) /\ LinesBy("inode")' = LinesBy("inode")
      /\ DOMAIN lines' \subseteq 1..(n + 1)
      /\ \A k \in DOMAIN lines' : (k \in 1..n /\ lines'[k] = lines[k]) \/ lines'[k].by = "path"
  <2>1. CASE lines' = Append(lines, l)
    <3>1. LinesBy("inode")' = LinesBy("inode") \cup (IF l.by = "inode" THEN {l} ELSE {})
      BY <2>1, <1>2, LinesGrow
    <3>2. /\ lines' \in Seq(Lines) /\ DOMAIN lines' = 1..(n + 1) /\ lines'[n + 1] = l
          /\ \A k \in 1..n : lines'[k] = lines[k]
      BY <2>1, <1>2, LinesGrow
    <3>3. \A k \in 1..(n + 1) : k = n + 1 \/ k \in 1..n
      BY <1>2
    <3> QED
      BY <3>1, <3>2, <3>3
  <2>2. CASE lines' = lines
    <3>1. LinesBy("inode")' = LinesBy("inode")
      BY <2>2, LinesSame
    <3> QED
      BY <2>2, <3>1, <1>2
  <2> QED
    BY <2>1, <2>2
<1>4. \A k \in DOMAIN lines' : lines'[k].by = "inode" => k \in DOMAIN lines /\ lines'[k] = lines[k]
  BY <1>2, <1>3
<1>5. \A k \in DOMAIN lines' : lines'[k].by = "inode" => lines'[k].inum < inumber'
  BY <1>1, <1>4 DEF InodeInv
<1>6. InOrder'
  BY <1>4 DEF InodeInv, InOrder
<1>7. LinesBy("inode")' = {InodeLine(i, Data(i)') : i \in {m \in Inodes' : m < inumber' /\ Readable(m)'}}
  <2>1. LinesBy("inode") = {InodeLine(i, Data(i)) : i \in {m \in Inodes : m < inumber /\ Readable(m)}}
    BY DEF InodeInv
  <2> QED
    BY <2>1, <1>1, <1>3
<1>8. \A k \in 1..(inumber' - 1) : inode_iget(k)' # Failed
  BY <1>1 DEF InodeInv
<1>9. inumber' <= InodeSectors * InodesPerSector
  BY <1>1 DEF InodeInv
<1>10. pc' \notin {"start", "inodes", "failed"} /\ "i" \in command'.flags
       /\ inumber' < InodeSectors * InodesPerSector => inode_iget(inumber)' = Failed
  BY <1>1 DEF InodeInv
<1> QED
  BY <1>3, <1>5, <1>6, <1>7, <1>8, <1>9, <1>10 DEF InodeInv

\* It is true and new, or names no inode.
LEMMA LinesTrue ==
    ASSUME TypeInv, LineInv, NothingTwice, UNCHANGED world, NEW l \in Lines, l.by = "path",
           lines' = Append(lines, l),
           l.inum # 0 => TrueLine(l) /\ l \notin LinesBy("path")
    PROVE  LineInv' /\ NothingTwice'
<1> DEFINE n == Len(lines)
<1>1. /\ lines \in Seq(Lines) /\ n \in Nat /\ LinesBy("path")' = LinesBy("path") \cup {l}
      /\ DOMAIN lines' = 1..(n + 1) /\ DOMAIN lines = 1..n /\ lines'[n + 1] = l
      /\ \A k \in 1..n : lines'[k] = lines[k]
  <2>1. lines \in Seq(Lines) /\ n \in Nat
    BY DEF TypeInv
  <2>2. LinesBy("path")' = LinesBy("path") \cup (IF l.by = "path" THEN {l} ELSE {})
    BY <2>1, LinesGrow
  <2>3. /\ DOMAIN lines' = 1..(n + 1) /\ DOMAIN lines = 1..n /\ lines'[n + 1] = l
        /\ \A k \in 1..n : lines'[k] = lines[k]
    BY <2>1, LinesGrow
  <2> QED
    BY <2>1, <2>2, <2>3
<1>2. \A m : TrueLine(m)' = TrueLine(m)
  BY SameWorld
<1>3. LineInv'
  <2> SUFFICES ASSUME NEW m \in LinesBy("path")', m.inum # 0 PROVE TrueLine(m)'
    BY DEF LineInv
  <2>1. TrueLine(m)
    BY <1>1 DEF LineInv
  <2> QED
    BY <1>2, <2>1
<1>4. \A k \in 1..n : lines[k] = l => l.inum = 0
  <2> SUFFICES ASSUME NEW k \in 1..n, lines[k] = l PROVE l.inum = 0
    OBVIOUS
  <2>1. l \in LinesBy("path")
    BY <1>1 DEF LinesBy
  <2> QED
    BY <2>1
<1>5. NothingTwice'
  <2> SUFFICES ASSUME NEW i \in 1..(n + 1), NEW k \in 1..(n + 1), lines'[i] = lines'[k],
                      lines'[i].inum # 0
               PROVE  i = k
    BY <1>1 DEF NothingTwice
  <2>1. (i = n + 1 \/ i \in 1..n) /\ (k = n + 1 \/ k \in 1..n)
    BY <1>1
  <2>2. CASE i \in 1..n /\ k \in 1..n
    BY <2>2, <1>1 DEF NothingTwice
  <2>3. CASE i = n + 1 /\ k \in 1..n
    BY <2>3, <1>1, <1>4
  <2>4. CASE k = n + 1 /\ i \in 1..n
    BY <2>4, <1>1, <1>4
  <2> QED
    BY <2>1, <2>2, <2>3, <2>4
<1> QED
  BY <1>3, <1>5

\* A call that is to begin has nothing below it yet: its line is new.
LEMMA NewLine ==
    ASSUME TypeInv, StackInv, OnceInv, pc = "enter", Top.inum # 0, NEW l, l.path = Top.path,
           l.inum = Top.inum
    PROVE  l \notin LinesBy("path")
<1> DEFINE n == Len(stack)
<1>1. Walking /\ n \in Nat \ {0} /\ Top = stack[n] /\ Top.path \in Seq(Names)
  BY TopIs DEF Walking
<1>2. SUFFICES ASSUME l \in LinesBy("path") PROVE FALSE
  OBVIOUS
<1>3. Len(l.path) \in Nat
  BY <1>1
<1>4. n \in 1..n /\ ~Opened(n)
  BY <1>1 DEF Opened
<1>5. Extends(l.path, stack[n].path)
  BY <1>1, <1>3 DEF Extends
<1>6. stack[n].inum = 0
  BY <1>1, <1>2, <1>4, <1>5 DEF OnceInv
<1> QED
  BY <1>1, <1>6

LEMMA LineType ==
    ASSUME NEW path \in Seq(Names), NEW i \in Nat, NEW data \in Seq(Units) \cup {Garbage}
    PROVE  /\ PathLine(path, i, data) \in Lines /\ PathLine(path, i, data).by = "path"
           /\ PathLine(path, i, data).path = path /\ PathLine(path, i, data).inum = i
           /\ PathLine(path, i, data).data = data
<1> QED
  BY DEF PathLine, Lines

\* A path on from a directory, by an entry that a lookup finds.
LEMMA EntryFound ==
    ASSUME image \in Images, NEW path \in Seq(Names),
           NEW d \in Inodes, image[d].kind = "dir", Readable(d), pathname_lookup(path) = {d},
           NEW j \in 1..Size(d), Findable(d, j), Data(d)[j].name \in Names
    PROVE  pathname_lookup(Append(path, Data(d)[j].name)) = {Data(d)[j].inum}
<1>1. Data(d)[j].name \notin LongNames /\ \A m \in 1..(j - 1) : Data(d)[m].name # Data(d)[j].name
  BY DEF Findable
<1>2. PICK name : name = Data(d)[j].name
  OBVIOUS
<1>3. name \in Names /\ name \notin LongNames /\ \A m \in 1..(j - 1) : Data(d)[m].name # name
  BY <1>1, <1>2
<1>4. directory_findname(d, name) = {Data(d)[j].inum}
  BY <1>2, <1>3, NameFound
<1>5. pathname_lookup(Append(path, name)) = directory_findname(d, name)
  BY <1>3, LookupBelow
<1> QED
  BY <1>2, <1>4, <1>5

\* The entry that the last call is about is listed when it ends, if it has to be.
LEMMA EntryListed ==
    ASSUME TypeInv, OpenedInv, StackInv, pc = "enter", DumpPath, UNCHANGED world,
           NEW k \in 1..(Len(stack) - 1), k = Len(stack) - 1,
           NEW l \in LinesBy("path"), l.path = stack[k].path, l.inum = stack[k].inum, Clean(l.path)
    PROVE  \A m : m = stack[k].i - 1 => ChildListed(l, m)'
<1> DEFINE n == Len(stack)
           f == stack[k]
           d == f.inum
           j == f.i - 1
           e == Data(d)[j]
<1>1. /\ n \in Nat \ {0} /\ Top = stack[n] /\ image \in Images /\ k + 1 = n
      /\ Walking /\ lines \in Seq(Lines)
  BY TopIs DEF TypeInv, Walking
<1>2. /\ f \in Frames /\ OpenedFrame(f) /\ j \in 1..Size(d) /\ stack[k + 1].inum = e.inum
      /\ \E t \in Names : /\ stack[k + 1].path = Append(f.path, t)
                          /\ t = e.name \/ t = RunOn
                          /\ e.name \notin LongNames => t = e.name
  BY <1>1, Caller
<1>3. /\ d \in Inodes /\ image[d].kind = "dir" /\ Readable(d) /\ f.path \in Seq(Names)
      /\ pathname_lookup(f.path) = {d}
  BY <1>2 DEF OpenedFrame, Frames
<1>5. \A i : Data(i)' = Data(i) /\ Readable(i)' = Readable(i)
             /\ \A m : Findable(i, m)' = Findable(i, m)
  BY SameWorld
<1>6. ASSUME Findable(d, j), Readable(e.inum)
      PROVE  PathLine(Append(f.path, e.name), e.inum, Data(e.inum)) \in LinesBy("path")'
  <2>1. /\ Live(e) /\ e.name \notin LongNames
        /\ \A m \in 1..(j - 1) : Data(d)[m].name # e.name
    BY <1>6 DEF Findable
  <2>2. e.inum \in Inodes /\ e.inum \in Nat
    BY <2>1, <1>1, <1>2, <1>3, EntriesKnown DEF Live
  <2>3. e.name \in Names /\ Top.path = Append(f.path, e.name) /\ Top.inum = e.inum
    BY <2>1, <1>1, <1>2
  <2>5. pathname_lookup(Top.path) = {Top.inum}
    <3>1. PICK p, x, m : p = f.path /\ x = d /\ m = j
      OBVIOUS
    <3>2. Data(x)[m].name = e.name /\ Data(x)[m].inum = e.inum
      BY <3>1
    <3> HIDE DEF f, d, j, e
    <3>3. /\ p \in Seq(Names) /\ x \in Inodes /\ image[x].kind = "dir" /\ Readable(x)
          /\ pathname_lookup(p) = {x} /\ m \in 1..Size(x) /\ Findable(x, m) /\ image \in Images
      BY <3>1, <1>1, <1>2, <1>3, <1>6
    <3>4. Data(x)[m].name \in Names
      BY <3>2, <2>3
    <3>5. pathname_lookup(Append(p, Data(x)[m].name)) = {Data(x)[m].inum}
      BY <3>3, <3>4, EntryFound
    <3> QED
      BY <3>1, <3>2, <3>5, <2>3
  <2>6. lines' = Append(lines, PathLine(Top.path, Top.inum, Data(Top.inum)))
    BY <2>2, <2>3, <2>5, <1>1, <1>6, MustPrint
  <2>7. Top.path \in Seq(Names) /\ Top.inum \in Nat /\ Data(Top.inum) \in Seq(Units)
    BY <2>2, <2>3, <1>1, TopIs, ImageKnown
  <2> DEFINE new == PathLine(Top.path, Top.inum, Data(Top.inum))
  <2>8. new \in Lines /\ new.by = "path"
    BY <2>7, LineType
  <2> HIDE DEF new
  <2>9. LinesBy("path")' = LinesBy("path") \cup (IF new.by = "path" THEN {new} ELSE {})
    BY <2>6, <2>8, <1>1, LinesGrow DEF new
  <2> QED
    BY <2>3, <2>8, <2>9 DEF new
<1> HIDE DEF f
<1>7. SUFFICES ASSUME NEW m, m = j PROVE ChildListed(l, m)'
  BY DEF j, f
<1> HIDE DEF j
<1>8. l.path = f.path /\ l.inum = d /\ Data(l.inum)[m] = e
  BY <1>7 DEF f
<1> HIDE DEF d, e
<1>9. PICK x : x = Data(l.inum)[m]
  OBVIOUS
<1>10. Data(l.inum)' = Data(l.inum) /\ Findable(l.inum, m)' = Findable(l.inum, m)
       /\ Readable(x.inum)' = Readable(x.inum) /\ Data(x.inum)' = Data(x.inum)
  BY <1>5
<1>11. Findable(l.inum, m) /\ Readable(x.inum) =>
          PathLine(Append(l.path, x.name), x.inum, Data(x.inum)) \in LinesBy("path")'
  BY <1>6, <1>7, <1>8, <1>9
<1> QED
  BY <1>9, <1>10, <1>11 DEF ChildListed

LEMMA RootListed ==
    ASSUME TypeInv, StackInv, pc = "enter", DumpPath, Len(stack) = 1, Readable(Root)
    PROVE  PathLine(<<>>, Root, Data(Root)) \in LinesBy("path")'
<1>1. /\ Walking /\ Top = stack[1] /\ image \in Images /\ lines \in Seq(Lines)
  BY TopIs DEF TypeInv, Walking
<1>2. Top.path = <<>> /\ Top.inum = Root
  BY <1>1 DEF StackInv
<1>3. Root \in Inodes /\ Root \in Nat /\ Data(Root) \in Seq(Units)
  BY <1>1, ImageKnown
<1>4. <<>> \in Seq(Names) /\ RunOn \in Names
  BY DEF Names
<1>5. pathname_lookup(<<>>) = {Root}
  BY <1>4, pathname_lookupStep
<1>6. lines' = Append(lines, PathLine(Top.path, Top.inum, Data(Top.inum)))
  BY <1>1, <1>2, <1>3, <1>5, MustPrint
<1> DEFINE new == PathLine(<<>>, Root, Data(Root))
<1>7. new \in Lines /\ new.by = "path"
  <2>1. \A p \in Seq(Names) : \A i \in Nat : \A data \in Seq(Units) :
           PathLine(p, i, data) \in Lines /\ PathLine(p, i, data).by = "path"
    BY LineType
  <2> QED
    BY <1>3, <1>4, <2>1, Zenon
<1>8. lines' = Append(lines, new)
  BY <1>2, <1>6
<1> HIDE DEF new
<1>9. LinesBy("path")' = LinesBy("path") \cup (IF new.by = "path" THEN {new} ELSE {})
  BY <1>1, <1>7, <1>8, LinesGrow
<1> QED
  BY <1>7, <1>9 DEF new

-----------------------------------------------------------------------------
(* The steps of DumpPathAndChildren keep the invariant.                    *)

LEMMA LinesKept ==
    ASSUME LineInv, NothingTwice, UNCHANGED <<world, lines>>
    PROVE  LineInv' /\ NothingTwice' /\ LinesBy("path")' = LinesBy("path")
<1>1. LinesBy("path")' = LinesBy("path")
  BY LinesSame
<1>2. \A l : TrueLine(l)' = TrueLine(l)
  BY SameWorld
<1>3. LineInv'
  BY <1>1, <1>2 DEF LineInv
<1>4. NothingTwice'
  BY DEF NothingTwice
<1> QED
  BY <1>1, <1>3, <1>4

\* DumpPathAndChildren returns, perhaps with a line printed that nothing comes
\* after.
LEMMA ReturnKeeps ==
    ASSUME IInv, UNCHANGED <<world, inumber>>, Walking, Return,
           NEW l \in Lines, l.by = "path", l.path = Top.path, l.inum = Top.inum,
           \/ lines' = lines
           \/ /\ lines' = Append(lines, l) /\ pc = "enter"
              /\ l.inum # 0 => TrueLine(l) /\ image[l.inum].kind # "dir",
           pc = "loop" => Top.i > Len(Top.entries),
           \A k \in 1..(Len(stack) - 1) : pc = "enter" /\ k = Len(stack) - 1 =>
              \A m \in LinesBy("path") :
                 m.path = stack[k].path /\ m.inum = stack[k].inum /\ Clean(m.path)
                 => \A j : j = stack[k].i - 1 => ChildListed(m, j)',
           pc = "enter" /\ Len(stack) = 1 /\ Readable(Root) =>
              PathLine(<<>>, Root, Data(Root)) \in LinesBy("path")'
    PROVE  IInv'
<1>1. /\ TypeInv /\ OpenedInv /\ StackInv /\ LevelInv /\ LineInv /\ OnceInv
      /\ NothingTwice /\ ListedInv /\ RootInv /\ InodeInv /\ FailsOnlyOn
  BY DEF IInv
<1>2. /\ stack' \in Seq(Frames) /\ pc' \in {"done", "loop"}
      /\ pc \notin {"start", "inodes", "failed"} /\ pc' \notin {"start", "inodes", "failed"}
  BY <1>1, Popped DEF Walking
<1>3. InodeInv' /\ lines' \in Seq(Lines)
  <2>1. lines' = Append(lines, l) \/ lines' = lines
    OBVIOUS
  <2> QED
    BY <2>1, <1>1, <1>2, PathLinePrinted
<1>4. TypeInv'
  BY <1>1, <1>2, <1>3 DEF TypeInv, world
<1>5. /\ LineInv' /\ NothingTwice'
      /\ LinesBy("path") \subseteq LinesBy("path")'
      /\ \A m \in LinesBy("path")' : m \in LinesBy("path") \/
            /\ m = l
            /\ l.inum # 0 => TrueLine(l) /\ image[l.inum].kind # "dir"
  <2>1. CASE lines' = lines
    <3>1. LineInv' /\ NothingTwice' /\ LinesBy("path")' = LinesBy("path")
      BY <2>1, <1>1, LinesKept
    <3> QED
      BY <3>1
  <2>2. CASE /\ lines' = Append(lines, l) /\ pc = "enter"
             /\ l.inum # 0 => TrueLine(l) /\ image[l.inum].kind # "dir"
    <3>1. Top.inum # 0 => l \notin LinesBy("path")
      BY <2>2, <1>1, NewLine
    <3>2. LineInv' /\ NothingTwice'
      BY <3>1, <2>2, <1>1, LinesTrue
    <3>3. LinesBy("path")' = LinesBy("path") \cup (IF l.by = "path" THEN {l} ELSE {})
      <4>1. lines \in Seq(Lines)
        BY <1>1 DEF TypeInv
      <4> QED
        BY <4>1, <2>2, LinesGrow
    <3> QED
      BY <3>2, <3>3, <2>2
  <2> QED
    BY <2>1, <2>2
<1>6. \A m \in LinesBy("path")' : m \in LinesBy("path") \/
         /\ m.path = Top.path /\ m.inum = Top.inum
         /\ m.inum # 0 => Top.inum = Denoted(Top.path)
  BY <1>5 DEF TrueLine
<1>7. OpenedInv' /\ StackInv' /\ LevelInv' /\ OnceInv'
  <2>1. UNCHANGED world /\ LinesBy("path") \subseteq LinesBy("path")'
    BY <1>5
  <2> QED
    BY <2>1, <1>1, <1>6, ReturnStack
<1>8. \A m \in LinesBy("path")' : m \in LinesBy("path") \/ (m.inum # 0 => image[m.inum].kind # "dir")
  BY <1>5
<1>9. ListedInv' /\ RootInv'
  BY <1>1, <1>5, <1>8, ReturnListed
<1>10. FailsOnlyOn'
  BY <1>2 DEF FailsOnlyOn
<1> QED
  BY <1>3, <1>4, <1>5, <1>7, <1>9, <1>10 DEF IInv

\* The walk stops short.
LEMMA StopKeeps ==
    ASSUME IInv, UNCHANGED <<world, inumber, stack, lines>>, Walking,
           pc' \in {"aborted", "crashed"}, FailsOnlyOn'
    PROVE  IInv'
<1>1. /\ TypeInv /\ OpenedInv /\ StackInv /\ LevelInv /\ LineInv /\ OnceInv
      /\ NothingTwice /\ ListedInv /\ RootInv /\ InodeInv
  BY DEF IInv
<1>2. ~Walking' /\ pc' \notin {"start", "inodes", "failed", "done"}
      /\ pc \notin {"start", "inodes", "failed"}
  BY DEF Walking
<1>3. TypeInv'
  BY <1>1 DEF TypeInv, world
<1>4. OpenedInv' /\ LevelInv' /\ OnceInv' /\ StackInv'
  BY <1>2 DEF OpenedInv, LevelInv, OnceInv, StackInv
<1>5. LineInv' /\ NothingTwice'
  BY <1>1, LinesKept
<1>6. ListedInv' /\ RootInv'
  BY <1>2 DEF ListedInv, RootInv
<1>7. InodeInv'
  <2>1. \E l \in Lines : l.by = "path"
    <3>1. <<>> \in Seq(Names) /\ RunOn \in Names
      BY DEF Names
    <3>2. \A p \in Seq(Names) : \A i \in Nat : \A data \in Seq(Units) \cup {Garbage} :
             PathLine(p, i, data) \in Lines /\ PathLine(p, i, data).by = "path"
      BY LineType
    <3>3. PathLine(<<>>, 0, Garbage) \in Lines /\ PathLine(<<>>, 0, Garbage).by = "path"
      <4>1. 0 \in Nat /\ Garbage \in Seq(Units) \cup {Garbage}
        OBVIOUS
      <4> QED
        BY <4>1, <3>1, <3>2, Zenon
    <3> QED
      BY <3>3
  <2> QED
    BY <2>1, <1>1, <1>2, PathLinePrinted
<1> QED
  BY <1>3, <1>4, <1>5, <1>6, <1>7 DEF IInv

LEMMA DumpReturnKeeps == ASSUME IInv, DumpReturn PROVE IInv'
<1>1. /\ TypeInv /\ StackInv /\ Walking /\ pc = "loop" /\ Top.i > Len(Top.entries)
      /\ UNCHANGED <<world, inumber>> /\ lines' = lines /\ Return
  BY DEF IInv, DumpReturn, Walking
<1>2. Top.path \in Seq(Names) /\ Top.inum \in Nat
  BY <1>1, TopIs
<1> DEFINE l == PathLine(Top.path, Top.inum, Garbage)
<1>3. l \in Lines /\ l.by = "path" /\ l.path = Top.path /\ l.inum = Top.inum
  BY <1>2, LineType
<1> HIDE DEF l
<1> QED
  BY <1>1, <1>3, ReturnKeeps

LEMMA OverflowKeeps == ASSUME IInv, Overflow PROVE IInv'
<1>1. /\ TypeInv /\ StackInv /\ LevelInv /\ Walking /\ pc = "enter" /\ Len(stack) > MaxFrames
      /\ UNCHANGED <<world, inumber, stack, lines>> /\ pc' = "crashed"
  BY DEF IInv, Overflow, Walking
<1>2. Len(stack) = MaxFrames + 1 /\ Len(stack) \in Nat \ {0} /\ MaxFrames \in Nat
  <2>1. Len(stack) \in Nat \ {0} /\ MaxFrames \in Nat
    BY <1>1, TopIs, Sizes
  <2> QED
    BY <2>1, <1>1 DEF StackInv
<1>3. stack[Len(stack)].inum \in Level[MaxFrames]
  BY <1>1, <1>2 DEF LevelInv
<1>4. Level' = Level
  BY <1>1, SameWorld
<1>5. FailsOnlyOn'
  BY <1>1, <1>3, <1>4 DEF FailsOnlyOn
<1> QED
  BY <1>1, <1>5, StopKeeps

\* An entry that has been removed.
LEMMA Removed ==
    ASSUME TypeInv, OpenedInv, StackInv, Walking, Top.inum = 0
    PROVE  /\ Len(stack) - 1 \in 1..(Len(stack) - 1) /\ Len(stack) # 1
           /\ LET f == stack[Len(stack) - 1]
              IN /\ f.i - 1 \in 1..Size(f.inum) /\ ~Live(Data(f.inum)[f.i - 1])
                 /\ f.inum \in Inodes /\ image[f.inum].kind = "dir"
<1>1. Len(stack) \in Nat \ {0} /\ Top = stack[Len(stack)]
  BY TopIs
<1>2. Len(stack) # 1
  BY <1>1 DEF StackInv, Root
<1> DEFINE k == Len(stack) - 1
           f == stack[k]
<1>3. k \in 1..(Len(stack) - 1) /\ k + 1 = Len(stack)
  <2>1. \A n \in Nat \ {0} : n # 1 => n - 1 \in 1..(n - 1) /\ (n - 1) + 1 = n
    OBVIOUS
  <2> QED
    BY <2>1, <1>1, <1>2
<1> HIDE DEF k
<1>4. /\ OpenedFrame(f) /\ f.i - 1 \in 1..Size(f.inum)
      /\ stack[k + 1].inum = Data(f.inum)[f.i - 1].inum
  BY <1>3, Caller
<1>5. f.inum \in Inodes /\ image[f.inum].kind = "dir"
  BY <1>4 DEF OpenedFrame
<1>6. ~Live(Data(f.inum)[f.i - 1])
  BY <1>1, <1>3, <1>4 DEF Live
<1> QED
  BY <1>2, <1>3, <1>4, <1>5, <1>6 DEF k

LEMMA DumpGarbageKeeps == ASSUME IInv, DumpGarbage PROVE IInv'
<1>1. /\ TypeInv /\ OpenedInv /\ StackInv /\ Walking /\ pc = "enter" /\ Top.inum = 0
      /\ UNCHANGED <<world, inumber>>
  BY DEF IInv, DumpGarbage, Walking
<1> DEFINE f == stack[Len(stack) - 1]
           d == f.inum
           j == f.i - 1
<1>2. /\ Len(stack) - 1 \in 1..(Len(stack) - 1) /\ Len(stack) # 1
      /\ j \in 1..Size(d) /\ ~Live(Data(d)[j]) /\ d \in Inodes /\ image[d].kind = "dir"
  BY <1>1, Removed
<1>3. CASE pc' = "aborted" /\ UNCHANGED <<stack, lines>>
  <2>1. Data(d)[j] \in Range(Data(d))
    <3>1. DOMAIN Data(d) = 1..Size(d)
      <4>1. Data(d) \in Seq(Units) /\ Size(d) = Len(Data(d)) /\ Size(d) \in Nat
        <5>1. image \in Images
          BY <1>1 DEF TypeInv
        <5> QED
          BY <5>1, <1>2, ImageKnown DEF Size, Data
      <4> HIDE DEF d
      <4> QED
        BY <4>1
    <3> HIDE DEF d, j
    <3> QED
      BY <3>1, <1>2 DEF Range
  <2>2. \E x \in Inodes : image[x].kind = "dir" /\ \E e \in Range(Data(x)) : ~Live(e)
    BY <1>2, <2>1
  <2>3. Inodes' = Inodes /\ image' = image /\ \A x : Data(x)' = Data(x)
    BY <1>1, SameWorld
  <2> HIDE DEF f, d, j
  <2>4. FailsOnlyOn'
    BY <2>2, <2>3, <1>3 DEF FailsOnlyOn
  <2> QED
    BY <2>4, <1>1, <1>3, StopKeeps
<1>4. CASE Return /\ lines' \in {lines, Append(lines, PathLine(Top.path, 0, Garbage))}
  <2>1. Top.path \in Seq(Names) /\ Top.inum \in Nat
    BY <1>1, TopIs
  <2> DEFINE l == PathLine(Top.path, 0, Garbage)
  <2>2. l \in Lines /\ l.by = "path" /\ l.path = Top.path /\ l.inum = 0
    BY <2>1, LineType
  <2> HIDE DEF l
  <2>3. lines' = lines \/ (lines' = Append(lines, l) /\ pc = "enter" /\ l.inum = 0)
    BY <1>1, <1>4, <2>2 DEF l
  <2>4. ASSUME NEW k \in 1..(Len(stack) - 1), k = Len(stack) - 1, NEW m \in LinesBy("path"),
               m.inum = stack[k].inum
        PROVE  \A i : i = stack[k].i - 1 => ChildListed(m, i)'
    <3>1. SUFFICES ASSUME NEW i, i = stack[k].i - 1 PROVE ChildListed(m, i)'
      OBVIOUS
    <3>2. ~Live(Data(m.inum)[i])
      BY <3>1, <2>4, <1>2
    <3>3. ~Findable(m.inum, i)
      BY <3>2 DEF Findable
    <3>4. Findable(m.inum, i)' = Findable(m.inum, i)
      BY <1>1, SameWorld
    <3>5. ~Findable(m.inum, i)'
      BY <3>3, <3>4
    <3> QED
      BY <3>5 DEF ChildListed
  <2>5. Len(stack) # 1
    BY <1>2
  <2>6. l.inum = Top.inum
    BY <1>1, <2>2
  <2>7. /\ \/ lines' = lines
           \/ /\ lines' = Append(lines, l) /\ pc = "enter"
              /\ l.inum # 0 => TrueLine(l) /\ image[l.inum].kind # "dir"
        /\ pc = "loop" => Top.i > Len(Top.entries)
        /\ \A k \in 1..(Len(stack) - 1) : pc = "enter" /\ k = Len(stack) - 1 =>
              \A m \in LinesBy("path") :
                 m.path = stack[k].path /\ m.inum = stack[k].inum /\ Clean(m.path)
                 => \A i : i = stack[k].i - 1 => ChildListed(m, i)'
        /\ pc = "enter" /\ Len(stack) = 1 /\ Readable(Root) =>
              PathLine(<<>>, Root, Data(Root)) \in LinesBy("path")'
    BY <2>3, <2>4, <2>5, <1>1
  <2> QED
    BY <2>2, <2>6, <2>7, <1>1, <1>4, ReturnKeeps
<1> QED
  BY <1>3, <1>4 DEF DumpGarbage

\* A sequence with one element replaced.
LEMMA Replaced ==
    ASSUME NEW S, NEW s \in Seq(S), NEW n \in 1..Len(s), NEW g \in S
    PROVE  LET t == [s EXCEPT ![n] = g]
           IN /\ t \in Seq(S) /\ Len(t) = Len(s) /\ t[n] = g
              /\ \A k \in 1..Len(s) : k # n => t[k] = s[k]
<1> QED
  OBVIOUS

\* The body of DumpPathAndChildren prints a directory and goes on to its entries.
LEMMA OpenKeeps ==
    ASSUME IInv, UNCHANGED <<world, inumber>>, pc = "enter", Len(stack) <= MaxFrames,
           Top.inum \in Inodes, Readable(Top.inum), image[Top.inum].kind = "dir",
           Top.inum = Denoted(Top.path),
           Clean(Top.path) => pathname_lookup(Top.path) = {Top.inum},
           lines' = Append(lines, PathLine(Top.path, Top.inum, Data(Top.inum))),
           stack' = [stack EXCEPT ![Len(stack)].entries = GetDirEntries(Top.inum)],
           pc' = "loop",
           \A k \in 1..(Len(stack) - 1) : k = Len(stack) - 1 =>
              \A m \in LinesBy("path") :
                 m.path = stack[k].path /\ m.inum = stack[k].inum /\ Clean(m.path)
                 => \A j : j = stack[k].i - 1 => ChildListed(m, j)'
    PROVE  IInv'
<1>1. /\ TypeInv /\ OpenedInv /\ StackInv /\ LevelInv /\ LineInv /\ OnceInv
      /\ NothingTwice /\ ListedInv /\ RootInv /\ InodeInv /\ Walking /\ Walking'
  BY DEF IInv, Walking
<1> DEFINE n == Len(stack)
           l == PathLine(Top.path, Top.inum, Data(Top.inum))
<1>2. /\ n \in Nat \ {0} /\ Top = stack[n] /\ Top.path \in Seq(Names) /\ Top.inum \in Nat
      /\ image \in Images /\ lines \in Seq(Lines) /\ stack \in Seq(Frames) /\ n \in 1..n
  <2>1. n \in Nat \ {0} /\ Top = stack[n] /\ Top.path \in Seq(Names) /\ Top.inum \in Nat
    BY <1>1, TopIs
  <2> QED
    BY <2>1, <1>1 DEF TypeInv
<1>3. Top.inum # 0 /\ Data(Top.inum) \in Seq(Units)
  BY <1>2, ImageKnown
<1>4. /\ EntriesOf(Top.inum) \in Seq(Units) /\ GetDirEntries(Top.inum) = EntriesOf(Top.inum)
      /\ Len(EntriesOf(Top.inum)) \in Nat
  BY <1>2, EntryOf, Entries
<1>5. l \in Lines /\ l.by = "path" /\ l.path = Top.path /\ l.inum = Top.inum
      /\ l.data = Data(Top.inum)
  BY <1>2, <1>3, LineType
<1>6. lines' = Append(lines, l)
  OBVIOUS
<1>7. PICK g : g = [stack[n] EXCEPT !.entries = EntriesOf(Top.inum)]
  OBVIOUS
<1>8. /\ stack' = [stack EXCEPT ![n] = g] /\ g \in Frames
      /\ g.path = Top.path /\ g.inum = Top.inum /\ g.entries = EntriesOf(Top.inum)
      /\ g.i = 1
  <2>1. stack[n] \in Frames
    BY <1>2
  <2>2. stack' = [stack EXCEPT ![n] = g]
    BY <1>4, <1>7
  <2>3. stack[n].i = 1
    BY <1>1 DEF StackInv
  <2> QED
    BY <2>1, <2>2, <2>3, <1>2, <1>4, <1>7 DEF Frames
<1>9. /\ stack' \in Seq(Frames) /\ Len(stack') = n /\ stack'[n] = g
      /\ \A k \in 1..n : k # n => stack'[k] = stack[k]
  <2>1. stack \in Seq(Frames) /\ n \in 1..Len(stack) /\ g \in Frames
    BY <1>2, <1>8
  <2> HIDE DEF n
  <2>2. LET t == [stack EXCEPT ![n] = g]
        IN /\ t \in Seq(Frames) /\ Len(t) = Len(stack) /\ t[n] = g
           /\ \A k \in 1..Len(stack) : k # n => t[k] = stack[k]
    BY <2>1, Replaced
  <2> QED
    BY <2>2, <1>8 DEF n
<1>10. /\ \A k \in 1..n : /\ stack'[k].path = stack[k].path /\ stack'[k].inum = stack[k].inum
                          /\ stack'[k].i = stack[k].i
       /\ \A k \in 1..n : k # n => stack'[k].entries = stack[k].entries
  <2>1. stack[n].i = 1
    BY <1>1 DEF StackInv
  <2> QED
    BY <2>1, <1>2, <1>8, <1>9
<1> HIDE DEF l
<1>11. LinesBy("path")' = LinesBy("path") \cup {l}
  <2>1. LinesBy("path")' = LinesBy("path") \cup (IF l.by = "path" THEN {l} ELSE {})
    BY <1>2, <1>5, <1>6, LinesGrow
  <2> QED
    BY <2>1, <1>5
<1>12. InodeInv' /\ lines' \in Seq(Lines)
  <2>1. pc \notin {"start", "inodes", "failed"} /\ pc' \notin {"start", "inodes", "failed"}
    OBVIOUS
  <2> QED
    BY <2>1, <1>1, <1>5, <1>6, PathLinePrinted
<1>13. TypeInv'
  BY <1>1, <1>9, <1>12 DEF TypeInv, world
<1>14. LineInv' /\ NothingTwice'
  <2>1. TrueLine(l)
    BY <1>5 DEF TrueLine
  <2>2. l \notin LinesBy("path")
    BY <1>1, <1>3, <1>5, NewLine
  <2>3. UNCHANGED world
    OBVIOUS
  <2> QED
    BY <2>1, <2>2, <2>3, <1>1, <1>5, <1>6, LinesTrue
<1>15. /\ \A f \in Frames : OpenedFrame(f)' = OpenedFrame(f)
       /\ \A i : Data(i)' = Data(i)
       /\ Level' = Level /\ image' = image
  BY SameWorld
<1>16. /\ \A k \in 1..n : Opened(k)' /\ (k # n => Opened(k)) /\ Ahead(k)' = stack[k].i
       /\ ~Opened(n)
  <2>1. \A k \in 1..n : k # n => k < n
    BY <1>2
  <2>2. \A k \in 1..n : Opened(k)' /\ (k # n => Opened(k))
    BY <2>1, <1>9 DEF Opened
  <2>3. ~Opened(n)
    BY <1>2 DEF Opened
  <2>4. \A k \in 1..n : Ahead(k)' = stack[k].i
    BY <1>10 DEF Ahead
  <2> QED
    BY <2>2, <2>3, <2>4
<1>17. OpenedInv'
  <2> SUFFICES ASSUME NEW k \in 1..n
               PROVE  (/\ OpenedFrame(stack[k])
                       /\ PathLine(stack[k].path, stack[k].inum, Data(stack[k].inum))
                             \in LinesBy("path"))'
    BY <1>9 DEF OpenedInv
  <2>1. PICK f \in Frames : f = stack'[k]
    BY <1>9
  <2>2. CASE k # n
    <3>1. Opened(k) /\ f = stack[k]
      BY <2>1, <2>2, <1>9, <1>16
    <3>2. OpenedFrame(f) /\ PathLine(f.path, f.inum, Data(f.inum)) \in LinesBy("path")
      BY <3>1, <1>1 DEF OpenedInv
    <3>3. OpenedFrame(f)' /\ PathLine(f.path, f.inum, Data(f.inum)') \in LinesBy("path")'
      BY <3>2, <1>11, <1>15
    <3> QED
      BY <3>3, <2>1
  <2>3. CASE k = n
    <3>1. f = g
      BY <2>1, <2>3, <1>9
    <3>2. OpenedFrame(f)
      BY <3>1, <1>4, <1>8 DEF OpenedFrame
    <3>3. PathLine(f.path, f.inum, Data(f.inum)) = l
      BY <3>1, <1>8 DEF l
    <3>4. OpenedFrame(f)' /\ PathLine(f.path, f.inum, Data(f.inum)') \in LinesBy("path")'
      BY <3>2, <3>3, <1>11, <1>15
    <3> QED
      BY <3>4, <2>1
  <2> QED
    BY <2>2, <2>3
<1>18. StackInv'
  <2>1. /\ stack # <<>> /\ stack[1].path = <<>> /\ stack[1].inum = Root
        /\ \A k \in 1..(n - 1) : CalledBy(stack[k + 1], stack[k])
        /\ \A k \in 1..n : /\ Len(stack[k].path) = k - 1
                           /\ \A m \in k..n : \A j \in 1..(k - 1) :
                                 stack[m].path[j] = stack[k].path[j]
    BY <1>1 DEF StackInv
  <2>2. /\ stack' # <<>> /\ stack'[1].path = <<>> /\ stack'[1].inum = Root
        /\ Len(stack') <= MaxFrames + 1 /\ Len(stack') <= MaxFrames
    <3>1. 1 \in 1..n /\ n # 0
      BY <1>2
    <3>2. stack'[1].path = stack[1].path /\ stack'[1].inum = stack[1].inum
      BY <3>1, <1>10
    <3>3. Len(stack') = n /\ n <= MaxFrames /\ n <= MaxFrames + 1
      BY <1>2, <1>9, Sizes
    <3>4. stack' # <<>>
      <4>1. Len(<<>>) = 0
        OBVIOUS
      <4> QED
        BY <4>1, <3>1, <3>3
    <3> QED
      BY <2>1, <3>2, <3>3, <3>4
  <2>3. ASSUME NEW k \in 1..(n - 1) PROVE CalledBy(stack'[k + 1], stack'[k])
    <3>1. k \in 1..n /\ k # n /\ k + 1 \in 1..n
      BY <1>2
    <3>2. CalledBy(stack[k + 1], stack[k])
      BY <2>1
    <3>3. stack'[k] = stack[k] /\ stack'[k + 1].path = stack[k + 1].path
          /\ stack'[k + 1].inum = stack[k + 1].inum
      BY <3>1, <1>9, <1>10
    <3> QED
      BY <3>2, <3>3 DEF CalledBy
  <2>4. ASSUME NEW k \in 1..n
        PROVE  /\ Len(stack'[k].path) = k - 1
               /\ \A m \in k..n : \A j \in 1..(k - 1) :
                     stack'[m].path[j] = stack'[k].path[j]
    <3>1. \A m \in k..n : m \in 1..n
      BY <1>2
    <3>2. stack'[k].path = stack[k].path /\ Len(stack[k].path) = k - 1
      BY <2>1, <1>10
    <3>3. ASSUME NEW m \in k..n, NEW j \in 1..(k - 1)
          PROVE  stack'[m].path[j] = stack'[k].path[j]
      <4>1. stack'[m].path = stack[m].path
        BY <3>1, <1>10
      <4>2. stack[m].path[j] = stack[k].path[j]
        BY <2>1
      <4> QED
        BY <3>2, <4>1, <4>2
    <3> QED
      BY <3>2, <3>3
  <2>5. Len(stack') = n /\ pc' = "loop"
    BY <1>9
  <2> HIDE DEF n
  <2> QED
    BY <2>2, <2>3, <2>4, <2>5 DEF StackInv
<1>19. LevelInv'
  BY <1>1, <1>9, <1>10, <1>15 DEF LevelInv
<1>20. OnceInv'
  <2> SUFFICES ASSUME NEW m \in LinesBy("path")', NEW k \in 1..n, m.inum # 0,
                      Extends(m.path, stack'[k].path)
               PROVE  m.path = stack'[k].path \/ TakenUp(stack'[k], m.path[k])
    BY <1>9, <1>16 DEF OnceInv
  <2>1. Extends(m.path, stack[k].path) /\ stack'[k].path = stack[k].path
    BY <1>10
  <2>2. CASE m \in LinesBy("path") /\ k # n
    <3>1. stack'[k] = stack[k] /\ Opened(k)
      BY <2>2, <1>9, <1>16
    <3> QED
      BY <3>1, <2>1, <2>2, <1>1 DEF OnceInv
  <2>3. CASE m \in LinesBy("path") /\ k = n
    <3>1. stack[n].inum = 0
      BY <2>1, <2>3, <1>1, <1>16 DEF OnceInv
    <3> QED
      BY <3>1, <1>2, <1>3
  <2>4. CASE m = l /\ k = n
    BY <2>1, <2>4, <1>2, <1>5
  <2>5. CASE m = l /\ k # n
    <3>1. k \in 1..(Len(stack) - 1) /\ stack'[k] = stack[k]
      BY <2>5, <1>2, <1>9
    <3>2. TakenUp(stack[k], Top.path[k])
      BY <3>1, <1>1, <1>3, OnPath
    <3> QED
      BY <3>1, <3>2, <2>5, <1>5
  <2> QED
    BY <2>2, <2>3, <2>4, <2>5, <1>11
<1>21. ListedInv'
  <2> SUFFICES ASSUME NEW m \in LinesBy("path")', m.inum # 0, image[m.inum].kind = "dir",
                      Clean(m.path)
               PROVE  \/ \A e \in 1..Size(m.inum) : ChildListed(m, e)'
                      \/ \E k \in 1..n :
                           /\ stack[k].path = m.path /\ stack[k].inum = m.inum
                           /\ \A e \in 1..Size(m.inum) : e < stack[k].i => ChildListed(m, e)'
    <3>1. \A i : Size(i)' = Size(i)
      BY SameWorld
    <3>2. SUFFICES ASSUME NEW x \in LinesBy("path")', x.inum # 0, image[x.inum].kind = "dir",
                          Clean(x.path)
                   PROVE  \/ \A e \in 1..Size(x.inum) : ChildListed(x, e)'
                          \/ \E k \in 1..Len(stack') :
                               /\ Opened(k)' /\ stack'[k].path = x.path /\ stack'[k].inum = x.inum
                               /\ \A e \in 1..Size(x.inum) : e < Ahead(k)' => ChildListed(x, e)'
      BY <3>1, <1>1, <1>15 DEF ListedInv
    <3>3. \/ \A e \in 1..Size(x.inum) : ChildListed(x, e)'
          \/ \E k \in 1..n :
               /\ stack[k].path = x.path /\ stack[k].inum = x.inum
               /\ \A e \in 1..Size(x.inum) : e < stack[k].i => ChildListed(x, e)'
      BY <3>2
    <3>4. \A k \in 1..n : k \in 1..Len(stack')
      BY <1>9
    <3> QED
      BY <3>3, <3>4, <1>10, <1>16
  <2>1. CASE m = l
    <3>1. stack[n].i = 1
      BY <1>1 DEF StackInv
    <3>2. \A e \in 1..Size(m.inum) : ~(e < stack[n].i)
      BY <3>1
    <3> QED
      BY <2>1, <3>2, <1>2, <1>5
  <2>2. CASE m \in LinesBy("path")
    <3>1. \A e : ChildListed(m, e) => ChildListed(m, e)'
      BY <1>11, ListedStays
    <3>2. CASE \A e \in 1..Size(m.inum) : ChildListed(m, e)
      BY <3>1, <3>2
    <3>3. ASSUME NEW k \in 1..n, Opened(k), stack[k].path = m.path, stack[k].inum = m.inum,
                 \A e \in 1..Size(m.inum) : e < Ahead(k) => ChildListed(m, e)
          PROVE  \A e \in 1..Size(m.inum) : e < stack[k].i => ChildListed(m, e)'
      <4> SUFFICES ASSUME NEW e \in 1..Size(m.inum), e < stack[k].i PROVE ChildListed(m, e)'
        OBVIOUS
      <4>1. k # n
        BY <3>3, <1>16
      <4>2. CASE e < Ahead(k)
        BY <4>2, <3>1, <3>3
      <4>3. CASE ~(e < Ahead(k))
        <5>1. k = n - 1 /\ Ahead(k) = stack[k].i - 1 /\ stack[k].i \in Nat
          <6>1. stack[k] \in Frames
            BY <1>2
          <6>2. stack[k].i \in Nat
            BY <6>1 DEF Frames
          <6> QED
            BY <6>2, <4>3 DEF Ahead
        <5>2. e = stack[k].i - 1 /\ k \in 1..(Len(stack) - 1)
          BY <5>1, <4>3, <1>2
        <5> QED
          BY <5>1, <5>2, <2>2, <3>3
      <4> QED
        BY <4>2, <4>3
    <3> QED
      BY <2>2, <3>2, <3>3, <1>1 DEF ListedInv
  <2> QED
    BY <2>1, <2>2, <1>11
<1>22. RootInv' /\ FailsOnlyOn'
  BY DEF RootInv, FailsOnlyOn
<1> QED
  BY <1>12, <1>13, <1>14, <1>17, <1>18, <1>19, <1>20, <1>21, <1>22 DEF IInv

LEMMA DumpPathKeeps == ASSUME IInv, DumpPath PROVE IInv'
<1>1. /\ TypeInv /\ OpenedInv /\ StackInv /\ OnceInv /\ Walking /\ pc = "enter"
      /\ Len(stack) <= MaxFrames /\ Top.inum # 0 /\ UNCHANGED <<world, inumber>>
  BY DEF IInv, DumpPath, Walking
<1>2. /\ Len(stack) \in Nat \ {0} /\ Top = stack[Len(stack)]
      /\ Top.path \in Seq(Names) /\ Top.inum \in Nat /\ image \in Images
  BY <1>1, TopIs DEF TypeInv
<1>3. Top.inum \in Inodes
  <2>1. CASE Len(stack) = 1
    <3>1. Top.inum = Root
      BY <2>1, <1>1, <1>2 DEF StackInv
    <3> QED
      BY <3>1, <1>2, ImageKnown
  <2>2. CASE Len(stack) # 1
    <3> DEFINE k == Len(stack) - 1
               f == stack[k]
    <3>1. k \in 1..(Len(stack) - 1) /\ k + 1 = Len(stack)
      <4>1. \A n \in Nat \ {0} : n # 1 => n - 1 \in 1..(n - 1) /\ (n - 1) + 1 = n
        OBVIOUS
      <4> QED
        BY <4>1, <2>2, <1>2
    <3> HIDE DEF k
    <3>2. /\ OpenedFrame(f) /\ f.i - 1 \in 1..Size(f.inum)
          /\ stack[k + 1].inum = Data(f.inum)[f.i - 1].inum
      BY <3>1, <1>1, Caller
    <3>3. f.inum \in Inodes /\ image[f.inum].kind = "dir"
      BY <3>2 DEF OpenedFrame
    <3>4. Data(f.inum)[f.i - 1].inum \in Inodes \cup {0}
      BY <3>2, <3>3, <1>2, EntriesKnown
    <3> QED
      BY <3>1, <3>2, <3>4, <1>1, <1>2
  <2> QED
    BY <2>1, <2>2
<1>4. inode_iget(Top.inum) # Failed =>
         inode_iget(Top.inum).alloc /\ inode_iget(Top.inum).kind = image[Top.inum].kind
  <2> SUFFICES ASSUME inode_iget(Top.inum) # Failed
               PROVE  inode_iget(Top.inum).alloc /\ inode_iget(Top.inum).kind = image[Top.inum].kind
    OBVIOUS
  <2>1. Top.inum \in Nat \ {0}
    BY <1>1, <1>2
  <2>2. inode_iget(Top.inum) = InodeOnDisk(Top.inum)
    BY <2>1, <1>2, InodeFound
  <2>3. InodeOnDisk(Top.inum).alloc /\ InodeOnDisk(Top.inum).kind = image[Top.inum].kind
    BY <1>3 DEF InodeOnDisk
  <2> QED
    BY <2>2, <2>3
<1>5. \A k \in 1..(Len(stack) - 1) : k = Len(stack) - 1 =>
         \A m \in LinesBy("path") :
            m.path = stack[k].path /\ m.inum = stack[k].inum /\ Clean(m.path)
            => \A j : j = stack[k].i - 1 => ChildListed(m, j)'
  BY <1>1, EntryListed
<1>6. Len(stack) = 1 /\ Readable(Root) => PathLine(<<>>, Root, Data(Root)) \in LinesBy("path")'
  BY <1>1, RootListed
<1> DEFINE l == PathLine(Top.path, Top.inum, Garbage)
           new == PathLine(Top.path, Top.inum, Data(Top.inum))
<1>7. CASE Return /\ lines' = lines
  <2>1. l \in Lines /\ l.by = "path" /\ l.path = Top.path /\ l.inum = Top.inum
    BY <1>2, LineType
  <2> HIDE DEF l
  <2>2. pc # "loop"
    BY <1>1
  <2> QED
    BY <2>1, <2>2, <1>1, <1>5, <1>6, <1>7, ReturnKeeps
<1>8. ASSUME NEW one \in chksumfile_byinumber(Top.inum),
             NEW two \in chksumfile_bypathname(Top.path),
             Failed \notin {one, two}, one = two,
             lines' = Append(lines, PathLine(Top.path, Top.inum, two)),
             IF image[Top.inum].kind = "dir"
             THEN /\ stack' = [stack EXCEPT ![Len(stack)].entries = GetDirEntries(Top.inum)]
                  /\ pc' = "loop"
             ELSE Return
      PROVE  IInv'
  <2>1. /\ Readable(Top.inum) /\ two = Data(Top.inum) /\ Top.inum = Denoted(Top.path)
        /\ Clean(Top.path) => pathname_lookup(Top.path) = {Top.inum}
    BY <1>1, <1>8, Printed
  <2>2. lines' = Append(lines, new)
    BY <1>8, <2>1
  <2>3. CASE image[Top.inum].kind = "dir"
    <3>1. stack' = [stack EXCEPT ![Len(stack)].entries = GetDirEntries(Top.inum)] /\ pc' = "loop"
      BY <1>8, <2>3
    <3> QED
      BY <3>1, <2>1, <2>2, <2>3, <1>1, <1>3, <1>5, OpenKeeps
  <2>4. CASE image[Top.inum].kind # "dir"
    <3>1. Return
      BY <1>8, <2>4
    <3>2. Data(Top.inum) \in Seq(Units)
      BY <1>2, <1>3, ImageKnown
    <3>3. /\ new \in Lines /\ new.by = "path" /\ new.path = Top.path /\ new.inum = Top.inum
          /\ new.data = Data(Top.inum)
      BY <3>2, <1>2, LineType
    <3> HIDE DEF new
    <3>4. TrueLine(new) /\ image[new.inum].kind # "dir"
      BY <3>3, <2>1, <2>4, <1>3 DEF TrueLine
    <3>5. pc # "loop"
      BY <1>1
    <3> QED
      BY <3>1, <3>3, <3>4, <3>5, <2>2, <1>1, <1>5, <1>6, ReturnKeeps
  <2> QED
    BY <2>3, <2>4
<1>9. \/ Return /\ lines' = lines
      \/ \E one \in chksumfile_byinumber(Top.inum), two \in chksumfile_bypathname(Top.path) :
            /\ Failed \notin {one, two} /\ one = two
            /\ lines' = Append(lines, PathLine(Top.path, Top.inum, two))
            /\ IF image[Top.inum].kind = "dir"
               THEN /\ stack' = [stack EXCEPT ![Len(stack)].entries = GetDirEntries(Top.inum)]
                    /\ pc' = "loop"
               ELSE Return
  BY <1>4 DEF DumpPath
<1> QED
  BY <1>7, <1>8, <1>9

\* The next entry of a directory is taken up.
Taking(g) ==
    /\ g = [Top EXCEPT !.i = @ + 1]
    /\ \/ /\ Skipped(Top.entries[Top.i].name) /\ pc' = "loop"
          /\ stack' = [stack EXCEPT ![Len(stack)] = g]
       \/ /\ ~Skipped(Top.entries[Top.i].name) /\ pc' = "enter"
          /\ \E t \in Texts(Top.entries, Top.i) :
                stack' = Append([stack EXCEPT ![Len(stack)] = g],
                                Call(Append(Top.path, t), Top.entries[Top.i].inum))

\* The directory that it is an entry of, the entry, and the calls there are then.
LEMMA Taken ==
    ASSUME TypeInv, OpenedInv, StackInv, DumpChild
    PROVE  /\ Walking /\ Walking' /\ Len(stack) \in Nat \ {0} /\ Len(stack) <= MaxFrames
           /\ Top = stack[Len(stack)] /\ Top \in Frames
           /\ OpenedFrame(Top) /\ Top.i \in 1..Len(Top.entries) /\ Top.i \in 1..Size(Top.inum)
           /\ Top.entries[Top.i] = Data(Top.inum)[Top.i] /\ Top.entries[Top.i] \in Units
           /\ Top.entries[Top.i].inum \in Nat
           /\ Texts(Top.entries, Top.i) \subseteq {Top.entries[Top.i].name, RunOn}
           /\ \E g \in Frames :
                 /\ Taking(g) /\ g.path = Top.path /\ g.inum = Top.inum
                 /\ g.entries = Top.entries /\ g.i = Top.i + 1
<1> DEFINE n == Len(stack)
<1>1. /\ n \in Nat \ {0} /\ Top = stack[n] /\ Top \in Frames /\ Top.i \in Nat \ {0}
      /\ Walking /\ image \in Images /\ n \in 1..n
  BY TopIs DEF TypeInv, DumpChild, Walking
<1>2. n <= MaxFrames /\ Opened(n) /\ Walking'
  BY <1>1 DEF StackInv, Opened, DumpChild, Walking
<1>3. OpenedFrame(Top)
  BY <1>1, <1>2 DEF OpenedInv
<1>4. Top.entries = EntriesOf(Top.inum) /\ Top.inum \in Inodes /\ image[Top.inum].kind = "dir"
  BY <1>3 DEF OpenedFrame
<1>5. Top.i \in 1..Len(Top.entries)
  <2>1. Len(Top.entries) \in Nat
    BY <1>1, <1>4, EntryOf
  <2> QED
    BY <2>1, <1>1 DEF DumpChild
<1>6. /\ Top.i \in 1..Size(Top.inum) /\ Top.entries[Top.i] = Data(Top.inum)[Top.i]
      /\ Top.entries[Top.i] \in Units
  BY <1>1, <1>4, <1>5, EntryOf
<1>7. Top.entries[Top.i].inum \in Nat
  BY <1>1, <1>4, <1>6, EntriesKnown
<1>8. Texts(Top.entries, Top.i) \subseteq {Top.entries[Top.i].name, RunOn}
  BY DEF Texts
<1>9. PICK g : g = [Top EXCEPT !.i = @ + 1]
  OBVIOUS
<1>10. /\ g \in Frames /\ g.path = Top.path /\ g.inum = Top.inum
       /\ g.entries = Top.entries /\ g.i = Top.i + 1
  BY <1>1, <1>9 DEF Frames
<1>11. Taking(g)
  <2>1. [stack EXCEPT ![Len(stack)].i = @ + 1] = [stack EXCEPT ![Len(stack)] = g]
    BY <1>1, <1>9
  <2>2. pc = "loop"
    BY DEF DumpChild
  <2> QED
    BY <2>1, <2>2, <1>9 DEF DumpChild, Taking
<1> QED
  BY <1>1, <1>2, <1>3, <1>5, <1>6, <1>7, <1>8, <1>10, <1>11

LEMMA DumpChildKeeps == ASSUME IInv, DumpChild PROVE IInv'
<1>1. /\ TypeInv /\ OpenedInv /\ StackInv /\ LevelInv /\ LineInv /\ OnceInv
      /\ NothingTwice /\ ListedInv /\ RootInv /\ InodeInv
      /\ UNCHANGED <<world, inumber, lines>> /\ pc = "loop"
  BY DEF IInv, DumpChild
<1> DEFINE n == Len(stack)
           top == stack[n]
           e == top.entries[top.i]
<1>2. /\ Walking /\ Walking' /\ n \in Nat \ {0} /\ n <= MaxFrames /\ n \in 1..n
      /\ Top = top /\ top \in Frames
      /\ OpenedFrame(top) /\ top.i \in 1..Len(top.entries) /\ top.i \in 1..Size(top.inum)
      /\ e = Data(top.inum)[top.i] /\ e \in Units /\ e.inum \in Nat
      /\ Texts(top.entries, top.i) \subseteq {e.name, RunOn}
      /\ image \in Images /\ stack \in Seq(Frames)
  <2>1. image \in Images /\ stack \in Seq(Frames)
    BY <1>1 DEF TypeInv
  <2>2. Top = top
    BY <1>1, Taken
  <2>3. n \in Nat \ {0} /\ n \in 1..n
    BY <1>1, Taken
  <2> QED
    BY <2>1, <2>2, <2>3, <1>1, Taken
<1>3. PICK g \in Frames : /\ Taking(g) /\ g.path = top.path /\ g.inum = top.inum
                          /\ g.entries = top.entries /\ g.i = top.i + 1
  BY <1>1, <1>2, Taken
<1>4. PICK s : s = [stack EXCEPT ![n] = g]
  OBVIOUS
<1>5. s \in Seq(Frames) /\ Len(s) = n /\ s[n] = g /\ \A k \in 1..n : k # n => s[k] = stack[k]
  <2>1. n \in 1..Len(stack)
    BY <1>2
  <2> HIDE DEF n
  <2>2. LET t == [stack EXCEPT ![n] = g]
        IN /\ t \in Seq(Frames) /\ Len(t) = Len(stack) /\ t[n] = g
           /\ \A k \in 1..Len(stack) : k # n => t[k] = stack[k]
    BY <2>1, <1>2, Replaced
  <2> QED
    BY <2>2, <1>4 DEF n
<1>6. \/ Skipped(e.name) /\ pc' = "loop" /\ stack' = s
      \/ /\ ~Skipped(e.name) /\ pc' = "enter"
         /\ \E t \in Texts(top.entries, top.i) :
               stack' = Append(s, Call(Append(top.path, t), e.inum))
  BY <1>2, <1>3, <1>4 DEF Taking
<1>7. \A t \in Texts(top.entries, top.i) :
         /\ t \in Names /\ Call(Append(top.path, t), e.inum) \in Frames
         /\ Append(top.path, t) \in Seq(Names)
  <2> SUFFICES ASSUME NEW t \in Texts(top.entries, top.i)
               PROVE  /\ t \in Names /\ Call(Append(top.path, t), e.inum) \in Frames
                      /\ Append(top.path, t) \in Seq(Names)
    OBVIOUS
  <2> HIDE DEF e
  <2>1. t \in Names
    BY <1>2 DEF Names
  <2>2. Append(top.path, t) \in Seq(Names) /\ e.inum \in Nat /\ <<>> \in Seq(Units)
    BY <2>1, <1>2 DEF Frames
  <2> QED
    BY <2>1, <2>2 DEF Call, Frames
<1>8. /\ stack' \in Seq(Frames) /\ Len(stack') \in {n, n + 1}
      /\ \A k \in 1..n : stack'[k] = s[k]
      /\ Len(stack') = n <=> pc' = "loop"
      /\ pc' \in {"loop", "enter"}
      /\ pc' = "enter" => /\ ~Skipped(e.name)
                          /\ \E t \in Texts(top.entries, top.i) :
                                stack'[n + 1] = Call(Append(top.path, t), e.inum)
  <2>1. CASE Skipped(e.name) /\ pc' = "loop" /\ stack' = s
    BY <2>1, <1>2, <1>5
  <2>2. ASSUME NEW t \in Texts(top.entries, top.i), ~Skipped(e.name), pc' = "enter",
               stack' = Append(s, Call(Append(top.path, t), e.inum))
        PROVE  /\ stack' \in Seq(Frames) /\ Len(stack') = n + 1
               /\ \A k \in 1..n : stack'[k] = s[k]
               /\ stack'[n + 1] = Call(Append(top.path, t), e.inum)
    <3>1. PICK c \in Frames : c = Call(Append(top.path, t), e.inum)
      BY <1>7
    <3>2. stack' = Append(s, c)
      BY <2>2, <3>1
    <3> HIDE DEF n, e, top
    <3> QED
      BY <3>1, <3>2, <1>2, <1>5
  <2>3. n # n + 1
    BY <1>2
  <2> HIDE DEF n, e, top
  <2> QED
    BY <1>6, <2>1, <2>2, <2>3
<1>9. /\ \A k \in 1..n : k \in 1..Len(stack') /\ Opened(k) /\ Opened(k)'
      /\ \A k \in 1..Len(stack') : k \in 1..n \/ (k = n + 1 /\ pc' = "enter" /\ ~Opened(k)')
  <2>1. \A k \in 1..n : k \in 1..Len(stack') /\ (k < Len(stack') \/ Len(stack') = n)
    BY <1>2, <1>8
  <2>2. \A k \in 1..Len(stack') : k \in 1..n \/ (k = n + 1 /\ Len(stack') = n + 1)
    BY <1>2, <1>8
  <2>3. n + 1 # n /\ ~(n + 1 < n + 1)
    BY <1>2
  <2> QED
    BY <2>1, <2>2, <2>3, <1>1, <1>8 DEF Opened
<1>10. \A k \in 1..n :
         /\ stack[k] \in Frames /\ stack[k].i \in Nat
         /\ stack'[k].path = stack[k].path /\ stack'[k].inum = stack[k].inum
         /\ stack'[k].entries = stack[k].entries
         /\ k # n => stack'[k] = stack[k]
         /\ stack'[k].i = IF k = n THEN stack[k].i + 1 ELSE stack[k].i
  <2> SUFFICES ASSUME NEW k \in 1..n
               PROVE  /\ stack[k] \in Frames /\ stack[k].i \in Nat
                      /\ stack'[k].path = stack[k].path /\ stack'[k].inum = stack[k].inum
                      /\ stack'[k].entries = stack[k].entries
                      /\ k # n => stack'[k] = stack[k]
                      /\ stack'[k].i = IF k = n THEN stack[k].i + 1 ELSE stack[k].i
    OBVIOUS
  <2>1. stack[k] \in Frames
    BY <1>2
  <2>2. stack[k].i \in Nat
    BY <2>1 DEF Frames
  <2>3. CASE k = n
    BY <2>1, <2>2, <2>3, <1>3, <1>5, <1>8
  <2>4. CASE k # n
    BY <2>1, <2>2, <2>4, <1>5, <1>8
  <2> QED
    BY <2>3, <2>4
<1>11. \A k \in 1..n : /\ Ahead(k) = stack[k].i
                       /\ Ahead(k)' = IF k = n /\ pc' = "loop" THEN stack[k].i + 1 ELSE stack[k].i
  <2> SUFFICES ASSUME NEW k \in 1..n
               PROVE  /\ Ahead(k) = stack[k].i
                      /\ Ahead(k)' = IF k = n /\ pc' = "loop" THEN stack[k].i + 1 ELSE stack[k].i
    OBVIOUS
  <2>1. Ahead(k) = stack[k].i
    BY <1>1 DEF Ahead
  <2>2. CASE pc' = "loop"
    BY <2>1, <2>2, <1>10 DEF Ahead
  <2>3. CASE pc' = "enter"
    <3>1. Len(stack') - 1 = n
      BY <2>3, <1>2, <1>8
    <3>2. stack[k].i \in Nat
      BY <1>10
    <3> QED
      BY <2>1, <2>3, <3>1, <3>2, <1>10 DEF Ahead
  <2> QED
    BY <2>2, <2>3, <1>8
<1>12. /\ \A f \in Frames : OpenedFrame(f)' = OpenedFrame(f)
       /\ \A i : Data(i)' = Data(i) /\ Size(i)' = Size(i)
       /\ \A i, k : Findable(i, k)' = Findable(i, k)
       /\ Level' = Level /\ image' = image
  BY <1>1, SameWorld
<1>13. LineInv' /\ NothingTwice' /\ LinesBy("path")' = LinesBy("path")
  BY <1>1, LinesKept
<1>14. InodeInv'
  <2>1. \E l \in Lines : l.by = "path"
    <3>1. top.path \in Seq(Names) /\ top.inum \in Nat
      BY <1>2 DEF Frames
    <3>2. PathLine(top.path, top.inum, Garbage) \in Lines
          /\ PathLine(top.path, top.inum, Garbage).by = "path"
      BY <3>1, LineType
    <3> QED
      BY <3>2
  <2>2. /\ pc \notin {"start", "inodes", "failed"} /\ pc' \notin {"start", "inodes", "failed"}
        /\ UNCHANGED <<world, inumber>>
    BY <1>1, <1>8
  <2>3. lines' = lines
    BY <1>1
  <2> QED
    BY <2>1, <2>2, <2>3, <1>1, PathLinePrinted
<1>15. TypeInv'
  BY <1>1, <1>8 DEF TypeInv, world
<1>16. OpenedInv'
  <2> SUFFICES ASSUME NEW k \in 1..n
               PROVE  (/\ OpenedFrame(stack[k])
                       /\ PathLine(stack[k].path, stack[k].inum, Data(stack[k].inum))
                             \in LinesBy("path"))'
    BY <1>9 DEF OpenedInv
  <2>1. PICK f \in Frames : f = stack'[k]
    BY <1>8, <1>9
  <2>2. /\ OpenedFrame(stack[k])
        /\ PathLine(stack[k].path, stack[k].inum, Data(stack[k].inum)) \in LinesBy("path")
    BY <1>1, <1>2, <1>9 DEF OpenedInv
  <2>3. OpenedFrame(f)
    <3>1. CASE k # n
      BY <2>1, <2>2, <3>1, <1>10
    <3>2. CASE k = n
      <4>1. f.i <= Len(f.entries) + 1
        BY <2>1, <3>2, <1>2, <1>10
      <4> QED
        BY <2>1, <2>2, <4>1, <1>10 DEF OpenedFrame
    <3> QED
      BY <3>1, <3>2
  <2>4. PathLine(f.path, f.inum, Data(f.inum)') \in LinesBy("path")'
    BY <2>1, <2>2, <1>10, <1>12, <1>13
  <2>5. OpenedFrame(f)'
    BY <2>3, <1>12
  <2> QED
    BY <2>1, <2>4, <2>5
<1>17. StackInv'
  <2>1. /\ stack[1].path = <<>> /\ stack[1].inum = Root
        /\ \A k \in 1..(n - 1) : CalledBy(stack[k + 1], stack[k])
        /\ \A k \in 1..n : /\ Len(stack[k].path) = k - 1
                           /\ \A m \in k..n : \A j \in 1..(k - 1) :
                                 stack[m].path[j] = stack[k].path[j]
    BY <1>1, <1>2 DEF StackInv
  <2>2. /\ stack' # <<>> /\ stack'[1].path = <<>> /\ stack'[1].inum = Root
        /\ Len(stack') <= MaxFrames + 1 /\ (pc' = "loop" => Len(stack') <= MaxFrames)
    <3>1. 1 \in 1..n /\ Len(stack') # 0
      BY <1>2, <1>8
    <3>2. Len(stack') <= MaxFrames + 1 /\ (pc' = "loop" => Len(stack') <= MaxFrames)
      BY <1>2, <1>8, Sizes
    <3> QED
      BY <2>1, <3>1, <3>2, <1>10
  <2>3. pc' = "enter" => stack'[Len(stack')].i = 1 /\ stack'[Len(stack')].entries = <<>>
    <3> SUFFICES ASSUME pc' = "enter"
                 PROVE  stack'[Len(stack')].i = 1 /\ stack'[Len(stack')].entries = <<>>
      OBVIOUS
    <3>1. Len(stack') = n + 1
      BY <1>8
    <3>2. PICK t \in Texts(top.entries, top.i) :
             stack'[n + 1] = Call(Append(top.path, t), e.inum)
      BY <1>8
    <3>3. stack'[n + 1].i = 1 /\ stack'[n + 1].entries = <<>>
      BY <3>2 DEF Call
    <3> QED
      BY <3>1, <3>3
  <2>4. ASSUME NEW k \in 1..(Len(stack') - 1) PROVE CalledBy(stack'[k + 1], stack'[k])
    <3>1. CASE k \in 1..(n - 1)
      <4>1. k \in 1..n /\ k # n /\ k + 1 \in 1..n
        BY <3>1, <1>2
      <4>2. CalledBy(stack[k + 1], stack[k])
        BY <2>1, <3>1
      <4>3. stack'[k] = stack[k] /\ stack'[k + 1].path = stack[k + 1].path
            /\ stack'[k + 1].inum = stack[k + 1].inum
        BY <4>1, <1>10
      <4> QED
        BY <4>2, <4>3 DEF CalledBy
    <3>2. CASE k \notin 1..(n - 1)
      <4>1. k = n /\ pc' = "enter"
        BY <3>2, <1>2, <1>8
      <4>2. PICK t \in Texts(top.entries, top.i) :
               ~Skipped(e.name) /\ stack'[n + 1] = Call(Append(top.path, t), e.inum)
        BY <4>1, <1>8
      <4>3. stack'[n] = g
        BY <1>2, <1>5, <1>8
      <4>4. g.i > 1 /\ g.i - 1 = top.i
        BY <1>2, <1>3
      <4>5. LastOf(g) = e /\ IsChild(e)
        BY <4>2, <4>4, <1>3 DEF LastOf, IsChild, Skipped
      <4>6. CalledBy(Call(Append(top.path, t), e.inum), g)
        BY <4>4, <4>5, <1>3 DEF CalledBy, Call
      <4> QED
        BY <4>1, <4>2, <4>3, <4>6
    <3> QED
      BY <3>1, <3>2
  <2>5. ASSUME NEW k \in 1..Len(stack')
        PROVE  /\ Len(stack'[k].path) = k - 1
               /\ \A m \in k..Len(stack') : \A j \in 1..(k - 1) :
                     stack'[m].path[j] = stack'[k].path[j]
    <3>1. CASE k \in 1..n
      <4>1. /\ stack'[k].path = stack[k].path /\ Len(stack[k].path) = k - 1
            /\ \A m \in k..n : \A j \in 1..(k - 1) : stack[m].path[j] = stack[k].path[j]
        BY <2>1, <3>1, <1>10
      <4>2. ASSUME NEW m \in k..Len(stack'), NEW j \in 1..(k - 1)
            PROVE  stack'[m].path[j] = stack'[k].path[j]
        <5>1. CASE m \in k..n
          <6>1. m \in 1..n
            BY <5>1, <3>1
          <6>2. stack'[m].path = stack[m].path
            BY <6>1, <1>10
          <6> QED
            BY <4>1, <5>1, <6>2
        <5>2. CASE m \notin k..n
          <6>1. m = n + 1 /\ pc' = "enter"
            BY <5>2, <3>1, <1>2, <1>8
          <6>2. PICK t \in Texts(top.entries, top.i) :
                   stack'[n + 1] = Call(Append(top.path, t), e.inum)
            BY <6>1, <1>8
          <6>3. stack'[m].path = Append(top.path, t)
            BY <6>1, <6>2 DEF Call
          <6>4. top.path \in Seq(Names) /\ t \in Names /\ Len(top.path) = n - 1
            BY <2>1, <1>2, <1>7 DEF Frames
          <6>5. j \in 1..(n - 1) /\ n \in k..n
            BY <3>1, <1>2
          <6> HIDE DEF top, n, e
          <6>6. Append(top.path, t)[j] = top.path[j]
            BY <6>4, <6>5
          <6>7. top.path[j] = stack[k].path[j]
            BY <4>1, <6>5 DEF top
          <6> QED
            BY <4>1, <6>3, <6>6, <6>7
        <5> QED
          BY <5>1, <5>2
      <4> QED
        BY <4>1, <4>2
    <3>2. CASE k \notin 1..n
      <4>1. k = n + 1 /\ Len(stack') = n + 1 /\ pc' = "enter"
        BY <3>2, <1>2, <1>8, <1>9
      <4>2. PICK t \in Texts(top.entries, top.i) :
               stack'[n + 1] = Call(Append(top.path, t), e.inum)
        BY <4>1, <1>8
      <4>3. stack'[k].path = Append(top.path, t)
        BY <4>1, <4>2 DEF Call
      <4>4. top.path \in Seq(Names) /\ t \in Names /\ Len(top.path) = n - 1
        BY <2>1, <1>2, <1>7 DEF Frames
      <4> HIDE DEF top, n, e
      <4>5. Len(Append(top.path, t)) = n /\ k - 1 = n
        BY <4>1, <4>4, <1>2
      <4>6. \A m \in k..Len(stack') : m = k
        BY <4>1, <1>2
      <4> QED
        BY <4>3, <4>5, <4>6
    <3> QED
      BY <3>1, <3>2
  <2>6. pc' \in {"loop", "enter"}
    BY <1>8
  <2> HIDE DEF n
  <2> QED
    BY <2>2, <2>3, <2>4, <2>5, <2>6 DEF StackInv
<1>18. LevelInv'
  <2> SUFFICES ASSUME NEW k \in 1..Len(stack') PROVE stack'[k].inum \in Level[k - 1]
    BY <1>12 DEF LevelInv
  <2>1. \A m \in 1..n : stack[m].inum \in Level[m - 1]
    BY <1>1, <1>2 DEF LevelInv
  <2>2. CASE k \in 1..n
    BY <2>1, <2>2, <1>10
  <2>3. CASE k \notin 1..n
    <3>1. k = n + 1 /\ pc' = "enter"
      BY <2>3, <1>9
    <3>2. stack'[k].inum = e.inum /\ ~Skipped(e.name)
      <4>1. PICK t \in Texts(top.entries, top.i) :
               ~Skipped(e.name) /\ stack'[n + 1] = Call(Append(top.path, t), e.inum)
        BY <3>1, <1>8
      <4> QED
        BY <3>1, <4>1 DEF Call
    <3>3. n - 1 \in 0..(MaxFrames - 1) /\ (n - 1) + 1 = n /\ k - 1 = n
      BY <3>1, <1>2, Sizes
    <3>4. Level[n] = Below(Level[n - 1])
      BY <3>3, LevelStep
    <3>5. top.inum \in Level[n - 1] /\ top.inum \in Inodes /\ image[top.inum].kind = "dir"
      BY <2>1, <1>2 DEF OpenedFrame
    <3>6. e \in Range(Data(top.inum)) /\ IsChild(e)
      <4>1. DOMAIN Data(top.inum) = 1..Size(top.inum)
        <5>1. /\ Data(top.inum) \in Seq(Units) /\ Size(top.inum) = Len(Data(top.inum))
              /\ Size(top.inum) \in Nat
          BY <3>5, <1>2, ImageKnown DEF Size, Data
        <5> HIDE DEF top
        <5> QED
          BY <5>1
      <4>2. Data(top.inum)[top.i] \in Range(Data(top.inum))
        BY <4>1, <1>2 DEF Range
      <4> QED
        BY <4>2, <3>2, <1>2 DEF IsChild, Skipped
    <3> HIDE DEF e, top
    <3>7. e.inum \in Below(Level[n - 1])
      BY <3>5, <3>6 DEF Below
    <3> QED
      BY <3>2, <3>3, <3>4, <3>7
  <2> QED
    BY <2>2, <2>3
<1>19. OnceInv'
  <2> SUFFICES ASSUME NEW l \in LinesBy("path"), NEW k \in 1..Len(stack'), l.inum # 0,
                      Extends(l.path, stack'[k].path)
               PROVE  IF Opened(k)' THEN l.path = stack'[k].path \/ TakenUp(stack'[k], l.path[k])
                      ELSE stack'[k].inum = 0
    BY <1>13 DEF OnceInv
  <2>1. ASSUME NEW m \in 1..n, Extends(l.path, stack[m].path)
        PROVE  l.path = stack[m].path \/ TakenUp(stack[m], l.path[m])
    BY <2>1, <1>1, <1>2, <1>9 DEF OnceInv
  <2>2. CASE k \in 1..n
    <3>1. Extends(l.path, stack[k].path) /\ stack'[k].path = stack[k].path
      BY <2>2, <1>10
    <3>2. CASE l.path = stack[k].path
      BY <2>2, <3>1, <3>2, <1>9
    <3>3. CASE TakenUp(stack[k], l.path[k])
      <4>1. PICK j \in 1..(stack[k].i - 1) :
               Live(stack[k].entries[j]) /\ stack[k].entries[j].name = l.path[k]
        BY <3>3 DEF TakenUp
      <4>2. stack[k].i \in Nat /\ stack'[k].entries = stack[k].entries
            /\ stack'[k].i \in {stack[k].i, stack[k].i + 1}
        BY <2>2, <1>10
      <4>3. j \in 1..(stack'[k].i - 1)
        BY <4>1, <4>2
      <4>4. TakenUp(stack'[k], l.path[k])
        BY <4>1, <4>2, <4>3 DEF TakenUp
      <4> QED
        BY <2>2, <4>4, <1>9
    <3> QED
      BY <2>1, <2>2, <3>1, <3>2, <3>3
  <2>3. CASE k \notin 1..n
    <3>1. k = n + 1 /\ pc' = "enter" /\ ~Opened(k)'
      BY <2>3, <1>9
    <3>2. PICK t \in Texts(top.entries, top.i) :
             stack'[n + 1] = Call(Append(top.path, t), e.inum)
      BY <3>1, <1>8
    <3>3. stack'[k].path = Append(top.path, t) /\ stack'[k].inum = e.inum
      BY <3>1, <3>2 DEF Call
    <3>4. top.path \in Seq(Names) /\ t \in Names /\ Len(top.path) = n - 1
      <4>1. Len(top.path) = n - 1
        BY <1>1, <1>2 DEF StackInv
      <4> QED
        BY <4>1, <1>2, <1>7 DEF Frames
    <3>5. Extends(l.path, Append(top.path, t))
      BY <3>3
    <3> HIDE DEF top, n, e
    <3>6. /\ Len(Append(top.path, t)) = n /\ Append(top.path, t)[n] = t
          /\ \A j \in 1..(n - 1) : Append(top.path, t)[j] = top.path[j]
      BY <3>4, <1>2
    <3>7. /\ n <= Len(l.path) /\ l.path[n] = t
          /\ \A j \in 1..(n - 1) : l.path[j] = top.path[j] /\ j \in 1..n
      BY <3>5, <3>6, <1>2 DEF Extends
    <3>8. Extends(l.path, top.path) /\ l.path # top.path
      <4>1. Len(l.path) # n - 1 /\ n - 1 <= Len(l.path)
        <5>1. Len(l.path) \in Nat
          <6>1. l \in Lines
            BY <1>1 DEF LinesBy, TypeInv
          <6> QED
            BY <6>1 DEF Lines
        <5> QED
          BY <5>1, <3>7, <1>2
      <4> QED
        BY <4>1, <3>4, <3>7 DEF Extends
    <3>9. TakenUp(top, t)
      <4>1. l.path = top.path \/ TakenUp(top, l.path[n])
        BY <2>1, <3>8, <1>2 DEF top
      <4> QED
        BY <4>1, <3>7, <3>8
    <3>10. PICK j \in 1..(top.i - 1) : Live(top.entries[j]) /\ top.entries[j].name = t
      BY <3>9 DEF TakenUp
    <3>11. /\ top.inum \in Inodes /\ image[top.inum].kind = "dir"
           /\ top.entries = EntriesOf(top.inum)
      BY <1>2 DEF OpenedFrame
    <3>12. j \in 1..Len(top.entries) /\ j # top.i
      <4>1. Len(top.entries) \in Nat
        BY <3>11, <1>2, EntryOf
      <4> QED
        BY <4>1, <1>2
    <3>13. j \in 1..Size(top.inum) /\ top.entries[j] = Data(top.inum)[j]
      BY <3>11, <3>12, <1>2, EntryOf
    <3>14. t = e.name
      <4>1. t # RunOn
        BY <3>10, <3>11, <3>13, <1>2, EntriesKnown
      <4> QED
        BY <4>1, <3>2, <1>2
    <3>15. ~Live(e)
      BY <3>10, <3>11, <3>12, <3>13, <3>14, <1>2, EntriesKnown
    <3> QED
      BY <3>1, <3>3, <3>15 DEF Live
  <2> QED
    BY <2>2, <2>3
<1>20. ListedInv'
  <2> SUFFICES ASSUME NEW l \in LinesBy("path"), l.inum # 0, image[l.inum].kind = "dir",
                      Clean(l.path)
               PROVE  \/ \A m \in 1..Size(l.inum) : ChildListed(l, m)'
                      \/ \E k \in 1..Len(stack') :
                           /\ Opened(k)' /\ stack'[k].path = l.path /\ stack'[k].inum = l.inum
                           /\ \A m \in 1..Size(l.inum) : m < Ahead(k)' => ChildListed(l, m)'
    BY <1>2, <1>12, <1>13 DEF ListedInv
  <2>1. \A m : ChildListed(l, m) => ChildListed(l, m)'
    BY <1>1, <1>13, ListedStays
  <2>2. CASE \A m \in 1..Size(l.inum) : ChildListed(l, m)
    BY <2>1, <2>2
  <2>3. ASSUME NEW k \in 1..n, stack[k].path = l.path, stack[k].inum = l.inum,
               \A m \in 1..Size(l.inum) : m < Ahead(k) => ChildListed(l, m)
        PROVE  \E x \in 1..Len(stack') :
                  /\ Opened(x)' /\ stack'[x].path = l.path /\ stack'[x].inum = l.inum
                  /\ \A m \in 1..Size(l.inum) : m < Ahead(x)' => ChildListed(l, m)'
    <3>1. /\ Opened(k)' /\ stack'[k].path = l.path /\ stack'[k].inum = l.inum
          /\ k \in 1..Len(stack') /\ stack[k].i \in Nat
      BY <2>3, <1>9, <1>10
    <3>2. ASSUME NEW m \in 1..Size(l.inum), m < Ahead(k)' PROVE ChildListed(l, m)'
      <4>1. CASE m < stack[k].i
        BY <4>1, <2>1, <2>3, <1>11
      <4>2. CASE ~(m < stack[k].i)
        <5>1. k = n /\ pc' = "loop" /\ m = stack[k].i
          BY <4>2, <3>1, <3>2, <1>11
        <5>2. Skipped(e.name)
          <6>1. n # n + 1
            BY <1>2
          <6> QED
            BY <5>1, <1>6
        <5>3. ~IsChild(Data(l.inum)[m])
          BY <5>1, <5>2, <2>3, <1>2 DEF IsChild, Skipped
        <5>4. ~Findable(l.inum, m)'
          BY <5>3, <1>12 DEF Findable
        <5> QED
          BY <5>4 DEF ChildListed
      <4> QED
        BY <4>1, <4>2
    <3> QED
      BY <3>1, <3>2
  <2> QED
    BY <2>2, <2>3, <1>1, <1>2 DEF ListedInv
<1>21. RootInv' /\ FailsOnlyOn'
  BY <1>8 DEF RootInv, FailsOnlyOn
<1> QED
  BY <1>13, <1>14, <1>15, <1>16, <1>17, <1>18, <1>19, <1>20, <1>21 DEF IInv

-----------------------------------------------------------------------------
(* The steps of main and DumpInodeChecksum keep it too.                    *)

\* What -i leaves behind, whether it has run or not.
LEMMA PathsBegin ==
    ASSUME IInv, UNCHANGED <<world, inumber, lines>>, pc \in {"start", "inodes"}, ThenPaths,
           "i" \in command.flags /\ inumber < InodeSectors * InodesPerSector
              => inode_iget(inumber) = Failed
    PROVE  IInv'
<1>1. /\ TypeInv /\ OpenedInv /\ StackInv /\ LevelInv /\ LineInv /\ OnceInv
      /\ NothingTwice /\ ListedInv /\ RootInv /\ InodeInv
  BY DEF IInv
<1>2. \/ "p" \in command.flags /\ pc' = "enter" /\ stack' = <<Call(<<>>, Root)>>
      \/ "p" \notin command.flags /\ pc' = "done" /\ stack' = <<>>
  BY DEF ThenPaths
<1>3. LineInv' /\ NothingTwice' /\ LinesBy("path")' = LinesBy("path") /\ LinesBy("path") = {}
  BY <1>1, LinesKept DEF InodeInv
<1>4. Call(<<>>, Root) \in Frames
  <2>1. <<>> \in Seq(Names) /\ <<>> \in Seq(Units) /\ Root \in Nat /\ 1 \in Nat \ {0}
    BY DEF Root
  <2> QED
    BY <2>1 DEF Call, Frames
<1>5. PICK c \in Frames : c = Call(<<>>, Root) /\ c.path = <<>> /\ c.inum = Root
                          /\ c.i = 1 /\ c.entries = <<>>
  BY <1>4 DEF Call
<1>6. pc' = "enter" => /\ stack' = <<c>> /\ stack' \in Seq(Frames) /\ Len(stack') = 1
                       /\ stack'[1] = c
  <2>1. <<c>> \in Seq(Frames) /\ Len(<<c>>) = 1 /\ <<c>>[1] = c
    OBVIOUS
  <2>2. pc' = "enter" => stack' = <<c>>
    BY <1>2, <1>5
  <2> QED
    BY <2>1, <2>2
<1>7. TypeInv'
  <2>1. <<>> \in Seq(Frames)
    OBVIOUS
  <2>2. stack' \in Seq(Frames) /\ pc' \in {"enter", "done"}
    BY <2>1, <1>2, <1>6
  <2> QED
    BY <2>2, <1>1 DEF TypeInv, world
<1>8. \A k \in 1..1 : k = 1
  OBVIOUS
<1>9. Walking' => pc' = "enter"
  BY <1>2 DEF Walking
<1>10. OpenedInv' /\ OnceInv' /\ ListedInv'
  <2>1. pc' = "enter" => \A k \in 1..Len(stack') : ~Opened(k)'
    <3> SUFFICES ASSUME pc' = "enter", NEW k \in 1..Len(stack') PROVE ~Opened(k)'
      OBVIOUS
    <3>1. Len(stack') = 1 /\ k = 1
      BY <1>6, <1>8
    <3>2. ~(1 < 1)
      OBVIOUS
    <3> QED
      BY <3>1, <3>2 DEF Opened
  <2> QED
    BY <2>1, <1>3, <1>9 DEF OpenedInv, OnceInv, ListedInv
<1>11. StackInv'
  <2> SUFFICES ASSUME pc' = "enter"
               PROVE  /\ stack' # <<>> /\ stack'[1].path = <<>> /\ stack'[1].inum = Root
                      /\ Len(stack') <= MaxFrames + 1
                      /\ stack'[Len(stack')].i = 1 /\ stack'[Len(stack')].entries = <<>>
                      /\ \A k \in 1..(Len(stack') - 1) : CalledBy(stack'[k + 1], stack'[k])
                      /\ \A k \in 1..Len(stack') :
                            /\ Len(stack'[k].path) = k - 1
                            /\ \A m \in k..Len(stack') : \A j \in 1..(k - 1) :
                                  stack'[m].path[j] = stack'[k].path[j]
    BY <1>2, <1>9 DEF StackInv
  <2>1. stack' # <<>> /\ Len(stack') = 1 /\ stack'[1] = c
    BY <1>6
  <2>2. 1 <= MaxFrames + 1
    BY Sizes
  <2>3. \A k \in 1..(1 - 1) : FALSE
    OBVIOUS
  <2>4. Len(<<>>) = 0
    OBVIOUS
  <2> QED
    BY <2>1, <2>2, <2>3, <2>4, <1>5, <1>8
<1>12. LevelInv'
  <2>1. Level[0] = {Root} /\ Level' = Level
    BY LevelStep, SameWorld
  <2>2. pc' = "enter" => \A k \in 1..Len(stack') : stack'[k].inum \in Level[k - 1]
    <3> SUFFICES ASSUME pc' = "enter", NEW k \in 1..Len(stack') PROVE stack'[k].inum \in Level[k - 1]
      OBVIOUS
    <3>1. Len(stack') = 1 /\ k = 1 /\ stack'[1] = c
      BY <1>6, <1>8
    <3>2. k - 1 = 0
      BY <3>1
    <3> QED
      BY <3>1, <3>2, <2>1, <1>5
  <2> QED
    BY <2>1, <2>2, <1>9 DEF LevelInv
<1>13. RootInv'
  <2>1. command' = command
    BY SameWorld
  <2> QED
    BY <2>1, <1>2 DEF RootInv
<1>14. FailsOnlyOn'
  BY <1>2 DEF FailsOnlyOn
<1>15. InodeInv'
  <2>1. /\ \A i : Data(i)' = Data(i) /\ Readable(i)' = Readable(i) /\ inode_iget(i)' = inode_iget(i)
        /\ Inodes' = Inodes /\ command' = command /\ inumber' = inumber /\ lines' = lines
    BY SameWorld
  <2>2. LinesBy("inode")' = LinesBy("inode")
    BY LinesSame
  <2>3. InOrder'
    BY <2>1, <1>1 DEF InodeInv, InOrder
  <2>4. pc' \notin {"start", "inodes", "failed"}
    BY <1>2
  <2>5. LinesBy("inode")' = {InodeLine(i, Data(i)') : i \in {m \in Inodes' : m < inumber' /\ Readable(m)'}}
    BY <2>1, <2>2, <1>1 DEF InodeInv
  <2> QED
    BY <2>1, <2>3, <2>4, <2>5, <1>1 DEF InodeInv
<1> QED
  BY <1>3, <1>7, <1>10, <1>11, <1>12, <1>13, <1>14, <1>15 DEF IInv

\* A step that neither prints nor calls.
LEMMA Quiet ==
    ASSUME IInv, UNCHANGED <<world, inumber, stack, lines>>, pc = "start",
           pc' \in {"failed", "inodes"}
    PROVE  IInv'
<1>1. /\ TypeInv /\ StackInv /\ LineInv /\ NothingTwice /\ InodeInv
  BY DEF IInv
<1>2. ~Walking'
  BY DEF Walking
<1>3. LineInv' /\ NothingTwice' /\ LinesBy("path")' = {}
  BY <1>1, LinesKept DEF InodeInv
<1>4. TypeInv'
  BY <1>1 DEF TypeInv, world
<1>5. OpenedInv' /\ LevelInv' /\ OnceInv' /\ StackInv'
  BY <1>1, <1>2 DEF OpenedInv, LevelInv, OnceInv, StackInv
<1>6. ListedInv' /\ RootInv' /\ FailsOnlyOn'
  BY <1>3 DEF ListedInv, RootInv, FailsOnlyOn
<1>7. InodeInv'
  <2>1. /\ \A i : Data(i)' = Data(i) /\ Readable(i)' = Readable(i) /\ inode_iget(i)' = inode_iget(i)
        /\ Inodes' = Inodes /\ inumber' = inumber /\ lines' = lines
    BY SameWorld
  <2>2. LinesBy("inode")' = LinesBy("inode")
    BY LinesSame
  <2>3. InOrder'
    BY <2>1, <1>1 DEF InodeInv, InOrder
  <2>4. LinesBy("inode")' = {InodeLine(i, Data(i)') : i \in {m \in Inodes' : m < inumber' /\ Readable(m)'}}
    BY <2>1, <2>2, <1>1 DEF InodeInv
  <2> QED
    BY <2>1, <2>3, <2>4, <1>1, <1>3 DEF InodeInv
<1> QED
  BY <1>3, <1>4, <1>5, <1>6, <1>7 DEF IInv

LEMMA MainKeeps == ASSUME IInv, MainFails \/ Main \/ InodesEnd PROVE IInv'
<1>1. CASE MainFails
  BY <1>1, Quiet DEF MainFails
<1>2. CASE Main
  <2>1. CASE "i" \in command.flags
    BY <2>1, <1>2, Quiet DEF Main
  <2>2. CASE "i" \notin command.flags
    BY <2>2, <1>2, PathsBegin DEF Main
  <2> QED
    BY <2>1, <2>2
<1>3. CASE InodesEnd
  BY <1>3, PathsBegin DEF InodesEnd
<1> QED
  BY <1>1, <1>2, <1>3

\* What one more inode number adds up to.
LEMMA InodeStepDone ==
    ASSUME IInv, InodeStep, lines' \in Seq(Lines), LinesBy("path")' = {}, InOrder', NothingTwice',
           LinesBy("inode")' =
              {InodeLine(j, Data(j)) : j \in {m \in Inodes : m < inumber + 1 /\ Readable(m)}},
           \A k \in DOMAIN lines' : lines'[k].by = "inode" => lines'[k].inum < inumber + 1
    PROVE  IInv'
<1>1. /\ TypeInv /\ StackInv /\ InodeInv
      /\ pc = "inodes" /\ UNCHANGED <<world, pc, stack>> /\ inumber' = inumber + 1
      /\ inumber < InodeSectors * InodesPerSector /\ inode_iget(inumber) # Failed
  BY DEF IInv, InodeStep
<1>2. inumber \in Nat \ {0} /\ InodeSectors * InodesPerSector \in Nat
  BY <1>1, Sizes, Products DEF TypeInv
<1>3. /\ \A j : Data(j)' = Data(j) /\ Readable(j)' = Readable(j) /\ inode_iget(j)' = inode_iget(j)
      /\ Inodes' = Inodes
  BY <1>1, SameWorld
<1>4. TypeInv'
  BY <1>1, <1>2 DEF TypeInv, world
<1>5. ~Walking' /\ pc' = "inodes"
  BY <1>1 DEF Walking
<1>6. OpenedInv' /\ LevelInv' /\ OnceInv' /\ StackInv'
  BY <1>1, <1>5 DEF OpenedInv, LevelInv, OnceInv, StackInv
<1>7. LineInv' /\ ListedInv' /\ RootInv' /\ FailsOnlyOn'
  BY <1>5 DEF LineInv, ListedInv, RootInv, FailsOnlyOn
<1>8. InodeInv'
  <2>1. inumber' <= InodeSectors * InodesPerSector
    BY <1>1, <1>2
  <2>2. \A k \in 1..(inumber' - 1) : inode_iget(k)' # Failed
    <3>1. \A k \in 1..(inumber' - 1) : k = inumber \/ k \in 1..(inumber - 1)
      BY <1>1, <1>2
    <3> QED
      BY <3>1, <1>1, <1>3 DEF InodeInv
  <2>3. LinesBy("inode")' =
           {InodeLine(j, Data(j)') : j \in {m \in Inodes' : m < inumber' /\ Readable(m)'}}
    BY <1>1, <1>3
  <2>4. \A k \in DOMAIN lines' : lines'[k].by = "inode" => lines'[k].inum < inumber'
    BY <1>1
  <2> QED
    BY <2>1, <2>2, <2>3, <2>4, <1>5 DEF InodeInv
<1> QED
  BY <1>4, <1>6, <1>7, <1>8 DEF IInv

LEMMA InodeStepKeeps == ASSUME IInv, InodeStep PROVE IInv'
<1>1. /\ TypeInv /\ StackInv /\ LineInv /\ NothingTwice /\ InodeInv
      /\ pc = "inodes" /\ UNCHANGED <<world, pc, stack>> /\ inumber' = inumber + 1
      /\ inumber < InodeSectors * InodesPerSector /\ inode_iget(inumber) # Failed
  BY DEF IInv, InodeStep
<1> DEFINE i == inumber
           n == Len(lines)
<1>2. /\ i \in Nat \ {0} /\ lines \in Seq(Lines) /\ n \in Nat /\ DOMAIN lines = 1..n
      /\ image \in Images /\ InodeSectors * InodesPerSector \in Nat
      /\ LinesBy("path") = {}
  <2>1. InodeSectors * InodesPerSector \in Nat
    BY Sizes, Products
  <2> QED
    BY <2>1, <1>1 DEF TypeInv, InodeInv
<1>3. PICK data \in IF inode_iget(i).alloc THEN chksumfile_byinumber(i) ELSE {Failed} :
         lines' = IF data = Failed THEN lines ELSE Append(lines, InodeLine(i, data))
  BY DEF InodeStep
<1>4. data = IF i \in Inodes /\ Readable(i) THEN Data(i) ELSE Failed
  <2>1. inode_iget(i) = InodeOnDisk(i)
    BY <1>1, <1>2, InodeFound
  <2>2. chksumfile_byinumber(i) = IF i \in Inodes /\ Readable(i) THEN {Data(i)} ELSE {Failed}
    BY <1>2, Contents
  <2>3. InodeOnDisk(i).alloc <=> i \in Inodes
    BY DEF InodeOnDisk
  <2> QED
    BY <2>1, <2>2, <2>3, <1>3
<1>5. /\ \A j : Data(j)' = Data(j) /\ Readable(j)' = Readable(j) /\ inode_iget(j)' = inode_iget(j)
      /\ Inodes' = Inodes /\ command' = command
  BY <1>1, SameWorld
<1> DEFINE l == InodeLine(i, Data(i))
<1>6. i \in Inodes => Data(i) # Failed /\ l \in Lines /\ l.by = "inode" /\ l.inum = i
  <2> SUFFICES ASSUME i \in Inodes
               PROVE  Data(i) # Failed /\ l \in Lines /\ l.by = "inode" /\ l.inum = i
    OBVIOUS
  <2>1. Data(i) \in Seq(Units) /\ <<>> \in Seq(Names) /\ i \in Nat
    BY <1>2, ImageKnown
  <2>2. Data(i) # Failed
    BY <2>1, FailedAssumption
  <2> QED
    BY <2>1, <2>2 DEF InodeLine, Lines
<1>7. CASE i \in Inodes /\ Readable(i)
  <2>1. lines' = Append(lines, l) /\ l \in Lines /\ l.by = "inode" /\ l.inum = i
    BY <1>3, <1>4, <1>6, <1>7
  <2>2. LinesBy("inode") \cup {l} =
           {InodeLine(j, Data(j)) : j \in {m \in Inodes : m < i + 1 /\ Readable(m)}}
    <3>1. \A m \in Inodes : m < i + 1 <=> m < i \/ m = i
      <4>1. \A m \in Inodes : m \in Nat
        BY <1>2, ImageKnown
      <4> QED
        BY <4>1, <1>2
    <3>2. {m \in Inodes : m < i + 1 /\ Readable(m)} = {m \in Inodes : m < i /\ Readable(m)} \cup {i}
      BY <3>1, <1>7
    <3>3. LinesBy("inode") = {InodeLine(j, Data(j)) : j \in {m \in Inodes : m < i /\ Readable(m)}}
      BY <1>1 DEF InodeInv
    <3> QED
      BY <3>2, <3>3
  <2> HIDE DEF l
  <2>3. /\ lines' \in Seq(Lines)
        /\ DOMAIN lines' = 1..(n + 1) /\ lines'[n + 1] = l
        /\ \A k \in 1..n : lines'[k] = lines[k]
    BY <2>1, <1>2, LinesGrow
  <2>4. LinesBy("path")' = {} /\ LinesBy("inode")' = LinesBy("inode") \cup {l}
    <3>1. \A by : LinesBy(by)' = LinesBy(by) \cup (IF l.by = by THEN {l} ELSE {})
      BY <2>1, <1>2, LinesGrow
    <3> QED
      BY <2>1, <3>1, <1>2
  <2>5. \A k \in 1..n : lines[k].by = "inode" => lines[k].inum < i
    BY <1>1, <1>2 DEF InodeInv
  <2>6. \A k \in 1..(n + 1) : k = n + 1 \/ k \in 1..n
    BY <1>2
  <2>7. \A k \in DOMAIN lines' : lines'[k].by = "inode" => lines'[k].inum < i + 1
    <3> SUFFICES ASSUME NEW k \in 1..(n + 1), lines'[k].by = "inode" PROVE lines'[k].inum < i + 1
      BY <2>3
    <3>1. CASE k = n + 1
      BY <3>1, <2>1, <2>3, <1>2
    <3>2. CASE k \in 1..n
      <4>1. lines[k] \in Lines /\ lines'[k] = lines[k]
        BY <3>2, <2>3, <1>2
      <4>2. lines[k].inum \in Nat /\ lines[k].inum < i
        BY <4>1, <3>2, <2>5 DEF Lines
      <4> QED
        BY <4>1, <4>2, <1>2
    <3> QED
      BY <3>1, <3>2, <2>6
  <2>8. InOrder'
    <3> SUFFICES ASSUME NEW j \in 1..(n + 1), NEW k \in 1..(n + 1), j < k,
                        lines'[j].by = "inode", lines'[k].by = "inode"
                 PROVE  lines'[j].inum < lines'[k].inum
      BY <2>3 DEF InOrder
    <3>1. j \in 1..n
      BY <1>2
    <3>2. CASE k = n + 1
      BY <3>1, <3>2, <2>1, <2>3, <2>5
    <3>3. CASE k \in 1..n
      BY <3>1, <3>3, <2>3, <1>1, <1>2 DEF InodeInv, InOrder
    <3> QED
      BY <3>2, <3>3, <2>6
  <2>9. NothingTwice'
    <3>1. \A k \in 1..n : lines[k] # l
      <4> SUFFICES ASSUME NEW k \in 1..n, lines[k] = l PROVE FALSE
        OBVIOUS
      <4>1. i < i
        BY <2>1, <2>5
      <4> QED
        BY <4>1, <1>2
    <3> SUFFICES ASSUME NEW j \in 1..(n + 1), NEW k \in 1..(n + 1), lines'[j] = lines'[k],
                        lines'[j].inum # 0
                 PROVE  j = k
      BY <2>3 DEF NothingTwice
    <3>2. CASE j \in 1..n /\ k \in 1..n
      BY <3>2, <2>3, <1>1, <1>2 DEF NothingTwice
    <3>3. CASE j = n + 1 \/ k = n + 1
      BY <3>1, <3>3, <2>3, <2>6
    <3> QED
      BY <3>2, <3>3, <2>6
  <2> QED
    BY <2>2, <2>3, <2>4, <2>7, <2>8, <2>9, InodeStepDone
<1>8. CASE ~(i \in Inodes /\ Readable(i))
  <2>1. lines' = lines
    BY <1>3, <1>4, <1>8
  <2>2. LinesBy("inode") =
           {InodeLine(j, Data(j)) : j \in {m \in Inodes : m < i + 1 /\ Readable(m)}}
    <3>1. \A m \in Inodes : m < i + 1 <=> m < i \/ m = i
      <4>1. \A m \in Inodes : m \in Nat
        BY <1>2, ImageKnown
      <4> QED
        BY <4>1, <1>2
    <3>2. {m \in Inodes : m < i + 1 /\ Readable(m)} = {m \in Inodes : m < i /\ Readable(m)}
      BY <3>1, <1>8
    <3>3. LinesBy("inode") = {InodeLine(j, Data(j)) : j \in {m \in Inodes : m < i /\ Readable(m)}}
      BY <1>1 DEF InodeInv
    <3> QED
      BY <3>2, <3>3
  <2>3. LinesBy("path")' = {} /\ LinesBy("inode")' = LinesBy("inode")
    BY <2>1, <1>2, LinesSame
  <2>4. \A k \in DOMAIN lines' : lines'[k].by = "inode" => lines'[k].inum < i + 1
    <3> SUFFICES ASSUME NEW k \in 1..n, lines[k].by = "inode" PROVE lines[k].inum < i + 1
      BY <2>1, <1>2
    <3>1. lines[k].inum < i /\ lines[k] \in Lines
      BY <1>1, <1>2 DEF InodeInv
    <3>2. lines[k].inum \in Nat
      BY <3>1 DEF Lines
    <3> QED
      BY <3>1, <3>2, <1>2
  <2>5. InOrder' /\ NothingTwice'
    BY <2>1, <1>1 DEF InodeInv, InOrder, NothingTwice
  <2> QED
    BY <2>1, <2>2, <2>3, <2>4, <2>5, <1>2, InodeStepDone
<1> QED
  BY <1>7, <1>8

-----------------------------------------------------------------------------
(* The invariant.                                                          *)

LEMMA InitInv == ASSUME Init PROVE IInv
<1>1. /\ image \in Images /\ pc = "start" /\ inumber = 1 /\ stack = <<>> /\ lines = <<>>
  BY DEF Init
<1>2. ~Walking
  BY <1>1 DEF Walking
<1>3. DOMAIN lines = {}
  <2>1. DOMAIN <<>> = {}
    OBVIOUS
  <2> QED
    BY <1>1, <2>1
<1>4. \A by : LinesBy(by) = {}
  BY <1>3 DEF LinesBy
<1>5. TypeInv
  <2>1. <<>> \in Seq(Frames) /\ <<>> \in Seq(Lines) /\ 1 \in Nat \ {0}
    OBVIOUS
  <2> QED
    BY <2>1, <1>1 DEF TypeInv
<1>6. OpenedInv /\ LevelInv /\ OnceInv
  BY <1>2 DEF OpenedInv, LevelInv, OnceInv
<1>7. StackInv
  BY <1>1, <1>2 DEF StackInv
<1>8. LineInv /\ NothingTwice /\ ListedInv
  BY <1>3, <1>4 DEF LineInv, NothingTwice, ListedInv
<1>9. RootInv /\ FailsOnlyOn
  BY <1>1 DEF RootInv, FailsOnlyOn
<1>10. InodeInv
  <2>1. 1 <= InodeSectors * InodesPerSector
    <3>1. /\ 0 \in Nat /\ InodeSectors \in Nat /\ InodesPerSector \in Nat
          /\ 0 < InodeSectors /\ 1 <= InodesPerSector
      BY Sizes
    <3>2. InodesPerSector * 0 + InodesPerSector <= InodesPerSector * InodeSectors
          /\ InodesPerSector * InodeSectors = InodeSectors * InodesPerSector
          /\ InodeSectors * InodesPerSector \in Nat
      BY <3>1, Products
    <3>3. InodesPerSector * 0 = 0
      BY <3>1
    <3> QED
      BY <3>1, <3>2, <3>3
  <2>2. \A k \in 1..(inumber - 1) : FALSE
    BY <1>1
  <2>3. {n \in Inodes : n < inumber /\ Readable(n)} = {}
    <3>1. \A n \in Inodes : n \in Nat \ {0}
      BY <1>1, ImageKnown
    <3>2. \A n \in Nat \ {0} : ~(n < 1)
      OBVIOUS
    <3> QED
      BY <3>1, <3>2, <1>1
  <2>4. InOrder
    BY <1>3 DEF InOrder
  <2>5. LinesBy("inode") = {InodeLine(i, Data(i)) : i \in {n \in Inodes : n < inumber /\ Readable(n)}}
    BY <2>3, <1>4
  <2> QED
    BY <2>1, <2>2, <2>4, <2>5, <1>1, <1>3, <1>4 DEF InodeInv
<1> QED
  BY <1>5, <1>6, <1>7, <1>8, <1>9, <1>10 DEF IInv

\* A step that changes nothing.
LEMMA StutterKeeps == ASSUME IInv, UNCHANGED vars PROVE IInv'
<1>1. /\ TypeInv /\ OpenedInv /\ StackInv /\ LevelInv /\ LineInv /\ OnceInv
      /\ NothingTwice /\ ListedInv /\ RootInv /\ InodeInv /\ FailsOnlyOn
  BY DEF IInv
<1>2. /\ UNCHANGED world /\ pc' = pc /\ inumber' = inumber /\ stack' = stack /\ lines' = lines
      /\ image' = image /\ command' = command
  BY DEF vars, world
<1>3. TypeInv'
  BY <1>1, <1>2 DEF TypeInv
<1>4. /\ \A f \in Frames : OpenedFrame(f)' = OpenedFrame(f)
      /\ \A i : /\ Data(i)' = Data(i) /\ Size(i)' = Size(i) /\ Readable(i)' = Readable(i)
                /\ inode_iget(i)' = inode_iget(i)
      /\ Level' = Level /\ Inodes' = Inodes
  BY <1>2, SameWorld
<1>5. /\ LineInv' /\ NothingTwice' /\ \A by : LinesBy(by)' = LinesBy(by)
      /\ \A k : Opened(k)' = Opened(k) /\ Ahead(k)' = Ahead(k)
      /\ (Walking <=> Walking')
  BY <1>1, <1>2, LinesKept, LinesSame DEF Opened, Ahead, Walking
<1>6. OpenedInv'
  <2>1. \A k \in 1..Len(stack) : stack[k] \in Frames
    BY <1>1 DEF TypeInv
  <2>2. \A k \in 1..Len(stack) : OpenedFrame(stack[k])' = OpenedFrame(stack[k])
    <3> SUFFICES ASSUME NEW k \in 1..Len(stack) PROVE OpenedFrame(stack[k])' = OpenedFrame(stack[k])
      OBVIOUS
    <3>1. PICK f \in Frames : f = stack[k]
      BY <2>1
    <3>2. f = stack'[k]
      BY <3>1, <1>2
    <3>3. OpenedFrame(f)' = OpenedFrame(f)
      BY <1>4
    <3> QED
      BY <3>1, <3>2, <3>3
  <2>3. \A k \in 1..Len(stack) : Data(stack[k].inum)' = Data(stack[k].inum)
    <3> SUFFICES ASSUME NEW k \in 1..Len(stack) PROVE Data(stack[k].inum)' = Data(stack[k].inum)
      OBVIOUS
    <3>1. PICK i : i = stack[k].inum
      OBVIOUS
    <3>2. i = stack'[k].inum
      BY <3>1, <1>2
    <3>3. Data(i)' = Data(i)
      BY <1>4
    <3> QED
      BY <3>1, <3>2, <3>3
  <2> QED
    BY <2>2, <2>3, <1>1, <1>2, <1>5 DEF OpenedInv
<1>7. StackInv'
  BY <1>1, <1>2 DEF StackInv, Walking
<1>8. LevelInv' /\ OnceInv'
  BY <1>1, <1>2, <1>4, <1>5 DEF LevelInv, OnceInv
<1>9. ListedInv' /\ RootInv'
  <2>1. \A l, m : ChildListed(l, m) => ChildListed(l, m)'
    BY <1>2, <1>5, ListedStays
  <2>2. ListedInv'
    BY <2>1, <1>1, <1>2, <1>4, <1>5 DEF ListedInv
  <2>3. RootInv'
    BY <1>1, <1>2, <1>4, <1>5 DEF RootInv
  <2> QED
    BY <2>2, <2>3
<1>10. InodeInv'
  <2>1. InOrder'
    BY <1>1, <1>2 DEF InodeInv, InOrder
  <2>2. LinesBy("inode")' =
           {InodeLine(j, Data(j)') : j \in {m \in Inodes' : m < inumber' /\ Readable(m)'}}
    BY <1>1, <1>2, <1>4, <1>5 DEF InodeInv
  <2> QED
    BY <2>1, <2>2, <1>1, <1>2, <1>4, <1>5 DEF InodeInv
<1>11. FailsOnlyOn'
  BY <1>1, <1>2, <1>4 DEF FailsOnlyOn
<1> QED
  BY <1>3, <1>5, <1>6, <1>7, <1>8, <1>9, <1>10, <1>11 DEF IInv

\* The invariant is inductive.
LEMMA NextKeeps == ASSUME IInv, [Next]_vars PROVE IInv'
<1>1. CASE MainFails \/ Main \/ InodesEnd
  BY <1>1, MainKeeps
<1>2. CASE InodeStep
  BY <1>2, InodeStepKeeps
<1>3. CASE Overflow
  BY <1>3, OverflowKeeps
<1>4. CASE DumpGarbage
  BY <1>4, DumpGarbageKeeps
<1>5. CASE DumpPath
  BY <1>5, DumpPathKeeps
<1>6. CASE DumpChild
  BY <1>6, DumpChildKeeps
<1>7. CASE DumpReturn
  BY <1>7, DumpReturnKeeps
<1>8. CASE UNCHANGED vars
  BY <1>8, StutterKeeps
<1> QED
  BY <1>1, <1>2, <1>3, <1>4, <1>5, <1>6, <1>7, <1>8 DEF Next

LEMMA Invariant == Spec => []IInv
<1>1. Init => IInv
  BY InitInv
<1>2. IInv /\ [Next]_vars => IInv'
  BY NextKeeps
<1> QED
  BY <1>1, <1>2, PTL DEF Spec

-----------------------------------------------------------------------------
(* What follows from it.                                                   *)

\* What -i has printed when it has ended are the lines of the inodes it had to
\* list: the inodes before the one it ended at.
LEMMA InodesFollow == ASSUME IInv PROVE InodesListed
<1>1. TypeInv /\ InodeInv
  BY DEF IInv
<1> DEFINE S == InodeSectors * InodesPerSector
           Listed == {i \in Inodes : /\ i < S /\ Readable(i)
                                     /\ \A k \in 1..i : inode_iget(k) # Failed}
<1>2. SUFFICES ASSUME "i" \in command.flags, pc \notin {"start", "inodes", "failed"}
               PROVE  LinesBy("inode") = {InodeLine(i, Data(i)) : i \in Listed} /\ InOrder
  BY DEF InodesListed, InOrder
<1>3. InOrder
  BY <1>1 DEF InodeInv
<1>4. /\ S \in Nat /\ inumber \in Nat \ {0} /\ image \in Images /\ inumber <= S
      /\ \A k \in 1..(inumber - 1) : inode_iget(k) # Failed
      /\ inumber < S => inode_iget(inumber) = Failed
  <2>1. S \in Nat
    BY Sizes, Products
  <2> QED
    BY <2>1, <1>1, <1>2 DEF TypeInv, InodeInv
<1> HIDE DEF S
<1>5. ASSUME NEW i \in Inodes
      PROVE  i < inumber <=> i < S /\ \A k \in 1..i : inode_iget(k) # Failed
  <2>1. i \in Nat \ {0}
    BY <1>4, ImageKnown
  <2>2. CASE i < inumber
    <3>1. i < S /\ \A k \in 1..i : k \in 1..(inumber - 1)
      BY <2>1, <2>2, <1>4
    <3> QED
      BY <3>1, <2>2, <1>4
  <2>3. CASE ~(i < inumber) /\ i < S
    <3>1. inumber \in 1..i /\ inumber < S
      BY <2>1, <2>3, <1>4
    <3> QED
      BY <3>1, <2>3, <1>4
  <2>4. CASE ~(i < inumber) /\ ~(i < S)
    BY <2>4
  <2> QED
    BY <2>2, <2>3, <2>4
<1>6. Listed = {n \in Inodes : n < inumber /\ Readable(n)}
  BY <1>5
<1>7. LinesBy("inode") = {InodeLine(i, Data(i)) : i \in {n \in Inodes : n < inumber /\ Readable(n)}}
  BY <1>1 DEF InodeInv
<1> HIDE DEF Listed
<1> QED
  BY <1>3, <1>6, <1>7

\* When -p has ended, no call is left that has entries to go through.
LEMMA PathsFollow == ASSUME IInv PROVE PathsListed
<1>1. LineInv /\ NothingTwice /\ ListedInv /\ RootInv
  BY DEF IInv
<1>2. PathsTrue
  BY <1>1 DEF PathsTrue, LineInv, TrueLine
<1>3. ASSUME "p" \in command.flags, pc = "done" PROVE TreeListed
  <2>1. ~Walking
    BY <1>3 DEF Walking
  <2>2. \A l \in LinesBy("path") :
           l.inum # 0 /\ image[l.inum].kind = "dir" /\ Clean(l.path)
           => \A k \in 1..Size(l.inum) : ChildListed(l, k)
    BY <2>1, <1>1, <1>3 DEF ListedInv
  <2> QED
    BY <2>2, <1>1, <1>3 DEF TreeListed, RootInv, Clean
<1> QED
  BY <1>1, <1>2, <1>3 DEF PathsListed

\* The state of the program is of the right types: the stack holds calls, and the
\* lines that are printed are lines.
THEOREM UnixFSTypeCorrect == Spec => []TypeInv
<1>1. IInv => TypeInv
  BY DEF IInv
<1> QED
  BY <1>1, Invariant, PTL

\* -i (DumpInodeChecksum) prints exactly the allocated inodes that can be read up
\* to the first sector of inodes that cannot, but the last of the disk, in order
\* and each with the contents the image gives it: whatever the disk, through
\* direct, singly and doubly indirect blocks.
THEOREM InodesListedCorrect == Spec => []InodesListed
<1>1. IInv => InodesListed
  BY InodesFollow
<1> QED
  BY <1>1, Invariant, PTL

\* -p (DumpPathAndChildren) prints only what is true of the tree, nothing twice,
\* and when it has ended it has printed the root and, of every directory it has
\* printed, each of the first MaxEntries entries that can be read and that a lookup
\* finds.
THEOREM PathsListedCorrect == Spec => []PathsListed
<1>1. IInv => PathsListed
  BY PathsFollow
<1> QED
  BY <1>1, Invariant, PTL

\* The assertion of DumpPathAndChildren fails only on a disk with a removed entry,
\* and its stack overflows only on a tree that is too deep.
THEOREM FailsOnlyOnCorrect == Spec => []FailsOnlyOn
<1>1. IInv => FailsOnlyOn
  BY DEF IInv
<1> QED
  BY <1>1, Invariant, PTL
=============================================================================
