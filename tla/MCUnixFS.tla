------------------------------ MODULE MCUnixFS ------------------------------
(* Small disks for UnixFS: three sectors of two inodes, two units to a     *)
(* sector, three addresses in an inode, two in a table.                    *)
EXTENDS UnixFS

\* A file of n units, each of its own, and a directory.
Text(i, n) == [k \in 1..n |-> Entry("text", 20 * i + k)]
File(i, n, large) == [kind |-> "file", large |-> large, data |-> Text(i, n)]
Dir(d, parent, entries) ==
    [kind |-> "dir", large |-> FALSE,
     data |-> <<Entry(".", d), Entry("..", parent)>> \o entries]
Special == [kind |-> "special", large |-> FALSE, data |-> <<>>]

\* One file of every size, found through every kind of table it may have.
Sizes == {<<n, large>> \in (0..16) \X BOOLEAN : n <= 6 \/ large}
OneFile == {(1 :> Dir(1, 1, <<Entry("a", 2)>>)) @@ (2 :> File(2, s[1], s[2]))
              @@ (6 :> File(6, 1, FALSE)) : s \in Sizes}

\* Every way to fill the root with three entries, in use and removed; the name
\* "b" may be a second link to a file.
Slots == {Entry("a", 2), Entry("b", 2), Entry("b", 3), Entry("fourteen chars", 4),
          Entry("a", 0), Entry("fourteen chars", 0)}
Once(es) == \A j, k \in DOMAIN es :
               Live(es[j]) /\ Live(es[k]) /\ es[j].name = es[k].name => j = k
Roots == {es \in BoundedSeq(Slots, 3) : Once(es)}
FlatTrees == {(1 :> Dir(1, 1, es)) @@ (2 :> File(2, 2, FALSE)) @@ (3 :> Special)
                @@ (4 :> Dir(4, 1, <<Entry("c", 5)>>)) @@ (5 :> File(5, 3, FALSE))
              : es \in Roots}

\* A tree of three levels, a directory through tables, and one that has more
\* entries than there is room for.
Chain(last) == (1 :> Dir(1, 1, <<Entry("a", 2)>>)) @@ (2 :> Dir(2, 1, <<Entry("a", 3)>>))
               @@ (3 :> Dir(3, 2, <<>>)) @@ (4 :> File(4, 2, FALSE))
               @@ (5 :> Dir(5, 3, <<>>)) @@ last
DeepTrees == {Chain(2 :> File(2, 1, FALSE)), Chain(5 :> File(5, 1, FALSE))}
Deeper == [Chain(5 :> File(5, 1, FALSE)) EXCEPT ![3] = Dir(3, 2, <<Entry("d", 5)>>)]
Wide == (1 :> [Dir(1, 1, <<Entry("a", 2), Entry("b", 3), Entry("c", 4), Entry("d", 5)>>)
               EXCEPT !.large = TRUE])
        @@ (2 :> File(2, 1, FALSE)) @@ (3 :> File(3, 4, TRUE)) @@ (4 :> Special)
        @@ (5 :> Dir(5, 1, <<>>))

MCImages == OneFile \cup FlatTrees \cup DeepTrees \cup {Deeper, Wide}
MCBad == {{}, {Boot}, {Super}, {<<"inode", 0>>}, {<<"inode", 1>>}, {DataSector(1, 1)},
          {DataSector(2, 0)}, {DataSector(4, 1)}, {<<"single", 2, 1>>},
          {<<"second", 2, 1>>}, {<<"first", 2>>}}
MCCommands == [flags : SUBSET {"i", "p"}, disks : {1}, magic : {TRUE}]
              \cup [flags : {{"i"}}, disks : {0}, magic : {TRUE}]
              \cup [flags : {{"i"}}, disks : {1}, magic : {FALSE}]
MCLongNames == {"fourteen chars"}
=============================================================================
